----------------------------- MODULE Identifiers -----------------------------
(***************************************************************************)
(* ULIDs (ids.py): a millisecond and a random suffix, compared in that     *)
(* order.  The generator remembers the last of each; within a millisecond  *)
(* it counts the suffix up, and an overflow carries into the next one.     *)
(***************************************************************************)
EXTENDS Naturals

CONSTANTS
  SuffixCount,  \* 2^80: suffixes are 0 .. SuffixCount - 1
  MaxMoment     \* bound: milliseconds the wall clock passes through

ASSUME IdentifiersAssumption == SuffixCount \in Nat \ {0} /\ MaxMoment \in Nat

VARIABLES
  wall,     \* now_ms
  lastId,   \* _last_ms and _last_random, which are also the last identifier issued
  begun,    \* whether an identifier has been issued
  behind    \* whether the last one was issued at a moment before _last_ms

idVars == <<wall, lastId, begun, behind>>

Ulid == [ms : Nat, suffix : 0 .. SuffixCount - 1]

IdTypeOK ==
  /\ wall \in 0 .. MaxMoment
  /\ lastId \in Ulid
  /\ begun \in BOOLEAN /\ behind \in BOOLEAN

IdInit ==
  /\ wall \in 0 .. MaxMoment
  /\ lastId = [ms |-> 0, suffix |-> 0]
  /\ begun = FALSE /\ behind = FALSE

\* Time passes, and NTP may set it back.
ClockMoves ==
  /\ wall' \in 0 .. MaxMoment
  /\ UNCHANGED <<lastId, begun, behind>>

\* Mutant: the suffix wraps around within its millisecond.
CountsUp_WithoutCarry ==
  LET next == (lastId.suffix + 1) % SuffixCount
  IN lastId' = [ms |-> lastId.ms, suffix |-> next]

\* The next suffix of the same millisecond, or the first one of the next.
CountsUp ==
  LET next == (lastId.suffix + 1) % SuffixCount
  IN lastId' = [ms |-> IF next = 0 THEN lastId.ms + 1 ELSE lastId.ms, suffix |-> next]

\* A suffix is drawn for another millisecond, though never for one before the last.
Draws ==
  \E suffix \in 0 .. SuffixCount - 1 :
    lastId' = [ms |-> IF begun /\ wall < lastId.ms THEN lastId.ms ELSE wall, suffix |-> suffix]

NewUlid ==
  /\ IF begun /\ wall = lastId.ms THEN CountsUp ELSE Draws
  /\ begun' = TRUE
  /\ behind' = (begun /\ wall < lastId.ms)
  /\ UNCHANGED wall

IdNext == ClockMoves \/ NewUlid

IdSpec == IdInit /\ [][IdNext]_idVars

-----------------------------------------------------------------------------

Precedes(x, y) == x.ms < y.ms \/ (x.ms = y.ms /\ x.suffix < y.suffix)

\* An identifier is greater than the one before it, also when the suffixes of a millisecond
\* run out (new_ulid), as long as the clock has not fallen behind the last identifier.
CalmIdsIncrease ==
  [][begun /\ lastId' # lastId /\ ~behind' => Precedes(lastId, lastId')]_idVars

\* "The wall clock went backwards (NTP step). Never emit a smaller id." (ids.py:63)
IdsNeverDecrease == [][begun => ~Precedes(lastId', lastId)]_idVars
=============================================================================
