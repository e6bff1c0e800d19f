------------------------------- MODULE TurnStore -------------------------------
(***************************************************************************)
(* Persistence beside the stream (services/persistence.py, the insert and  *)
(* the finalizer of services/chat.py, Database.write of db/engine.py, the  *)
(* background tasks of state.py and the shutdown of lifespan.py).          *)
(*                                                                         *)
(* A turn has three kinds of database jobs: the insert of its two rows, a  *)
(* flush per interval, and one finalizer.  Flushes and the finalizer of a  *)
(* turn share its StreamWriter's lock; on SQLite every transaction of the  *)
(* process also waits in one queue.  Text is a version number: appending   *)
(* and retracting both make a newer text.  asyncio.Lock serves its waiters *)
(* in the order they came.                                                 *)
(***************************************************************************)
EXTENDS Integers, Sequences, FiniteSets

CONSTANTS
  Chats,     \* conversations
  Turns,     \* turns, each with one assistant message
  IsSqlite,  \* Database.is_sqlite
  MaxText,   \* bound: how often a turn's text changes
  None

ASSUME StoreAssumption ==
  /\ IsSqlite \in BOOLEAN
  /\ MaxText \in Nat
  /\ None \notin Turns \cup Chats

VARIABLES
  up,       \* the process
  chat,     \* the conversation a turn writes to
  gen,      \* the generator of a turn
  outcome,  \* the status its finalizer was given
  text,     \* StreamWriter.text, as a version; kept for the properties after a crash
  insert,   \* the task of _insert_turn
  pending,  \* snapshots of the flushes that wait for or hold StreamWriter._lock
  flush,    \* the flush that holds it
  final,    \* the task of _finalize
  dblock,   \* Database._write_lock: its holder, then its waiters
  row,      \* the assistant row of a turn
  leaf,     \* Chat.active_leaf_id
  count     \* Chat.message_count

tasks == <<insert, pending, flush, final, dblock>>
store == <<row, leaf, count>>
vars == <<up, chat, gen, outcome, text, tasks, store>>

Outcomes == {"complete", "stopped", "error"}
Kinds    == {"insert", "flush", "final"}

TypeOK ==
  /\ up      \in {"up", "draining", "exiting", "down"}
  /\ chat    \in [Turns -> Chats \cup {None}]
  /\ gen     \in [Turns -> {"unused", "producing", "ended", "gone"}]
  /\ outcome \in [Turns -> Outcomes \cup {None}]
  /\ text    \in [Turns -> Nat]
  /\ insert  \in [Turns -> {"none", "asking", "cancelled", "executed", "committed", "failed"}]
  /\ pending \in [Turns -> Seq(Nat)]
  /\ flush   \in [Turns -> {"idle", "asking", "cancelled", "hit", "missed"}]
  /\ final   \in [Turns -> {"none", "awaiting", "asking", "cancelled", "executed", "done", "failed"}]
  /\ dblock  \in Seq(Kinds \X Turns)
  /\ row     \in [Turns -> [status : Outcomes \cup {"absent", "streaming"}, content : Nat]]
  /\ leaf    \in [Chats -> Turns \cup {None}]
  /\ count   \in [Chats -> Nat]

Init ==
  /\ up      = "up"
  /\ chat    = [t \in Turns |-> None]
  /\ gen     = [t \in Turns |-> "unused"]
  /\ outcome = [t \in Turns |-> None]
  /\ text    = [t \in Turns |-> 0]
  /\ insert  = [t \in Turns |-> "none"]
  /\ pending = [t \in Turns |-> << >>]
  /\ flush   = [t \in Turns |-> "idle"]
  /\ final   = [t \in Turns |-> "none"]
  /\ dblock  = << >>
  /\ row     = [t \in Turns |-> [status |-> "absent", content |-> 0]]
  /\ leaf    = [c \in Chats |-> None]
  /\ count   = [c \in Chats |-> 0]

Settled(t) == row[t].status \in Outcomes

-----------------------------------------------------------------------------
(* Database.write: on SQLite a first-come-first-served lock over the process. *)

Ask(k, t) == dblock' = IF IsSqlite THEN Append(dblock, <<k, t>>) ELSE dblock

\* Mutant: whoever waits may take the lock.
Granted_Unordered(k, t) == IsSqlite => \E i \in 1..Len(dblock) : dblock[i] = <<k, t>>

Granted(k, t) == IsSqlite => dblock # << >> /\ Head(dblock) = <<k, t>>

\* Mutant: a failed transaction keeps the lock.
Release_Kept == UNCHANGED dblock

Release == dblock' = IF IsSqlite THEN Tail(dblock) ELSE dblock

-----------------------------------------------------------------------------
(* The generator: the insert task is created first, tokens follow. *)

Begin(t, c) ==
  /\ up = "up"
  /\ gen[t] = "unused"
  /\ gen' = [gen EXCEPT ![t] = "producing"]
  /\ chat' = [chat EXCEPT ![t] = c]
  /\ insert' = [insert EXCEPT ![t] = "asking"]
  /\ Ask("insert", t)
  /\ UNCHANGED <<up, outcome, text, pending, flush, final, store>>

\* A token or a retraction; after a token maybe_flush may find its interval elapsed.
Produce(t, flushNow) ==
  /\ gen[t] = "producing"
  /\ text[t] < MaxText
  /\ text' = [text EXCEPT ![t] = @ + 1]
  /\ pending' = IF flushNow THEN [pending EXCEPT ![t] = Append(@, text[t] + 1)] ELSE pending
  /\ UNCHANGED <<up, chat, gen, outcome, insert, flush, final, dblock, store>>

\* The finally block spawns the finalizer, whatever ended the turn.
EndTurn(t, s) ==
  /\ gen[t] = "producing"
  /\ gen' = [gen EXCEPT ![t] = "ended"]
  /\ outcome' = [outcome EXCEPT ![t] = s]
  /\ final' = [final EXCEPT ![t] = "awaiting"]
  /\ UNCHANGED <<up, chat, text, insert, pending, flush, dblock, store>>

-----------------------------------------------------------------------------
(* Transactions.  A statement that fails, or a task cancelled in its commit, rolls back. *)

InsertExecutes(t) ==
  /\ insert[t] = "asking"
  /\ Granted("insert", t)
  /\ insert' = [insert EXCEPT ![t] = "executed"]
  /\ UNCHANGED <<up, chat, gen, outcome, text, pending, flush, final, dblock, store>>

InsertCommits(t) ==
  /\ insert[t] = "executed"
  /\ insert' = [insert EXCEPT ![t] = "committed"]
  /\ row' = [row EXCEPT ![t] = [status |-> "streaming", content |-> 0]]
  /\ Release
  /\ UNCHANGED <<up, chat, gen, outcome, text, pending, flush, final, leaf, count>>

InsertFails(t) ==
  /\ insert[t] \in {"executed", "cancelled"}
  /\ Granted("insert", t)
  /\ insert' = [insert EXCEPT ![t] = "failed"]
  /\ Release
  /\ UNCHANGED <<up, chat, gen, outcome, text, pending, flush, final, store>>

\* Mutant: flushes do not take turns; any of those waiting may be the next to write.
FlushAsks_Unlocked(t) ==
  /\ flush[t] = "idle"
  /\ \E i \in 1..Len(pending[t]) :
       pending' = [pending EXCEPT ![t] =
         <<@[i]>> \o SubSeq(@, 1, i - 1) \o SubSeq(@, i + 1, Len(@))]
  /\ flush' = [flush EXCEPT ![t] = "asking"]
  /\ Ask("flush", t)
  /\ UNCHANGED <<up, chat, gen, outcome, text, insert, final, store>>

FlushAsks(t) ==
  /\ flush[t] = "idle"
  /\ pending[t] # << >>
  /\ flush' = [flush EXCEPT ![t] = "asking"]
  /\ Ask("flush", t)
  /\ UNCHANGED <<up, chat, gen, outcome, text, insert, pending, final, store>>

\* The UPDATE sees committed rows only: it misses a row whose insert has not committed.
FlushExecutes(t) ==
  /\ flush[t] = "asking"
  /\ Granted("flush", t)
  /\ flush' = [flush EXCEPT ![t] = IF row[t].status = "absent" THEN "missed" ELSE "hit"]
  /\ UNCHANGED <<up, chat, gen, outcome, text, insert, pending, final, dblock, store>>

FlushLeaves(t) ==
  /\ flush' = [flush EXCEPT ![t] = "idle"]
  /\ pending' = [pending EXCEPT ![t] = Tail(@)]
  /\ Release
  /\ UNCHANGED <<up, chat, gen, outcome, text, insert, final, leaf, count>>

FlushCommits(t) ==
  /\ flush[t] \in {"hit", "missed"}
  /\ row' = IF flush[t] = "hit" THEN [row EXCEPT ![t].content = Head(pending[t])] ELSE row
  /\ FlushLeaves(t)

FlushFails(t) ==
  /\ flush[t] \in {"hit", "missed", "cancelled"}
  /\ Granted("flush", t)
  /\ FlushLeaves(t)
  /\ UNCHANGED row

\* `await insert`, then the writer's lock, where every flush of the turn came before it.
FinalAsks(t) ==
  /\ final[t] = "awaiting"
  /\ insert[t] = "committed"
  /\ pending[t] = << >>
  /\ final' = [final EXCEPT ![t] = "asking"]
  /\ Ask("final", t)
  /\ UNCHANGED <<up, chat, gen, outcome, text, insert, pending, flush, store>>

FinalGivesUp(t) ==
  /\ final[t] = "awaiting"
  /\ insert[t] = "failed"
  /\ final' = [final EXCEPT ![t] = "failed"]
  /\ UNCHANGED <<up, chat, gen, outcome, text, insert, pending, flush, dblock, store>>

FinalExecutes(t) ==
  /\ final[t] = "asking"
  /\ Granted("final", t)
  /\ final' = [final EXCEPT ![t] = "executed"]
  /\ UNCHANGED <<up, chat, gen, outcome, text, insert, pending, flush, dblock, store>>

\* Mutant: the conversation is updated for complete answers only.
FinalCommits_CompleteOnly(t) ==
  /\ final[t] = "executed"
  /\ final' = [final EXCEPT ![t] = "done"]
  /\ row' = [row EXCEPT ![t] = [status |-> outcome[t], content |-> text[t]]]
  /\ leaf' = [leaf EXCEPT ![chat[t]] = t]
  /\ count' = IF outcome[t] = "complete" THEN [count EXCEPT ![chat[t]] = @ + 2] ELSE count
  /\ Release
  /\ UNCHANGED <<up, chat, gen, outcome, text, insert, pending, flush>>

FinalCommits(t) ==
  /\ final[t] = "executed"
  /\ final' = [final EXCEPT ![t] = "done"]
  /\ row' = [row EXCEPT ![t] = [status |-> outcome[t], content |-> text[t]]]
  /\ leaf' = [leaf EXCEPT ![chat[t]] = t]
  /\ count' = [count EXCEPT ![chat[t]] = @ + 2]
  /\ Release
  /\ UNCHANGED <<up, chat, gen, outcome, text, insert, pending, flush>>

FinalFails(t) ==
  /\ final[t] \in {"executed", "cancelled"}
  /\ Granted("final", t)
  /\ final' = [final EXCEPT ![t] = "failed"]
  /\ Release
  /\ UNCHANGED <<up, chat, gen, outcome, text, insert, pending, flush, store>>

-----------------------------------------------------------------------------
(* The process: drain cancels what outlives its grace; a crash may come at any time. *)

Shutdown ==
  /\ up = "up"
  /\ up' = "draining"
  /\ UNCHANGED <<chat, gen, outcome, text, tasks, store>>

\* Cancelling a finalizer that awaits the insert cancels the insert with it; a task
\* inside its transaction still commits or rolls back.
DrainCancels ==
  /\ up = "draining"
  /\ up' = "exiting"
  /\ insert' = [t \in Turns |->
       IF final[t] = "awaiting" /\ insert[t] = "asking" THEN "cancelled" ELSE insert[t]]
  /\ pending' = [t \in Turns |->
       IF flush[t] = "idle" THEN << >> ELSE SubSeq(pending[t], 1, 1)]
  /\ flush' = [t \in Turns |-> IF flush[t] = "asking" THEN "cancelled" ELSE flush[t]]
  /\ final' = [t \in Turns |->
       IF final[t] = "awaiting" THEN "failed"
       ELSE IF final[t] = "asking" THEN "cancelled" ELSE final[t]]
  /\ UNCHANGED <<chat, gen, outcome, text, dblock, store>>

\* The process is killed, or exits: only what was committed is left.
ProcessEnds ==
  /\ up # "down"
  /\ up' = "down"
  /\ gen' = [t \in Turns |-> IF gen[t] = "unused" THEN "unused" ELSE "gone"]
  /\ insert' = [t \in Turns |-> IF insert[t] \in {"none", "committed"} THEN insert[t] ELSE "failed"]
  /\ pending' = [t \in Turns |-> << >>]
  /\ flush' = [t \in Turns |-> "idle"]
  /\ final' = [t \in Turns |-> IF final[t] \in {"none", "done"} THEN final[t] ELSE "failed"]
  /\ dblock' = << >>
  /\ UNCHANGED <<chat, outcome, text, store>>

\* build_state reads no message.
Restart ==
  /\ up = "down"
  /\ up' = "up"
  /\ UNCHANGED <<chat, gen, outcome, text, tasks, store>>

-----------------------------------------------------------------------------

InsertStep(t) == InsertExecutes(t) \/ InsertCommits(t) \/ InsertFails(t)
FlushStep(t) == FlushAsks(t) \/ FlushExecutes(t) \/ FlushCommits(t) \/ FlushFails(t)
FinalStep(t) ==
  FinalAsks(t) \/ FinalGivesUp(t) \/ FinalExecutes(t) \/ FinalCommits(t) \/ FinalFails(t)
ProcessStep == Shutdown \/ DrainCancels \/ ProcessEnds \/ Restart

Next ==
  \/ \E t \in Turns :
       \/ \E c \in Chats : Begin(t, c)
       \/ \E flushNow \in BOOLEAN : Produce(t, flushNow)
       \/ \E s \in Outcomes : EndTurn(t, s)
       \/ InsertStep(t)
       \/ FlushStep(t)
       \/ FinalStep(t)
  \/ ProcessStep

Spec == Init /\ [][Next]_vars

\* The event loop and the database run every background task to its end.
FairSpec ==
  Spec /\ \A t \in Turns : WF_vars(InsertStep(t)) /\ WF_vars(FlushStep(t)) /\ WF_vars(FinalStep(t))

-----------------------------------------------------------------------------
(* Properties *)

\* Flushes, finalizers, crashes and failures, in any order, leave every row a life
\* MessageLife allows: text only moves forward, a settled row has all of it and is
\* frozen, and it settles in one step with its conversation's leaf and count.
Life == INSTANCE MessageLife WITH
  place  <- chat,
  made   <- text,
  life   <- [t \in Turns |-> row[t].status],
  stored <- [t \in Turns |-> row[t].content],
  tip    <- leaf,
  total  <- count

ImplementsLife == Life!Spec

\* A conversation counts two messages for each of its settled answers, however they
\* ended and whatever crashed, and its leaf is one of them (persistence.py: finalize).
CountsMatchRows ==
  \A c \in Chats :
    LET settled == {t \in Turns : chat[t] = c /\ Settled(t)} IN
    /\ count[c] = 2 * Cardinality(settled)
    /\ leaf[c] = None <=> settled = {}
    /\ leaf[c] # None => leaf[c] \in settled

Executing(k, t) ==
  \/ k = "insert" /\ insert[t] = "executed"
  \/ k = "flush" /\ flush[t] \in {"hit", "missed"}
  \/ k = "final" /\ final[t] = "executed"

\* On SQLite no two transactions of the process are ever open together (engine.py: write).
WritesAreSerialized ==
  IsSqlite =>
    \A j, k \in Kinds, t, u \in Turns :
      Executing(j, t) /\ Executing(k, u) => <<j, t>> = <<k, u>>

\* On SQLite a flush never updates nothing because it overtook the insert of its row:
\* it misses only a row that will never exist (persistence.py: _flush).
FlushesFindTheirRow ==
  IsSqlite => \A t \in Turns : flush[t] = "missed" => insert[t] = "failed"

\* Writes come one after another, find what they update, and leave counts that agree with the
\* rows (engine.py, persistence.py): types, and the three above.
WritesInv == TypeOK /\ CountsMatchRows /\ WritesAreSerialized /\ FlushesFindTheirRow

\* Every turn that ended in a process that stays up is settled in the database, unless
\* its own insert or finalizer failed: nothing waits for ever (chat.py: _finalize).
EndedTurnsSettle ==
  \A t \in Turns : gen[t] = "ended" ~> (Settled(t) \/ final[t] = "failed")

\* ADR-0005: a message found in `streaming` state at startup is repaired to `stopped`.
CrashedTurnsAreRepaired ==
  \A t \in Turns : up = "up" /\ gen[t] = "gone" => row[t].status # "streaming"
=============================================================================
