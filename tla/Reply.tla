--------------------------------- MODULE Reply ---------------------------------
(***************************************************************************)
(* What a reader of a turn can rely on: text and reasoning grow; text may  *)
(* be withdrawn into the reasoning, but never text from before the last    *)
(* exchange with tools; a tool call is answered before anything else is    *)
(* said; once the turn is over nothing changes, and what was kept is what  *)
(* was said.                                                               *)
(***************************************************************************)
EXTENDS Integers, Sequences

CONSTANTS Tokens, Ids, Names, None

VARIABLES
  said,     \* the reply
  thought,  \* the reasoning
  results,  \* answered tool calls
  open,     \* the call being run, or None
  firm,     \* how much of the reply can no longer be withdrawn
  keeps     \* what was kept, or None while the turn runs

vars == <<said, thought, results, open, firm, keeps>>

Running == keeps = None
Talking == Running /\ open = None

Init ==
  /\ said = << >> /\ thought = << >> /\ results = << >>
  /\ open = None
  /\ firm = 0
  /\ keeps = None

Say(x) ==
  /\ Talking
  /\ said' = Append(said, x)
  /\ UNCHANGED <<thought, results, open, firm, keeps>>

Muse(x) ==
  /\ Talking
  /\ thought' = Append(thought, x)
  /\ UNCHANGED <<said, results, open, firm, keeps>>

\* Everything said since the reply was last made firm was reasoning.
Withdraw ==
  /\ Talking
  /\ said' = SubSeq(said, 1, firm)
  /\ thought' = thought \o SubSeq(said, firm + 1, Len(said))
  /\ UNCHANGED <<results, open, firm, keeps>>

Firm ==
  /\ Talking
  /\ firm' = Len(said)
  /\ UNCHANGED <<said, thought, results, open, keeps>>

Ask(c) ==
  /\ Talking
  /\ open' = c
  /\ UNCHANGED <<said, thought, results, firm, keeps>>

Result(ok) ==
  /\ Running
  /\ open # None
  /\ results' = Append(results, [id |-> open.id, name |-> open.name, ok |-> ok])
  /\ open' = None
  /\ UNCHANGED <<said, thought, firm, keeps>>

\* The last result may be lost when the reply outgrew its buffer.
Close ==
  /\ Running
  /\ \E shown \in {results, SubSeq(results, 1, Len(results) - 1)} :
       keeps' = [text |-> said, thoughts |-> thought, trace |-> shown]
  /\ open' = None
  /\ UNCHANGED <<said, thought, results, firm>>

Next ==
  \/ \E x \in Tokens : Say(x) \/ Muse(x)
  \/ Withdraw \/ Firm
  \/ \E c \in [id : Ids, name : Names] : Ask(c)
  \/ \E ok \in BOOLEAN : Result(ok)
  \/ Close

Spec == Init /\ [][Next]_vars
===============================================================================
