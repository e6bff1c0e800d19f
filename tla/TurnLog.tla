------------------------------- MODULE TurnLog -------------------------------
(***************************************************************************)
(* What a detached turn promises (services/turns.py, ADR-0024): each turn  *)
(* is a log that only grows, until it is closed by an end frame; at most   *)
(* one turn of a conversation is open; and a response reading a turn is    *)
(* handed a contiguous run of its log, from where it asked to start, and   *)
(* is complete only when the log is closed and has been handed over.       *)
(***************************************************************************)
EXTENDS Integers, Sequences

CONSTANTS
  Chats, Turns, Readers,
  Positions,  \* where a reader may ask to start
  Ends,       \* the frames a log may be closed with
  None

VARIABLES
  place,   \* the conversation of each turn, or None before it is begun
  log,     \* the frames of each turn
  closed,  \* whether the log of a turn is final
  view     \* what each reader was handed, and how it stands

vars == <<place, log, closed, view>>

Nobody == [turn |-> None, start |-> 0, got |-> << >>, state |-> "gone"]

Init ==
  /\ place  = [t \in Turns |-> None]
  /\ log    = [t \in Turns |-> << >>]
  /\ closed = [t \in Turns |-> FALSE]
  /\ view   = [r \in Readers |-> Nobody]

Reading(r) == view[r].state = "reading"

Open(r, t, i) ==
  /\ ~Reading(r)
  /\ view' = [view EXCEPT ![r] =
       [turn |-> t, start |-> i, got |-> << >>, state |-> "reading"]]

\* A new turn begins, read by whoever asked for it, once every earlier one is closed.
Begin(c, t, r) ==
  /\ place[t] = None
  /\ \A u \in Turns : place[u] = c => closed[u]
  /\ place' = [place EXCEPT ![t] = c]
  /\ Open(r, t, 0)
  /\ UNCHANGED <<log, closed>>

\* An open log, and no other, becomes one it is a prefix of.
Grows(t) ==
  /\ place[t] # None
  /\ ~closed[t]
  /\ log' = [log EXCEPT ![t] = log'[t]]
  /\ Len(log'[t]) >= Len(log[t])
  /\ \A i \in 1..Len(log[t]) : log'[t][i] = log[t][i]
  /\ UNCHANGED <<place, view>>

Extend(t) == Grows(t) /\ UNCHANGED closed

Close(t) ==
  /\ Grows(t)
  /\ log'[t] # << >>
  /\ log'[t][Len(log'[t])] \in Ends
  /\ closed' = [closed EXCEPT ![t] = TRUE]

Subscribe(r, t, i) ==
  /\ place[t] # None
  /\ Open(r, t, i)
  /\ UNCHANGED <<place, log, closed>>

Handed(r) == view[r].start + Len(view[r].got)

Deliver(r) ==
  /\ Reading(r)
  /\ Handed(r) < Len(log[view[r].turn])
  /\ view' = [view EXCEPT ![r].got = Append(@, log[view[r].turn][Handed(r) + 1])]
  /\ UNCHANGED <<place, log, closed>>

\* A response ends whole, or its connection closes.
Complete(r) ==
  /\ Reading(r)
  /\ closed[view[r].turn]
  /\ Handed(r) >= Len(log[view[r].turn])
  /\ view' = [view EXCEPT ![r].state = "complete"]
  /\ UNCHANGED <<place, log, closed>>

Drop(r) ==
  /\ Reading(r)
  /\ view' = [view EXCEPT ![r] = Nobody]
  /\ UNCHANGED <<place, log, closed>>

Next ==
  \/ \E c \in Chats, t \in Turns, r \in Readers : Begin(c, t, r)
  \/ \E t \in Turns : Extend(t) \/ Close(t)
  \/ \E r \in Readers, t \in Turns, i \in Positions : Subscribe(r, t, i)
  \/ \E r \in Readers : Deliver(r) \/ Complete(r) \/ Drop(r)

Spec == Init /\ [][Next]_vars
=============================================================================
