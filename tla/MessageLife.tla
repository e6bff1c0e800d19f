------------------------------ MODULE MessageLife ------------------------------
(***************************************************************************)
(* What the database is promised of an answer that is persisted beside its *)
(* stream (services/persistence.py, ADR-0005).  The answer's row appears   *)
(* once, is overtaken only by later text while it streams, and settles in  *)
(* one step: with all the text, a final status, the conversation's tip     *)
(* moved to it and its two messages counted.  A settled row never changes. *)
(***************************************************************************)
EXTENDS Integers

CONSTANTS Chats, Turns, Outcomes, None

VARIABLES
  place,   \* the conversation of each turn
  made,    \* how much text each turn has produced, as a version
  life,    \* "absent", "streaming", or how the turn ended
  stored,  \* the version of the text in the row
  tip,     \* the active leaf of each conversation
  total    \* the messages a conversation counts

vars == <<place, made, life, stored, tip, total>>

Init ==
  /\ place  = [t \in Turns |-> None]
  /\ made   = [t \in Turns |-> 0]
  /\ life   = [t \in Turns |-> "absent"]
  /\ stored = [t \in Turns |-> 0]
  /\ tip    = [c \in Chats |-> None]
  /\ total  = [c \in Chats |-> 0]

Settled(t) == life[t] \in Outcomes

Claim(t, c) ==
  /\ place[t] = None
  /\ place' = [place EXCEPT ![t] = c]
  /\ UNCHANGED <<made, life, stored, tip, total>>

Make(t) ==
  /\ place[t] # None
  /\ ~Settled(t)
  /\ made' = [made EXCEPT ![t] = @ + 1]
  /\ UNCHANGED <<place, life, stored, tip, total>>

Appear(t) ==
  /\ place[t] # None
  /\ life[t] = "absent"
  /\ life' = [life EXCEPT ![t] = "streaming"]
  /\ UNCHANGED <<place, made, stored, tip, total>>

Save(t) ==
  /\ life[t] = "streaming"
  /\ stored[t] <= stored'[t]
  /\ stored'[t] <= made[t]
  /\ stored' = [stored EXCEPT ![t] = stored'[t]]
  /\ UNCHANGED <<place, made, life, tip, total>>

Settle(t, s) ==
  /\ life[t] = "streaming"
  /\ life' = [life EXCEPT ![t] = s]
  /\ stored' = [stored EXCEPT ![t] = made[t]]
  /\ tip' = [tip EXCEPT ![place[t]] = t]
  /\ total' = [total EXCEPT ![place[t]] = @ + 2]
  /\ UNCHANGED <<place, made>>

Next ==
  \E t \in Turns :
    \/ \E c \in Chats : Claim(t, c)
    \/ Make(t)
    \/ Appear(t)
    \/ Save(t)
    \/ \E s \in Outcomes : Settle(t, s)

Spec == Init /\ [][Next]_vars
=============================================================================
