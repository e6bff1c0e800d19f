----------------------------- MODULE MCTurnBroker -----------------------------
(* TurnBroker on a small instance: constants for TLC. *)
EXTENDS TurnBroker

CONSTANTS c, t1, t2, r1, r2, s1, s2

\* Besides a turn, its reader and a stop there comes a second turn of the conversation, or a
\* second reader, or a second stop: each pair of a kind meets one of the others.
Seconds ==
  LET joined == {k \in {t2, r2, s2} : \/ k = t2 /\ task'[t2] # "unused"
                                      \/ k = r2 /\ reader'[r2].state # "idle"
                                      \/ k = s2 /\ stopper'[s2].state # "idle"}
  IN \A j, k \in joined : j = k

MCSpec == Init /\ [][Next /\ Seconds]_vars /\ Fairness
===============================================================================
