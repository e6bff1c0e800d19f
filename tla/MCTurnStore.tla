----------------------------- MODULE MCTurnStore -----------------------------
(* TurnStore on small instances: constants for TLC. *)
EXTENDS TurnStore, TLC

CONSTANTS c1, c2, t1, t2, t3

Symmetric == Permutations(Chats) \cup Permutations(Turns)
=============================================================================
