----------------------------- MODULE MCApprovalGate -----------------------------
(* ApprovalGate on small instances: constants for TLC. *)
EXTENDS ApprovalGate, TLC

CONSTANTS t1, t2, i1, i2, clock, notes, mail

MCTools == {clock, notes, mail}
MCMode  == (clock :> "never") @@ (notes :> "once") @@ (mail :> "always")
=================================================================================
