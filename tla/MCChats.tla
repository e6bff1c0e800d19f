-------------------------------- MODULE MCChats --------------------------------
(***************************************************************************)
(* One conversation, and the signed-in sessions of the accounts that have  *)
(* conversations, on small instances.  They share no state, so each        *)
(* behaviour is one part's and the other stays as it is; two model values  *)
(* are turns in the one and tabs in the other.                             *)
(***************************************************************************)
EXTENDS Conversation, Accounts, TLC

CONSTANTS t1, t2, k1, k2, person, local

VARIABLE part

Symmetric == Permutations({t1, t2}) \cup Permutations({k1, k2})

\* A history is read page by page while no compaction runs: pages do not look at notes.  And
\* messages are omitted where notes are not edited as well: edits do not look at what is omitted.
Apart ==
  /\ page'.got = <<>> \/ \A k \in Compactors : compaction'[k].stage = "idle"
  /\ \/ edits' = 0
     \/ notes'.omitted = {} /\ \A k \in Compactors : compaction'[k].omitted = {}

MCInit ==
  /\ part \in {"conversation", "accounts"}
  /\ ConvInit
  /\ AccountsInit /\ (part = "accounts" \/ authOn)

MCNext ==
  /\ UNCHANGED part
  /\ \/ part = "conversation" /\ ConvNext /\ Apart /\ UNCHANGED accountVars
     \/ part = "accounts" /\ AccountsNext /\ UNCHANGED convVars

MCSpec == MCInit /\ [][MCNext]_<<convVars, accountVars, part>>
================================================================================
