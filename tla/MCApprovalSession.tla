--------------------------- MODULE MCApprovalSession ---------------------------
(***************************************************************************)
(* Two requests, which are alike: each may be approved, and each may be    *)
(* the one that the other's question or answer disturbs.                   *)
(***************************************************************************)
EXTENDS ApprovalSession, TLC

Alike == Permutations(Task)

=============================================================================
