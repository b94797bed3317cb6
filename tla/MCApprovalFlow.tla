--------------------------- MODULE MCApprovalFlow ---------------------------
(***************************************************************************)
(* Instances of ApprovalFlow for TLC.  Handlers are interchangeable, and   *)
(* so are the identifiers of requests.                                     *)
(***************************************************************************)
EXTENDS ApprovalFlow, TLC

Symmetry == Permutations(Handlers) \union Permutations(Pending)
=============================================================================
