----------------------------- MODULE MCNetRequest -----------------------------
(***************************************************************************)
(* An instance of NetRequest for TLC: a granted and another host, two      *)
(* public addresses and a private one.                                     *)
(***************************************************************************)
EXTENDS NetRequest
=============================================================================
