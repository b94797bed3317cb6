---------------------------- MODULE MCEnforcement ----------------------------
(***************************************************************************)
(* An instance of Enforcement for TLC.  Three capsules of one thread, the  *)
(* third signed with a key this installation does not have, and one of     *)
(* another; a tools/call and a tools/list to the API server for the first  *)
(* thread, and a tools/call over stdio for the other.                      *)
(***************************************************************************)
EXTENDS Enforcement, TLC

CONSTANTS c1, c2, c3, c4, q1, q2, q3, t1, t2

MCThreadOf == [x \in Capsules \union Calls |-> IF x \in {c4, q3} THEN t2 ELSE t1]
MCServerOf == [q \in Calls |-> IF q = q3 THEN "stdio" ELSE "api"]
MCGrants == c1 :> {q1, q3} @@ c2 :> {} @@ c3 :> {q1} @@ c4 :> {q1, q3}
=============================================================================
