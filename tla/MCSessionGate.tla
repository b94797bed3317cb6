--------------------------- MODULE MCSessionGate ---------------------------
(***************************************************************************)
(* Instances of SessionGate for TLC: which thread each request belongs to  *)
(* and what it is granted.                                                 *)
(***************************************************************************)
EXTENDS SessionGate, TLC

CONSTANTS r1, r2, r3, t1, t2

\* Two requests of one thread, with more than four tools between them and
\* more than two in the first, and one of another thread.
TwoThreads == r1 :> t1 @@ r2 :> t1 @@ r3 :> t2
MixedTools == r1 :> {"a", "b", "c"} @@ r2 :> {"d", "e"} @@ r3 :> {"a"}

\* Small requests of one thread.
OneThread == [r \in Requests |-> t1]
SmallTools == [r \in Requests |-> {"a"}]
SmallSymmetry == Permutations(Requests)
=============================================================================
