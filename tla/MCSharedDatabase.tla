-------------------------- MODULE MCSharedDatabase --------------------------
(***************************************************************************)
(* Instances of SharedDatabase for TLC.  Tasks are interchangeable.        *)
(***************************************************************************)
EXTENDS SharedDatabase, TLC

Symmetry == Permutations(Tasks)
=============================================================================
