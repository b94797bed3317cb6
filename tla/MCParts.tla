------------------------------- MODULE MCParts --------------------------------
(***************************************************************************)
(* Instances of three modules of their own state, checked in one run.  A   *)
(* behavior is a behavior of one of them; the other two rest.              *)
(*                                                                         *)
(* GovernedTools: a path of two directories and a leaf, two servers with a *)
(* call each, two changes by other programs.  Ingestion: three requests    *)
(* for two deliveries, marks that live for one of two steps of the clock,  *)
(* one restart.  SyncServer: two calls, three capsules, which differ in    *)
(* tools, paths and expiry.                                                *)
(***************************************************************************)
EXTENDS GovernedTools, Ingestion, SyncServer, TLC

VARIABLE part   \* the module that moves

vars == <<toolVars, ingestVars, syncVars, part>>

MCCapsules ==
    {[tools |-> {"read_file"}, paths |-> {<<"src">>}, expiry |-> 1],
     [tools |-> {"read_file", "write_file"}, paths |-> {<<"", "docs", "a.md">>}, expiry |-> 2],
     [tools |-> {"write_file"}, paths |-> {<<"src">>}, expiry |-> 2]}

MCOutsidePaths == {<<"src", "..", "..", "a">>}

MCAsked ==
    {[tool |-> "read_file", path |-> p] :
         p \in {<<"src", "a.py">>, <<"docs", "a.md">>} \union MCOutsidePaths}
    \union {[tool |-> "write_file", path |-> <<"src", "a.py">>]}

Init ==
    /\ part \in {"tools", "ingestion", "sync"}
    /\ ToolsInit
    /\ IngestInit
    /\ SyncInit
    /\ part # "tools" => entry[Root] = Nothing
    /\ part # "ingestion" => method = "ed25519"

Next ==
    /\ UNCHANGED part
    /\ \/ part = "tools" /\ ToolsNext /\ UNCHANGED <<ingestVars, syncVars>>
       \/ part = "ingestion" /\ IngestNext /\ UNCHANGED <<toolVars, syncVars>>
       \/ part = "sync" /\ SyncNext /\ UNCHANGED <<toolVars, ingestVars>>

Spec == Init /\ [][Next]_vars

\* Requests and deliveries are alike.
Symmetry == Permutations(Requests) \union Permutations(Deliveries)
=============================================================================
