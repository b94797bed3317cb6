----------------------------- MODULE MCPathScope -----------------------------
(***************************************************************************)
(* An instance of PathScope for TLC: call paths of up to three segments,   *)
(* spelled in every way, in a workspace with a link from src/ln to         *)
(* secrets; targets of up to two segments, alone, and some globs, alone or *)
(* beside a second target.                                                 *)
(***************************************************************************)
EXTENDS PathScope

\* Paths of 1 to n of the given segments.
Spelled(segs, n) == UNION {[1..k -> segs] : k \in 1..n}

MCGlobs == {"*", "**", "*.key", "*.pem", "*.py", ".env.*"}
MCBrackets == {"[.]env"}
MCNames == {"src", "ln", "a.key", ".env", "secrets", "404", "4.04", "https:"}
MCSegments == MCNames \union MCGlobs \union MCBrackets \union {"", ".", "..", ".git"}
MCGlobPairs ==
    (MCSegments \X {"*", "**"}) \union {<<g, g>> : g \in MCGlobs}
        \union {<<"a.key", "*.key">>, <<".env", "[.]env">>}
MCNotPaths == {"404", "4.04"}
MCFileNames == {"a.key", ".env", ".git", "4.04", ".", "..", ".env.*", "*.key", "*.pem", "*.py"}

MCLinks == [p \in {<<"src", "ln">>} |-> <<"secrets">>]
MCMaxFiles == [external |-> 1, contributor |-> 2, maintainer |-> -1]
MCToolSets == {{"read_file"}, {"read_file", "write_file"}, {"read_file", "net_request"},
               {"write_file", "run_tests"}, {"execute_cmd"}}

GlobTargets == {<<"src", "*">>, <<"src", "**">>, <<"src", "**", ".env">>, <<"src", "*.py">>,
                <<"*", "src">>, <<"**", "*">>, <<"src", "**", "a.key">>, <<"secrets", "**">>}
MCTargetSets ==
    {{p} : p \in Spelled({"src", "a.key", ".env", "secrets", ".", "..", ""}, 2)}
        \union {{p} : p \in GlobTargets}
        \union {{p, q} : p \in GlobTargets, q \in {<<".env">>, <<"src", "a.key">>}}
        \union {{<<"src">>, <<"src", "a.key">>, <<"secrets", "ln">>}, {},
                {<<"src">>, <<"ln">>, <<"src", "ln">>}}
        \union {{<<"[.]env">>}, {<<"src", "[.]env">>}, {<<"[.]env">>, <<".env">>},
                {<<"404">>}, {<<"**", "src">>}}

CallPaths == Spelled({"src", "ln", "a.key", ".env", ".."}, 3)
                 \union Spelled({"src", ".env", "secrets", ".", ""}, 2)
                 \union {<<>>, <<"", "src", "a.key">>, <<"src", ".", "a.key">>,
                         <<"404">>, <<"4.04">>, <<"src", "404">>, <<"404", "src">>,
                         <<"[.]env">>, <<"https:", "", "src">>, <<"https:", "src">>}
Texts == {<<"404">>, <<"4.04">>, <<"src">>, <<".env">>, <<"https:", "", "src">>}
MCCalls ==
    [tool : {"read_file", "write_file", "net_request"}, path : CallPaths, text : {<<>>}]
        \union [tool : {"write_file"}, path : {<<"src">>, <<"404">>, <<".env">>}, text : Texts]
        \union [tool : {"net_request"}, path : {<<>>}, text : Texts]
=============================================================================
