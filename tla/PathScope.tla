------------------------------ MODULE PathScope ------------------------------
(***************************************************************************)
(* Which paths a capsule grants, and which file a tool then touches.  The  *)
(* policy engine cuts a request down to its trust tier, the proxy compares *)
(* the paths of a tools/call with the patterns that are left, and the      *)
(* governed tool resolves the path on the file system and compares again.  *)
(*                                                                         *)
(* A path or pattern is the sequence of its segments, split at "/" (or     *)
(* "\"): <<"", "src">> is "/src", <<"">> is the empty string, and <<>>     *)
(* stands for an argument that is not given.  Segments have no blanks      *)
(* around them.  fnmatch on one segment is a constant relation.            *)
(* allowed_hosts, expiry and the audit log are left out; the last two are  *)
(* in Enforcement.                                                         *)
(***************************************************************************)
EXTENDS Integers, FiniteSets, Sequences, SequencesExt

CONSTANTS Segments,    \* segments of paths, patterns and arguments
          Globs,       \* segments that contain "*" or "?"
          Brackets,    \* segments that contain "[", with or without a wildcard
          GlobPairs,   \* <<name, segment>> that fnmatch accepts, for those two kinds
          NotPaths,    \* literals, numbers, JSON, texts of several lines or 256 characters
          FileNames,   \* segments with a leading dot, a known name or (in one line) an extension
          Links,       \* symbolic links of the workspace: place |-> place
          MaxFiles,    \* max_files of each tier, scaled down; -1 is no limit
          ToolSets,    \* requested_tools the compiler may ask for
          TargetSets,  \* target_paths it may ask for
          Calls        \* tool, path argument and other text argument of agents' calls

Tiers == {"external", "contributor", "maintainer"}
KnownTools == {"read_file", "write_file", "run_tests", "net_request", "execute_cmd"}

\* A resolved place of the workspace, or one that still climbs out of it.
IsPlace(place) ==
    /\ place \in Seq(Segments)
    /\ \A i \in DOMAIN place :
           /\ place[i] \notin {"", "."}
           /\ place[i] = ".." => i = 1 \/ place[i - 1] = ".."

\* The segments of the patterns that policy and engine spell out.
SpelledOut == {".env", ".git", "secrets", "**", ".env.*", "*.key", "*.pem"}

\* What the policy spells out has wildcards where it says so and no "[", and fnmatch
\* accepts "" and "." for none of its wildcards but "**".
ASSUME PathScopeAssumption ==
    /\ {"", ".", ".."} \union SpelledOut \subseteq Segments
    /\ {"**", ".env.*", "*.key", "*.pem"} \subseteq Globs
    /\ (Globs \union Brackets) \intersect {"", ".", "..", ".env", ".git", "secrets"} = {}
    /\ \A pair \in GlobPairs :
           pair[1] \in {"", "."} => pair[2] \notin {".env.*", "*.key", "*.pem"}
    /\ \A p \in DOMAIN Links : IsPlace(Links[p]) /\ Links[p] \notin DOMAIN Links
    /\ MaxFiles \in [Tiers -> Nat \union {-1}]
    /\ ToolSets \subseteq SUBSET KnownTools
    /\ TargetSets \subseteq SUBSET Seq(Segments)
    /\ Calls \subseteq [tool : KnownTools, path : Seq(Segments), text : Seq(Segments)]

-----------------------------------------------------------------------------
\* Paths.

\* Some patterns do not match themselves: "[.]env" matches ".env" alone.
Fnmatch(name, seg) ==
    IF seg \in Globs \union Brackets THEN <<name, seg>> \in GlobPairs ELSE name = seg

\* split("/") of a string that begins with "/" begins with an empty segment.
IsAbsolute(raw) == Len(raw) > 1 /\ Head(raw) = ""

\* canonicalize_path, without the leading "/": match_pattern drops it.
Collapse(parts, seg) ==
    IF seg \in {"", "."} THEN parts
    ELSE IF seg = ".." /\ parts # <<>> /\ Last(parts) # ".." THEN Front(parts)
    ELSE Append(parts, seg)

Canonical(raw) ==
    LET parts[n \in 0..Len(raw)] ==
            IF n = 0 THEN <<>> ELSE Collapse(parts[n - 1], raw[n])
    IN  parts[Len(raw)]

\* _match_inner: "**" takes any number of segments, another pattern segment one.
\* from[qi] is the set of the pi from which the rest of the name matches.
MatchNonEmpty(name, glob) ==
    LET end == Len(name) + 1
        from[qi \in 1..Len(glob) + 1] ==
            IF qi > Len(glob) THEN {end}
            ELSE IF glob[qi] = "**" THEN {pi \in 1..end : \E i \in pi + 1..end : i \in from[qi + 1]}
            ELSE {pi \in 1..Len(name) : Fnmatch(name[pi], glob[qi]) /\ pi + 1 \in from[qi + 1]}
    IN  1 \in from[1]
MatchParts(name, glob) ==
    LET end == Len(name) + 1
        from[qi \in 1..Len(glob) + 1] ==
            IF qi > Len(glob) THEN {end}
            ELSE IF glob[qi] = "**" THEN {pi \in 1..end : \E i \in pi..end : i \in from[qi + 1]}
            ELSE {pi \in 1..Len(name) : Fnmatch(name[pi], glob[qi]) /\ pi + 1 \in from[qi + 1]}
    IN  1 \in from[1]

MatchPattern(path, pattern) == MatchParts(Canonical(path), Canonical(pattern))

\* path_allowed: a path that still climbs matches nothing.
PathAllowed(canonical, patterns) ==
    /\ ~Contains(canonical, "..")
    /\ \E p \in patterns : MatchPattern(canonical, p)

-----------------------------------------------------------------------------
\* The policy engine.

DotFiles == {<<"**", ".env">>, <<"**", ".env.*">>, <<"**", "secrets", "**">>,
             <<"**", "*.key">>, <<"**", "*.pem">>}
SensitivePatterns == DotFiles

TierTools(tier) ==
    CASE tier = "external"    -> {"read_file"}
      [] tier = "contributor" -> {"read_file", "write_file", "run_tests"}
      [] tier = "maintainer"  -> KnownTools

DeniedPatterns(tier) ==
    IF tier = "maintainer" THEN {} ELSE DotFiles \union {<<"**", ".git", "**">>}

\* removeprefix("./")
Trimmed(path) == IF Len(path) > 1 /\ Head(path) = "." THEN Tail(path) ELSE path

\* A glob to the policy, which does not look for "[".
IsGlob(path) == \E i \in DOMAIN path : path[i] \in Globs

\* The segments before the first wildcard.
LiteralPrefix(path) ==
    LET free == {n \in 0..Len(path) : ~IsGlob(SubSeq(path, 1, n))}
    IN  SubSeq(path, 1, CHOOSE n \in free : \A k \in free : k <= n)

\* The slow path of _path_matches_denied: the directories may meet, and the last
\* segments match one another.
GlobMeets(path, denied) ==
    LET dir == LiteralPrefix(Front(path))
        deniedDir == LiteralPrefix(denied)
        leaf == Last(path)
        deniedLeaf == Last(denied)
    IN  /\ dir # <<>>
        /\ IsPrefix(dir, deniedDir) \/ IsPrefix(deniedDir, dir)
        /\ \/ leaf = "**"
           \/ /\ deniedLeaf # "**"
              /\ \/ Fnmatch(deniedLeaf, leaf)
                 \/ deniedLeaf \in Globs /\ Fnmatch(leaf, deniedLeaf)
                 \/ leaf = "*"

\* _path_matches_denied.  A concrete path is compared as match_pattern normalises it.
DeniedAsSpelled(path, denied) ==
    LET p == Trimmed(path)
    IN  \E d \in denied : IF IsGlob(p) THEN GlobMeets(p, d) ELSE MatchParts(p, d)

PathMatchesDenied(path, denied) ==
    LET p == Trimmed(path)
    IN  \E d \in denied : IF IsGlob(p) THEN GlobMeets(p, d) ELSE MatchPattern(p, d)

\* _validate_target_path: relative, without "..", and with an anchor.
ValidTargetPath(path) ==
    /\ ~IsAbsolute(path)
    /\ ~Contains(path, "..")
    /\ \E i \in DOMAIN path : path[i] \notin Globs \union {"", "."}

\* _requires_human_approval.  SessionGate models what the session asks for.
HumanForToolsOnly(tier, tools, paths, sessionAsks) ==
    \/ tier = "maintainer" /\ tools \intersect {"net_request", "execute_cmd"} # {}
    \/ sessionAsks

RequiresHumanApproval(tier, tools, paths, sessionAsks) ==
    \/ tier = "maintainer" /\ tools \intersect {"net_request", "execute_cmd"} # {}
    \/ tier = "maintainer" /\ \E p \in paths, s \in SensitivePatterns : MatchPattern(Trimmed(p), s)
    \/ sessionAsks

-----------------------------------------------------------------------------
\* policies/capsule.rego, the canonical policy, which the engine mirrors.  Its
\* glob.match compares the text as it is: "**" stands for one segment or more, a
\* directory that is not there being an empty one.
RegoTools(tier) ==
    CASE tier = "external"    -> {"read_file"}
      [] tier = "contributor" -> {"read_file", "write_file", "run_tests"}
      [] tier = "maintainer"  -> {"read_file", "write_file", "run_tests", "execute_cmd", "net_request"}

RegoSensitive == {<<"**", ".env">>, <<"**", ".env.*">>, <<"**", "secrets", "**">>,
                  <<"**", "*.key">>, <<"**", "*.pem">>}
RegoDenied(tier) ==
    IF tier = "maintainer" THEN {} ELSE RegoSensitive \union {<<"**", ".git", "**">>}

\* denied_path: as spelled, or with "./" before it.
RegoDenies(tier, path) ==
    \E d \in RegoDenied(tier) :
        MatchNonEmpty(Trimmed(path), d) \/ MatchNonEmpty(<<".">> \o Trimmed(path), d)

\* final_paths: neither denied nor invalid_path, and anchored_path.
RegoFinal(tier, paths) ==
    {p \in paths :
        /\ ~RegoDenies(tier, p)
        /\ ~IsAbsolute(p) /\ ~Contains(p, "..")
        /\ \E i \in DOMAIN p : p[i] \notin Globs \union {"", "."}}

\* require_human_approval, without what the session asks for.
RegoAsksHuman(tier, tools, paths) ==
    /\ tier = "maintainer"
    /\ \/ tools \intersect {"net_request", "execute_cmd"} # {}
       \/ \E p \in RegoFinal(tier, paths), s \in RegoSensitive : MatchNonEmpty(Trimmed(p), s)

-----------------------------------------------------------------------------
\* The file system.

\* Path.resolve of a relative path in the workspace: links are followed before
\* a ".." after them is applied.  A place outside begins with "..".
Enter(place, seg, links) ==
    IF seg \in {"", "."} THEN place
    ELSE IF seg = ".." /\ place # <<>> /\ Last(place) # ".." THEN Front(place)
    ELSE LET next == Append(place, seg)
         IN  IF next \in DOMAIN links THEN links[next] ELSE next

Walk(raw, links) ==
    LET place[n \in 0..Len(raw)] ==
            IF n = 0 THEN <<>> ELSE Enter(place[n - 1], raw[n], links)
    IN  place[Len(raw)]

IsOutside(place) == place # <<>> /\ Head(place) = ".."

\* (root / raw).resolve(); an absolute argument replaces the root, and the paths
\* considered do not lead back into it.
Candidate(raw) == IF IsAbsolute(raw) THEN <<"..">> ELSE Walk(raw, Links)

\* GovernedToolHandler._resolve: the escape check, and the second scope check.
ResolvesUnchecked(raw, paths) ==
    /\ raw \notin {<<>>, <<"">>}
    /\ ~IsOutside(Candidate(raw))
Resolves(raw, paths) ==
    /\ raw \notin {<<>>, <<"">>}
    /\ ~IsOutside(Candidate(raw))
    /\ PathAllowed(Candidate(raw), paths)

-----------------------------------------------------------------------------
VARIABLES stage,    \* where the request is
          capsule,  \* the policy's decision on it, and the capsule made from it
          human,    \* whether a human approved it
          call      \* the tools/call in progress, and what became of it

vars == <<stage, capsule, human, call>>

NoCall == [tool |-> "none", path |-> <<>>, text |-> <<>>, verdict |-> "none"]
Undecided == [tier |-> "external", tools |-> {}, paths |-> {}]

\* Every decision kept its tier's tools, and a call is answered only under a capsule.
TypeOK ==
    /\ stage \in {"new", "denied", "pending", "rejected", "issued"}
    /\ capsule.tier \in Tiers
    /\ capsule.tools \subseteq TierTools(capsule.tier)
    /\ MaxFiles[capsule.tier] # -1 => Cardinality(capsule.paths) <= MaxFiles[capsule.tier]
    /\ human \in BOOLEAN
    /\ call.verdict \in {"none", "blocked", "failed", "acted"}
    /\ call # NoCall => stage = "issued"

Init ==
    /\ stage = "new"
    /\ capsule = Undecided
    /\ human = FALSE
    /\ call = NoCall

WithinOneMore(tier, paths) == MaxFiles[tier] = -1 \/ Cardinality(paths) <= MaxFiles[tier] + 1
WithinLimit(tier, paths) == MaxFiles[tier] = -1 \/ Cardinality(paths) <= MaxFiles[tier]

\* evaluate, and what the webhook does with the decision.
Evaluate(tier, requestedTools, targetPaths, sessionAsks) ==
    LET tools == requestedTools \intersect TierTools(tier)
        allowed == {p \in targetPaths : ~PathMatchesDenied(p, DeniedPatterns(tier))}
        paths == {p \in allowed : ValidTargetPath(p)}
        denied == \/ tools = {}
                  \/ allowed # {} /\ paths = {}
                  \/ ~WithinLimit(tier, paths)
    IN  /\ stage = "new"
        /\ IF denied
           THEN stage' = "denied" /\ UNCHANGED capsule
           ELSE /\ stage' = IF RequiresHumanApproval(tier, tools, paths, sessionAsks)
                            THEN "pending" ELSE "issued"
                /\ capsule' = [tier |-> tier, tools |-> tools, paths |-> paths]
        /\ UNCHANGED <<human, call>>

Approve ==
    /\ stage = "pending"
    /\ stage' = "issued" /\ human' = TRUE
    /\ UNCHANGED <<capsule, call>>

Reject ==
    /\ stage = "pending"
    /\ stage' = "rejected"
    /\ UNCHANGED <<capsule, human, call>>

\* A web address, which is spelled with "/".
IsUrl(raw) == Len(raw) > 2 /\ raw[1] \in {"http:", "https:"} /\ raw[2] = ""

\* What extract_paths hands to the scope check: not an empty text and no web address, any
\* other text with a separator, and a single segment unless it is obviously something else.
LooksLikePath(raw) ==
    /\ raw \notin {<<>>, <<"">>}
    /\ ~IsUrl(raw)
    /\ \/ Len(raw) > 1
       \/ raw[1] \in FileNames
       \/ raw[1] \notin NotPaths

\* The checks of the proxy, which looks at every text in the arguments.
Admits(c) ==
    /\ c.tool \in capsule.tools
    /\ \A arg \in {c.path, c.text} :
           LooksLikePath(arg) => PathAllowed(Canonical(arg), capsule.paths)

\* The tools that touch files, and whether a tool gets as far as acting; NetRequest
\* looks inside net_request.
FileTools == {"read_file", "write_file"}
Unsupported == {"run_tests", "execute_cmd"}
ToolActs(c) ==
    /\ c.tool \notin Unsupported
    /\ c.tool \in FileTools => Resolves(c.path, capsule.paths)

ToolCall(c) ==
    /\ stage = "issued" /\ call = NoCall
    /\ call' = [tool |-> c.tool, path |-> c.path, text |-> c.text,
                verdict |-> IF ~Admits(c) THEN "blocked"
                            ELSE IF ToolActs(c) THEN "acted" ELSE "failed"]
    /\ UNCHANGED <<stage, capsule, human>>

\* The agent has its answer and may call again.
Answered ==
    /\ call # NoCall
    /\ call' = NoCall
    /\ UNCHANGED <<stage, capsule, human>>

Next ==
    \/ \E tier \in Tiers, tools \in ToolSets, paths \in TargetSets, asks \in BOOLEAN :
           Evaluate(tier, tools, paths, asks)
    \/ Approve
    \/ Reject
    \/ \E c \in Calls : ToolCall(c)
    \/ Answered

Spec == Init /\ [][Next]_vars

-----------------------------------------------------------------------------
\* What a pattern covers, said without recursion: the segments of the place can
\* be cut into consecutive pieces, one for each segment of the pattern.
Takes(seg, place, i, j) ==
    IF seg \in {"", "."} THEN j = i
    ELSE IF seg = "**" THEN i <= j
    ELSE j = i + 1 /\ Fnmatch(place[j], seg)

Covers(pattern, place) ==
    \E cut \in [0..Len(pattern) -> 0..Len(place)] :
        /\ cut[0] = 0 /\ cut[Len(pattern)] = Len(place)
        /\ \A j \in 1..Len(pattern) : Takes(pattern[j], place, cut[j - 1], cut[j])

InScope(place) == \E p \in capsule.paths : Covers(p, place)

NoLinks == [p \in {} |-> p]

\* A text that the proxy compares with nothing (scope_checker.py:36-66): none, a web
\* address, or a single segment that is no file name but a literal, a number, JSON,
\* several lines or 256 characters.
PassedOver(raw) ==
    \/ raw \in {<<>>, <<"">>}
    \/ IsUrl(raw)
    \/ Len(raw) = 1 /\ raw[1] \in NotPaths \ FileNames

\* The proxy lets a call through exactly if its tool is granted and every text in its
\* arguments is passed over or spells, ".." and "." worked out, a place inside the
\* workspace that a granted pattern covers: canonicalize_path and the segment matcher
\* agree with that.  A file named like a number is thus left to the tool's own check.
AdmittedIsGranted ==
    LET granted(place) == ~IsOutside(place) /\ InScope(place) IN
    call # NoCall =>
        (call.verdict # "blocked" <=>
            /\ call.tool \in capsule.tools
            /\ \A arg \in {call.path, call.text} :
                   PassedOver(arg) \/ granted(Walk(arg, NoLinks)))

\* The file a tool touches is in the workspace and covered by the capsule, whatever
\* links and ".." segments the path goes through, and also where the proxy passed the
\* path over: its check of the spelling is not enough without the tool's of the place.
ActsInsideScope ==
    call.verdict = "acted" /\ call.tool \in FileTools =>
        ~IsOutside(Candidate(call.path)) /\ InScope(Candidate(call.path))

\* A path that is no pattern to fnmatch.
IsLiteral(path) == \A i \in DOMAIN path : path[i] \notin Globs \union Brackets

\* The network is used only for a maintainer and after a human's approval, and so is a secret
\* file that a literal path of the capsule covers (policy.py:198-209, 310-319).  A secret is
\* touched otherwise only through patterns, of which nothing is stated: globs go by a
\* heuristic, and a path with "[" is a plain name to the policy (policy.py:175, 202) that
\* fnmatch reads as a pattern when calls are compared with it (path_utils.py:104).
SensitiveOnlyByHuman ==
    /\ call.verdict = "acted"
    /\ \/ call.tool = "net_request"
       \/ LET place == Candidate(call.path) IN
          /\ call.tool \in FileTools
          /\ \E p \in capsule.paths : IsLiteral(p) /\ Covers(p, place)
          /\ \E s \in SensitivePatterns : Covers(s, place)
    => capsule.tier = "maintainer" /\ human

\* The engine stays within the policy it mirrors (policy.py:2-5): a capsule holds no tool
\* and no path without a wildcard that the policy does not grant, and it is issued without a
\* human only where the policy, too, asks for none.  Both take "[" for a plain character;
\* globs are left to the heuristic.
WithinCanonicalPolicy ==
    LET concrete == {p \in capsule.paths : ~IsGlob(p)} IN
    stage = "issued" =>
        /\ capsule.tools \subseteq RegoTools(capsule.tier)
        /\ concrete \subseteq RegoFinal(capsule.tier, concrete)
        /\ RegoAsksHuman(capsule.tier, capsule.tools, capsule.paths) => human
=============================================================================
