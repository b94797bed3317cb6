------------------------------ MODULE SyncServer ------------------------------
(***************************************************************************)
(* mcp_stdio_sync.py, the second stdio server: one process, one thread, no *)
(* cache.  Every tools/call loads the capsule of its thread from the       *)
(* SQLite file anew, checks it, reads the file, writes an audit row and    *)
(* answers, in this order.  Meanwhile the API stores new capsules, the     *)
(* clock passes the expiry of old ones, a database call fails, or the      *)
(* host stops the server and starts another.                               *)
(*                                                                         *)
(* A path is the sequence of its segments.  The methods other than         *)
(* tools/call change nothing and are left out; this server compares paths  *)
(* by prefix and does not check signatures, and so does the model.         *)
(***************************************************************************)
EXTENDS Naturals, FiniteSets, Sequences, SequencesExt

CONSTANTS Capsules,      \* approved rows of the thread: [tools, paths, expiry]
          Asked,         \* what the agent may call: [tool, path]
          OutsidePaths,  \* paths that lead out of the workspace root
          MaxClock,      \* the clock stops there
          MaxLines       \* tools/call lines the agent sends

ASSUME SyncServerAssumption ==
    /\ \A c \in Capsules : c.expiry \in Nat
    /\ MaxClock \in Nat /\ MaxLines \in Nat

VARIABLES row,        \* the approved rows: capsule |-> resolved_at
          clock,
          line,       \* the line the server is at, or has answered last
          recorded    \* the audit rows it has written

syncVars == <<row, clock, line, recorded>>

NoCapsule == [tools |-> {}, paths |-> {}, expiry |-> 0]
NoCall == [tool |-> "none", path |-> <<>>]
Verdicts == {"none", "allowed", "blocked", "not implemented"}

SyncSteps == {"idle", "load", "check", "read", "record", "send"}

SyncTypeOK ==
    /\ DOMAIN row \subseteq Capsules
    /\ row \in [DOMAIN row -> 0..clock]
    /\ clock \in 0..MaxClock
    /\ line \in [number : 0..MaxLines, step : SyncSteps, call : Asked \union {NoCall},
                 capsule : Capsules \union {NoCapsule}, verdict : Verdicts,
                 since : SUBSET DOMAIN row, at : 0..clock, unrecorded : BOOLEAN]
    /\ recorded \subseteq [number : 1..line.number, verdict : {"allowed", "blocked"}]

SyncInit ==
    /\ row = [c \in {} |-> 0]
    /\ clock = 0
    /\ line = [number |-> 0, step |-> "idle", call |-> NoCall, capsule |-> NoCapsule,
               verdict |-> "none", since |-> {}, at |-> 0, unrecorded |-> FALSE]
    /\ recorded = {}

-----------------------------------------------------------------------------
\* ORDER BY resolved_at DESC: the rows that may come first.
Newest == {c \in DOMAIN row : \A d \in DOMAIN row : row[d] <= row[c]}

\* _is_expired
IsExpired(capsule) == clock > capsule.expiry

\* A tools/call line is read.
ReadLine(call) ==
    /\ line.step = "idle" /\ line.number < MaxLines
    /\ line' = [line EXCEPT !.number = @ + 1, !.step = "load", !.call = call,
                            !.verdict = "none", !.since = Newest, !.at = clock,
                            !.unrecorded = FALSE]
    /\ UNCHANGED <<row, clock, recorded>>

\* _load_capsule: no row, an expired one and any error all come to no capsule.
Loaded(capsule) ==
    IF capsule = NoCapsule \/ IsExpired(capsule)
    THEN line' = [line EXCEPT !.step = "record", !.capsule = NoCapsule, !.verdict = "blocked"]
    ELSE line' = [line EXCEPT !.step = "check", !.capsule = capsule]
LoadOnce ==
    /\ line.step = "load"
    /\ \/ Loaded(NoCapsule)
       \/ line.capsule = NoCapsule /\ \E c \in Newest : Loaded(c)
       \/ line.capsule # NoCapsule /\ Loaded(line.capsule)
    /\ UNCHANGED <<row, clock, recorded>>
LoadCapsule ==
    /\ line.step = "load"
    /\ \/ Loaded(NoCapsule)
       \/ \E c \in Newest : Loaded(c)
    /\ UNCHANGED <<row, clock, recorded>>

\* The tool must be allowed, and read_file is the only one there is.
CheckAndRecord ==
    /\ line.step = "check"
    /\ line' = IF line.call.tool \notin line.capsule.tools
               THEN [line EXCEPT !.step = "record", !.verdict = "blocked"]
               ELSE IF line.call.tool = "read_file" THEN [line EXCEPT !.step = "read"]
               ELSE [line EXCEPT !.step = "record", !.verdict = "not implemented"]
    /\ UNCHANGED <<row, clock, recorded>>
CheckTool ==
    /\ line.step = "check"
    /\ line' = IF line.call.tool \notin line.capsule.tools
               THEN [line EXCEPT !.step = "record", !.verdict = "blocked"]
               ELSE IF line.call.tool = "read_file" THEN [line EXCEPT !.step = "read"]
               ELSE [line EXCEPT !.step = "send", !.verdict = "not implemented"]
    /\ UNCHANGED <<row, clock, recorded>>

\* lstrip of the slashes, and the comparison of _read_file: the target or below it.
Stripped(path) == SelectSeq(path, LAMBDA seg : seg # "")
Below(path, capsule) ==
    \E target \in capsule.paths : IsPrefix(Stripped(target), Stripped(path))

\* _read_file: a path that is not covered or leads outside, and any error of the
\* file system, count as blocked.
ReadFile ==
    /\ line.step = "read"
    /\ \/ /\ Below(line.call.path, line.capsule) /\ line.call.path \notin OutsidePaths
          /\ line' = [line EXCEPT !.step = "record", !.verdict = "allowed"]
       \/ line' = [line EXCEPT !.step = "record", !.verdict = "blocked"]
    /\ UNCHANGED <<row, clock, recorded>>

\* _log_audit: an error is written to stderr and forgotten.
Record(event) ==
    /\ recorded' = recorded \union {[number |-> line.number, verdict |-> event]}
    /\ line' = [line EXCEPT !.step = "send"]
LogBlockedOnly ==
    /\ line.step = "record"
    /\ \/ Record("blocked")
       \/ line' = [line EXCEPT !.step = "send", !.unrecorded = TRUE] /\ UNCHANGED recorded
    /\ UNCHANGED <<row, clock>>
LogAudit ==
    /\ line.step = "record"
    /\ \/ Record(line.verdict)
       \/ line' = [line EXCEPT !.step = "send", !.unrecorded = TRUE] /\ UNCHANGED recorded
    /\ UNCHANGED <<row, clock>>

Send ==
    /\ line.step = "send"
    /\ line' = [line EXCEPT !.step = "idle"]
    /\ UNCHANGED <<row, clock, recorded>>

\* The server stops, in whatever it does, and another takes over.
Stop ==
    /\ line.step # "idle"
    /\ line' = [line EXCEPT !.step = "idle", !.capsule = NoCapsule, !.verdict = "none"]
    /\ UNCHANGED <<row, clock, recorded>>

\* The API stores an approved capsule; its resolved_at is the present second.
Approved(c) ==
    /\ c \notin DOMAIN row /\ clock < c.expiry
    /\ row' = [d \in DOMAIN row \union {c} |-> IF d = c THEN clock ELSE row[d]]
    /\ UNCHANGED <<clock, line, recorded>>

ClockTick ==
    /\ clock < MaxClock
    /\ clock' = clock + 1
    /\ UNCHANGED <<row, line, recorded>>

SyncNext ==
    \/ \E call \in Asked : ReadLine(call)
    \/ LoadCapsule
    \/ CheckTool
    \/ ReadFile
    \/ LogAudit
    \/ Send
    \/ Stop
    \/ \E c \in Capsules : Approved(c)
    \/ ClockTick

SyncSpec == SyncInit /\ [][SyncNext]_syncVars

-----------------------------------------------------------------------------
\* A capsule that was replaced, or had expired, before a line was read serves it no
\* more: text goes out only under the newest row of that moment or a later one, and
\* only for a tool and a path that row allows.
ServedByNewest ==
    line.verdict = "allowed" =>
        /\ line.capsule \in DOMAIN row
        /\ \A c \in line.since : row[c] <= row[line.capsule]
        /\ line.at <= line.capsule.expiry
        /\ line.call.tool \in line.capsule.tools
        /\ Below(line.call.path, line.capsule)

\* Answers and audit rows tell the same story: a call that is answered as allowed or
\* blocked has its row by then, unless that write failed, and the row says the same.
AnswersAgreeWithAudit ==
    line.step = "idle" /\ line.verdict \in {"allowed", "blocked"} =>
        \/ line.unrecorded
        \/ {e.verdict : e \in {f \in recorded : f.number = line.number}} = {line.verdict}
=============================================================================
