----------------------------- MODULE Enforcement -----------------------------
(***************************************************************************)
(* Enforcement at the tool boundary: the MCP servers that bind the newest  *)
(* capsule of a thread, check each tools/call against it, record the call  *)
(* in the audit log and run the governed tool.                             *)
(*                                                                         *)
(* There are two kinds of server.  The API server answers POST /mcp: its   *)
(* calls interleave, and its PendingCapsuleStore is the one that records   *)
(* new capsules, so its lock orders both.  A stdio server is a process of  *)
(* its own for one thread, which serves one request at a time; capsules    *)
(* are recorded by the other process whatever it is doing.                 *)
(*                                                                         *)
(* A handler is suspended only while the store reads and while the audit   *)
(* log writes: between them, binding, checks and the tool itself run       *)
(* without interruption.  What a call asks for is abstracted to whether a  *)
(* capsule grants it: its tool is allowed and every path is in scope.      *)
(***************************************************************************)
EXTENDS Naturals, Sequences, SequencesExt

CONSTANTS Capsules,      \* capsules that may be issued
          Calls,         \* requests of agents, each made once
          Threads,       \* issues and pull requests
          None,          \* no capsule; no call
          ThreadOf,      \* the thread a capsule is for, or a call names
          ServerOf,      \* the server each call is made to
          Lists,         \* the calls that are tools/list; the others are tools/call
          Grants,        \* the calls each capsule grants
          Unverifiable,  \* capsules whose signature this installation rejects
          Life,          \* capsule_expiry_hours, in ticks
          MaxCrashes     \* bound on crashes of a server

Servers == {"api", "stdio"}

ASSUME EnforcementAssumption ==
    /\ None \notin Capsules \union Calls
    /\ ThreadOf \in [Capsules \union Calls -> Threads]
    /\ ServerOf \in [Calls -> Servers]
    /\ \A q, r \in Calls :
           ServerOf[q] = "stdio" /\ ServerOf[r] = "stdio" => ThreadOf[q] = ThreadOf[r]
    /\ Lists \subseteq Calls
    /\ Grants \in [Capsules -> SUBSET Calls]
    /\ Unverifiable \subseteq Capsules
    /\ Life \in Nat /\ MaxCrashes \in Nat

VARIABLES issued,   \* rows of pending_capsules of each thread, by resolved_at
          age,      \* ticks since each capsule was signed
          bound,    \* MCPEnforcementProxy._capsules of each server
          guard,    \* the call that holds the lock of each server's store
          at,       \* where the handler of each call is
          loaded,   \* what the loader read for it
          using,    \* the capsule it was checked against
          effect,   \* what tools have done to the workspace, as <<call, capsule>>
          audit,    \* audit_events, as <<call, capsule, kind of record>>
          crashes   \* crashes so far

vars == <<issued, age, bound, guard, at, loaded, using, effect, audit, crashes>>

Places == {"new", "loaded", "log blocked", "log attempt", "run", "log allowed", "log rejected",
           "log exception", "end"}
Records == {"attempt", "allowed", "blocked", "rejected", "exception"}

RowsTypeOK ==
    /\ issued \in [Threads -> Seq(Capsules)]
    /\ age \in [Capsules -> 0..Life]
    /\ bound \in [Servers -> [Threads -> Capsules \union {None}]]
    /\ crashes \in 0..MaxCrashes

\* A call has a capsule to answer for exactly from its check to its answer.
CallsTypeOK ==
    /\ at \in [Calls -> Places]
    /\ loaded \in [Calls -> Capsules \union {None}]
    /\ using \in [Calls -> Capsules \union {None}]
    /\ \A q \in Calls : at[q] \in {"new", "loaded", "end"} <=> using[q] = None

\* A store's lock is held only by a call that is reading.
LockTypeOK ==
    /\ guard \in [Servers -> Calls \union {None}]
    /\ \A s \in Servers : guard[s] # None => at[guard[s]] = "loaded" /\ ServerOf[guard[s]] = s

LogTypeOK ==
    /\ effect \subseteq Calls \X Capsules
    /\ audit \subseteq Calls \X Capsules \X Records

TypeOK == RowsTypeOK /\ CallsTypeOK /\ LockTypeOK /\ LogTypeOK

Init ==
    /\ issued = [t \in Threads |-> <<>>]
    /\ age = [c \in Capsules |-> 0]
    /\ bound = [s \in Servers |-> [t \in Threads |-> None]]
    /\ guard = [s \in Servers |-> None]
    /\ at = [q \in Calls |-> "new"]
    /\ loaded = [q \in Calls |-> None]
    /\ using = [q \in Calls |-> None]
    /\ effect = {} /\ audit = {}
    /\ crashes = 0

-----------------------------------------------------------------------------
\* Capsules.

IssuedAlready(c) == Contains(issued[ThreadOf[c]], c)

\* latest_approved_for_thread: ... ORDER BY resolved_at DESC, created_at DESC LIMIT 1
Latest(t) == IF issued[t] = <<>> THEN None ELSE Last(issued[t])

\* SignedCapsule.is_expired: expiry <= now
ExpiredTooLate(c) == age[c] > Life
Expired(c) == age[c] >= Life

\* register_capsule raises on a capsule that is expired or does not verify.
RegistersUnverified(c) == ~Expired(c)
Registers(c) == ~Expired(c) /\ c \notin Unverifiable

\* _refresh_active_capsule, once the loader has returned: a capsule that does
\* not register leaves the old binding in place, and so does none at all.
Refreshed(old, new) == IF new # None /\ Registers(new) THEN new ELSE old

\* The lock of the store: taken for the SELECT of a refresh and released when it
\* has returned; recording a capsule takes it too.
Unlocked(s) == TRUE
LockFree(s) == guard[s] = None

KeptByReader(q) == guard
ReleasedBy(q) == [guard EXCEPT ![ServerOf[q]] = IF @ = q THEN None ELSE @]

\* record_issued, record_issued_and_resolve: the API server's store commits.
RecordIssued(c) ==
    /\ ~IssuedAlready(c)
    /\ LockFree("api")
    /\ issued' = [issued EXCEPT ![ThreadOf[c]] = Append(@, c)]
    /\ age' = [age EXCEPT ![c] = 0]
    /\ UNCHANGED <<bound, guard, at, loaded, using, effect, audit, crashes>>

-----------------------------------------------------------------------------
\* One call.

Idle(s) == \A q \in Calls : ServerOf[q] = s => at[q] \in {"new", "end"}

Goes(q, place) == at' = [at EXCEPT ![q] = place]

\* The agent gets its answer, or an error of the server.
Ends(q) ==
    /\ Goes(q, "end")
    /\ using' = [using EXCEPT ![q] = None]

\* dispatch: the SELECT of the loader.  It may raise ("database is locked"):
\* the call goes on with the capsule bound before, as if none were found.
Load(q) ==
    LET s == ServerOf[q] IN
    /\ at[q] = "new"
    /\ s = "stdio" => Idle(s)
    /\ LockFree(s)
    /\ guard' = [guard EXCEPT ![s] = q]
    /\ Goes(q, "loaded")
    /\ \E c \in {Latest(ThreadOf[q]), None} : loaded' = [loaded EXCEPT ![q] = c]
    /\ UNCHANGED <<issued, age, bound, using, effect, audit, crashes>>

Rebind(q) ==
    LET s == ServerOf[q]
        t == ThreadOf[q]
    IN  /\ at[q] = "loaded"
        /\ guard' = ReleasedBy(q)
        /\ bound' = [bound EXCEPT ![s][t] = Refreshed(@, loaded[q])]
        /\ loaded' = [loaded EXCEPT ![q] = None]

\* tools/list: the tools of the capsule, or the full catalogue without one.
ListTools(q) ==
    /\ q \in Lists
    /\ Rebind(q)
    /\ Ends(q)
    /\ UNCHANGED <<issued, age, effect, audit, crashes>>

\* handle_tool_call, up to its first await: no capsule is a transport error.
CheckNoCapsule(q) ==
    /\ q \notin Lists
    /\ Rebind(q)
    /\ bound'[ServerOf[q]][ThreadOf[q]] = None
    /\ Ends(q)
    /\ UNCHANGED <<issued, age, effect, audit, crashes>>

CheckCall(q) ==
    LET c == Refreshed(bound[ServerOf[q]][ThreadOf[q]], loaded[q]) IN
    /\ q \notin Lists
    /\ c # None
    /\ Rebind(q)
    /\ using' = [using EXCEPT ![q] = c]
    /\ Goes(q, IF Expired(c) \/ q \notin Grants[c] THEN "log blocked" ELSE "log attempt")
    /\ UNCHANGED <<issued, age, effect, audit, crashes>>

LoggedAsBound(q, record) ==
    audit' = audit \union {<<q, bound[ServerOf[q]][ThreadOf[q]], record>>}
Logged(q, record) == audit' = audit \union {<<q, using[q], record>>}

CallUnchanged == UNCHANGED <<issued, age, bound, guard, loaded, crashes>>

LogBlocked(q) ==
    /\ at[q] = "log blocked"
    /\ Logged(q, "blocked")
    /\ Ends(q)
    /\ UNCHANGED effect
    /\ CallUnchanged

LogAttempt(q) ==
    /\ at[q] = "log attempt"
    /\ Logged(q, "attempt")
    /\ Goes(q, "run")
    /\ UNCHANGED <<using, effect>>
    /\ CallUnchanged

\* The tool runs.  It may do its work, or part of it, and still fail: with
\* {"ok": False} for what it catches, or with an exception.
Run(q) ==
    LET done == effect \union {<<q, using[q]>>} IN
    /\ at[q] = "run"
    /\ \/ effect' = done /\ Goes(q, "log allowed")
       \/ effect' \in {effect, done} /\ Goes(q, "log rejected")
       \/ effect' \in {effect, done} /\ Goes(q, "log exception")
    /\ UNCHANGED <<using, audit>>
    /\ CallUnchanged

LogResult(q) ==
    /\ \/ at[q] = "log allowed" /\ Logged(q, "allowed")
       \/ at[q] = "log rejected" /\ Logged(q, "rejected")
       \/ at[q] = "log exception" /\ Logged(q, "exception")
    /\ Ends(q)
    /\ UNCHANGED effect
    /\ CallUnchanged

\* The audit log raises.  After the tool has run that is an exception of the
\* call, to be logged as one; anywhere else it ends the request.
AfterFailedLogAnyway(q) == IF at[q] = "log attempt" THEN "run" ELSE "end"
AfterFailedLog(q) == IF at[q] \in {"log allowed", "log rejected"} THEN "log exception" ELSE "end"

LogFails(q) ==
    /\ at[q] \in {"log blocked", "log attempt", "log allowed", "log rejected", "log exception"}
    /\ IF AfterFailedLog(q) = "end" THEN Ends(q)
                                    ELSE Goes(q, AfterFailedLog(q)) /\ UNCHANGED using
    /\ UNCHANGED <<effect, audit>>
    /\ CallUnchanged

-----------------------------------------------------------------------------
\* Servers and time.

\* A server dies.  What it had logged and what its tools did stays.
Crash(s) ==
    /\ crashes < MaxCrashes
    /\ crashes' = crashes + 1
    /\ bound' = [bound EXCEPT ![s] = [t \in Threads |-> None]]
    /\ guard' = [guard EXCEPT ![s] = None]
    /\ at' = [q \in Calls |-> IF ServerOf[q] = s /\ at[q] # "new" THEN "end" ELSE at[q]]
    /\ loaded' = [q \in Calls |-> IF ServerOf[q] = s THEN None ELSE loaded[q]]
    /\ using' = [q \in Calls |-> IF ServerOf[q] = s THEN None ELSE using[q]]
    /\ UNCHANGED <<issued, age, effect, audit>>

\* _serve_stdio binds the newest capsule of its thread before it serves.
StartStdio(t) ==
    /\ Idle("stdio")
    /\ \E q \in Calls : ServerOf[q] = "stdio" /\ ThreadOf[q] = t
    /\ bound["stdio"] = [u \in Threads |-> None]
    /\ bound' = [bound EXCEPT !["stdio"][t] = Refreshed(None, Latest(t))]
    /\ UNCHANGED <<issued, age, guard, at, loaded, using, effect, audit, crashes>>

Tick ==
    /\ age' = [c \in Capsules |-> IF IssuedAlready(c) /\ age[c] < Life THEN age[c] + 1 ELSE age[c]]
    /\ UNCHANGED <<issued, bound, guard, at, loaded, using, effect, audit, crashes>>

CallStep(q) ==
    \/ Load(q)
    \/ ListTools(q)
    \/ CheckNoCapsule(q)
    \/ CheckCall(q)
    \/ LogBlocked(q)
    \/ LogAttempt(q)
    \/ Run(q)
    \/ LogResult(q)
    \/ LogFails(q)

Next ==
    \/ \E q \in Calls : CallStep(q)
    \/ \E c \in Capsules : RecordIssued(c)
    \/ \E s \in Servers : Crash(s)
    \/ \E t \in Threads : StartStdio(t)
    \/ Tick

Spec == Init /\ [][Next]_vars

-----------------------------------------------------------------------------
\* Nothing happens to the workspace without a record of the attempt under the
\* capsule that allowed it, whatever crashes or fails to log in between.
EffectIsLogged == \A e \in effect : <<e[1], e[2], "attempt">> \in audit

\* A tool acts only for a capsule of the call's own thread that verified and
\* grants the call, though other threads and newer capsules are bound meanwhile.
\* docs/known-limitations.md:78-79 and src/README.md:179 still say the binding is "latest
\* active globally"; the code binds by thread (mcp_server.py:326, 357).
EffectIsGranted ==
    \A e \in effect :
        /\ ThreadOf[e[2]] = ThreadOf[e[1]]
        /\ e[2] \notin Unverifiable
        /\ e[1] \in Grants[e[2]]

\* The records of a call agree with one another and with what happened: one
\* capsule decides it, it is not both blocked and attempted, and it is recorded
\* as allowed only when its tool acted.
RecordsAgree ==
    /\ \A r, x \in audit : r[1] = x[1] =>
           r[2] = x[2] /\ (r[3] = "blocked" => x[3] = "blocked")
    /\ \A r \in audit : r[3] = "allowed" => <<r[1], r[2]>> \in effect

\* Two servers, their locks, reloads, failing writes and crashes, and still: the
\* trail of a call in the audit log is that of a reference monitor which records
\* the attempt, lets the tool act once, and then records how it went.
OfItsThread == {qc \in Calls \X Capsules : ThreadOf[qc[1]] = ThreadOf[qc[2]]}
Granted == {qc \in OfItsThread : qc[2] \notin Unverifiable /\ qc[1] \in Grants[qc[2]]}

Monitor == INSTANCE ReferenceMonitor WITH
               Calls <- Calls \ Lists, ForThread <- OfItsThread, Covers <- Granted

ImplementsMonitor == Monitor!MonitorSpec

\* Hot reload only moves forward: concurrent refreshes of one thread never put
\* an older capsule back in place of a newer one.
Newer(t, c, d) == \E i, j \in DOMAIN issued[t] : i > j /\ issued[t][i] = c /\ issued[t][j] = d

BindingNeverRegresses ==
    [][\A s \in Servers, t \in Threads : ~Newer(t, bound[s][t], bound'[s][t])]_vars

\* A call is let through on the newest capsule its server could have bound: not
\* on one that has expired, and, at the API server, not on an older one while
\* the newest recorded is good, unless the store could not be read.
AdmittedByNewest ==
    [][\A q \in Calls : at[q] = "loaded" /\ at'[q] = "log attempt" =>
          LET newest == Latest(ThreadOf[q]) IN
          /\ age[using'[q]] < Life
          /\ ServerOf[q] = "api" /\ loaded[q] # None /\ Registers(newest) => using'[q] = newest]_vars
=============================================================================
