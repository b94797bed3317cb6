# Signed task capsules: TLA+ models and proofs

This directory specifies and verifies the parts of the system in which requests,
background tasks, processes and crashes meet: approval by a human, session
escalation, the shared SQLite file, the delivery and signing of requests, and
enforcement at the tool boundary, with the path rules both ends apply and the walk of the
file tools. Specifications are translated from `src/app/**`; each
definition's source lines are in the `map` of `PROJECT.json`.

To check everything, run in this directory, for each run of `PROJECT.json` and for each of
the eight `*_proofs` modules,

    tlc -workers 2 -config <cfg> <module>.tla
    tlapm <module>_proofs.tla

## The system

A GitHub comment reaches `/webhook` (FastAPI, one asyncio process). The text is
compiled by a language model into a requested scope, the policy engine cuts the scope
down to the author's trust tier, and the result is refused, signed at once as a
*capsule*, or parked until a maintainer calls `/approve` or `/reject`. MCP servers (the
API process itself, or a stdio process started by an editor) bind the newest capsule
of a thread and let an agent call tools only within it.

| component | state | operations | how it meets the others |
| --- | --- | --- | --- |
| Approval workflow: `pending_store.py`, `ingestion/approval.py`, `main.py` | tables `pending_approvals`, `pending_capsules`; one connection, one `asyncio.Lock` | add_pending, try_claim_pending, record_issued_and_resolve, resolve_approval, retention sweep, init_db | handlers hold no lock between their awaits; the sweep is a task; an MCP process calls init_db on the same file |
| Session tracker: `governance/session.py` | `_sessions`, unique tools, dirty threads, delivery ids; tables `session_history`, `session_tools` | get_or_create, record_capsule, persist, reset_session, load, is_duplicate_delivery | the webhook reads it before the policy and writes it after; `/approve` writes it; all under one lock |
| Shared SQLite file: `sqlite_utils.py` and the three owners of connections | five connections in two processes, WAL, busy timeout | every query and every commit | write lock, snapshots, implicit transactions |
| MCP enforcement: `enforcement/proxy.py`, `enforcement/mcp_server.py` | the capsule bound to each thread | initialize, tools/list, tools/call, hot reload | reads `pending_capsules`, writes the audit log around each tool |
| Policy engine and path matching: `governance/policy.py`, `enforcement/path_utils.py`, `enforcement/scope_checker.py` | none | evaluate, canonicalize_path, match_pattern, path_allowed | the policy decides target paths, the proxy and the tool compare with them |
| Governed tools: `enforcement/tool_provider.py` | the workspace | read_file, write_file, net_request | called by the proxy, resolve paths again |
| Audit log: `audit/logger.py`, `audit/viewer.py` | table `audit_events` | log, queries | written by everyone; no lock of its own |
| Webhook ingestion: `ingestion/webhook.py`, `hmac_verify.py` | delivery ids and their times | signature check, deduplication, the pipeline | drives all of the above |
| Signing: `governance/signer.py`, `verifier.py` | two key files | sign, verify | called by the webhook, `/approve` and the proxy |
| Sync stdio server: `enforcement/mcp_stdio_sync.py` | none beyond the line it is at | tools/list, tools/call | its own connection to the SQLite file for each read and each record |
| Compiler, GitHub client, trust tier, configuration, models, demos | token cache at most | | stateless calls around the core |

What is hard here: every `await` of a handler lets other handlers and the sweep in;
a decision is committed first and logged several awaits later; a crash may fall between
any two commits; an MCP process opens the same file at any moment; a write that
times out leaves its connection inside a transaction; and the same path is
spelled, matched and finally resolved by three parts of the code.
`PROJECT.json` lists each such hazard at its line, with the properties that cover it.

What makes each part correct: a request is decided once and has a capsule exactly if
approved (workflow); no capsule the gate should count is lost to it (tracker); a call's
writes are atomic and nobody waits for good (database); no effect without a record and
without a capsule that grants it (enforcement); what is admitted is what was granted
(paths); a walk never leaves the workspace (tools); a delivery is let in once in the
lifetime of its mark, and what is stored can be verified (ingestion and signing).

## Modules

| module | models | against |
| --- | --- | --- |
| `ApprovalLifecycle` | the promise: each request decided once, its capsule issued in the deciding step, forgotten only afterwards | abstract specification |
| `ApprovalFlow` | the tables, handlers, sweep, crash, restart, MCP start | implements `ApprovalLifecycle` |
| `SessionGate` | tracker, its lock and queue, webhook and approve handlers around it | |
| `AtomicCalls` | the promise: a call on the file is one step, calls follow their script, an answer is never ahead of what is durable | abstract specification |
| `SharedDatabase` | connections, transactions, the write lock and the asyncio locks, one statement at a time | implements `AtomicCalls` |
| `ReferenceMonitor` | the promise: a call leaves the trail of a refused, a failed or a completed one, and acts only under a capsule of its thread that covers it | abstract specification |
| `Enforcement` | binding, hot reload, checks, audit records, tools, of both servers | implements `ReferenceMonitor` |
| `PathScope` | policy evaluation, canonicalisation, matching, the tool's resolution of links | the path the file system walks (`Walk`), a matcher without recursion (`Covers`) and `capsule.rego` |
| `GovernedTools` | the file tools, a system call at a time, beside another server and other programs | |
| `Ingestion` | `/webhook` with redelivery, signing and the key files, restarts | |
| `SyncServer` | the sync stdio server beside new and expiring capsules | |
| `NetRequest` | `net_request` up to its attempt to connect | |
| `MC*` | constants and symmetries for TLC | |
| `ApprovalFlow_proofs`, `SessionGate_proofs`, `SharedDatabase_proofs`, `Enforcement_proofs`, `PathScope_proofs`, `GovernedTools_proofs`, `Ingestion_proofs`, `SyncServer_proofs` | theorems about the module of that name | TLAPS |

`ApprovalFlow` treats a store operation as one step; `SharedDatabase` looks inside that
step, and that it implements `AtomicCalls` is what allows it. `Enforcement` takes as a constant
which calls a capsule grants; `PathScope` works that out.

### ApprovalFlow

A handler is the place of the await it is suspended at (`at`) and the row it is about
(`target`). One action is the code between two awaits: `ApproveClaim` is
`try_claim_pending`, `ApproveRecord` is `record_issued_and_resolve`, and so on;
`HandlerError` is an exception of any awaited call. The sweep keeps the list it read
(`sweep.todo`), what it has expired and still has to log, and what its purge may
delete by the clock it read. `McpServerStart` is the `init_db` of `_serve_stdio`, which
turns every `processing` row back to `pending`. `Crash` drops handlers and sweep;
`Restart` is the lifespan of the new process. The status of a deleted row is
remembered as history, which is what the abstract decision is read from. Time is the
age of each row; the code only compares it with the TTL and the retention, so ages
stop at the larger.

### SessionGate

A request is in the queue of the tracker's lock, elsewhere in its handler, or waiting
for the model, for a human or for a database call. `asyncio.Lock` hands the lock over in
order, and taking it when it is free is no suspension point: that is why one
handler may run from get_or_create into persist in one step while a woken one with
others behind it goes back to the end of the queue. Capsules age by `Tick`; `disk` is
what the next `load` will read. Simplifications: delivery ids are distinct; requests are
ones the policy allows, for which only the session asks for a human; `persist` fails, if
it does, at its first write (a failure after it leaves an open transaction, which is
`SharedDatabase`'s subject).

### SharedDatabase

A task is a handler, sweep or MCP server with the script of calls it makes; a call
takes the lock of its connection if the code takes one, executes its statements and
commits. A connection is idle, reading a snapshot, or writing. `TimesOut` is the busy
timeout; nothing rolls back, because nothing in the code does. What a statement needs
is only the write lock; a disk that is full is left out.

`AtomicCalls` sees of all this the kind of each task, the calls it has on disk and the answers it
got. In `SharedDatabase` a call takes effect with the commit that makes its rows durable. The audit
logger takes no lock, so one task's commit may make the record of another durable as well: those,
and only those, take effect together.

### Enforcement

A call is loaded (the SELECT of the hot reload under the store's lock), bound and checked,
logged as an attempt, run and logged again; the audit write may fail at each
point. The API server's calls interleave; a stdio server serves one thread and one request
at a time. `effect` and `audit` are what tools and records leave behind. Rows of a thread
are ordered by `resolved_at`, with `created_at` as tie break, so the last one recorded is
the newest. A tool runs in one step, since the handler is synchronous.

`ReferenceMonitor` keeps of the system only `effect` and `audit`. A call that may act is either
refused, with at most one record, or attempted, with its record first, under a capsule of its
thread that covers it; then it acts at most once, and concludes with at most one record that
agrees with what it did.

### PathScope

A path is the sequence of its segments, so `"a//b"` has an empty one and `"/a"`
begins with one. `Canonical` is `canonicalize_path`, `MatchParts` the memoised matcher,
`Evaluate` the order of `evaluate`: tools cut to the tier, denied paths dropped, then
broad ones, then the reasons for denial, then the human gate. `Walk` is what the file system
does with the same path when some places are links. fnmatch of one segment is a
relation given as a constant, for segments with `*` or `?` (`Globs`) and with `[` (`Brackets`);
any other segment matches itself alone. Blanks around segments, drive letters and NUL are not
among the strings considered, and the list of hosts is left out.

A call has two text arguments, its path and another (the content of a write, an address), and
the proxy looks at both. `LooksLikePath` follows `_looks_like_path` branch by branch: empty
texts and web addresses are passed over, any other text with a separator is compared, and a
single segment is compared if it is a file name (`FileNames`: leading dot, known name,
extension) or else not a literal, a number, JSON, several lines or 256 characters (`NotPaths`).
`AdmittedIsGranted` says what is let through including what is passed over: a `read_file` of a
file named `404` passes the proxy under any capsule with that tool, and is stopped, if out of
scope, by the tool's own check (`ActsInsideScope`).

The policy tells globs by `*` and `?` (`IsGlob`), and compares a glob with a denied pattern by a
heuristic its docstring calls conservative; it is modelled (`GlobMeets`), and
`WithinCanonicalPolicy` speaks only of paths without `*` and `?`: on globs the
heuristic is now stricter and now looser than Rego's comparison of the text, and nothing is
claimed of them. `SensitiveOnlyByHuman` needs more, because it speaks of what a target covers
when calls are compared with it: the target must be a literal to `fnmatch` (`IsLiteral`), so
without `[` too.

Next to the engine stands what `policies/capsule.rego` says of the same request
(`RegoTools` to `RegoAsksHuman`), and `WithinCanonicalPolicy` compares the two: the engine
may be stricter, never looser. It is stricter in places: `match_pattern` lets `**/` stand for
no directory, Rego's `glob.match` wants a separator there, so a `.env` in the root is
matched by Rego only through its second rule, which puts `./` in front (line 47), and not by
`maintainer_sensitive_path` (line 139), which has no such rule; a target that is the
directory `secrets` itself is denied by Python alone.

### GovernedTools

`_resolve` checks where a path leads, and `_secure_open_fd` then opens one component after
the other relative to a descriptor. A node is an inode, `entry` what the next name of
the path is in a directory, `walk` where a server is, `held` the descriptors it has open.
`OpenDirectory`, `MakeDirectory`, `ReopenDirectory`, `OpenLeaf` and `UseLeaf` are one
system call each with what follows it; between any two of them another server walks the same
path, and other programs move nodes away, remove directories, and put links, files or
directories in their place. `LeavesOpen` says exactly which descriptors a finished call leaves
behind: none if it succeeds; one if it fails below the first directory of the path (the
`finally` closes the root only) or reads a directory (`os.fdopen` raises before it owns the
descriptor). Every link leads outside; links inside the workspace are `PathScope`'s.
A write is of a text within the limit and the disk has room.

### Ingestion

A request is at one of the awaits of `webhook`; the steps before the first await
(signature, delivery id, payload) are one action, `Receive`. `sign` has no await inside,
so while `signing` names a request nothing else in the process moves, but the process may
stop between any two of its file operations: `GenerateKey`, `SavePrivate`, `OpenPublic` and
`SavePublic` are the steps of the two `write_text`, a file being `Partial` between its opening
and its content. A restart forgets the deliveries seen and keeps the files. `life` and `at`
are history: they say which process let a request in and when. What the model makes plain,
and no text of the repository denies: a delivery whose first attempt failed is refused when it
is sent again within two hours, and a key pair whose making was cut short is never mended, which is
the exception in `IssuedIsVerifiable`.

### SyncServer

One line at a time, from `ReadLine` to `Send`: the row is loaded anew for each call, then
expiry, tool, path prefix, the read, the audit row (whose failure only marks the line
`unrecorded`) and the answer. The API stores capsules and the clock passes between any two
steps. This server compares paths by prefix and verifies no signature; so does the model. A
call of an allowed tool other than `read_file` is answered "not implemented" and not recorded.

### NetRequest

The checks of `_net_request` and the pinning of the address, up to `do_open`, whose call of
`make_conn` fails on a repeated keyword; redirects and the response are therefore never
reached and not modelled.

## Runs

| run | cfg | outcome | what it shows |
| --- | --- | --- | --- |
| `approval` | `ApprovalFlow.cfg` | passes | one decision, one capsule, truthful log, retention, and the refinement of `ApprovalLifecycle` |
| `approval_live` | `ApprovalFlowLive.cfg` | passes | every request is decided, every decided row purged |
| `approval_claim` | `ApprovalFlowClaim.cfg` | violated | an MCP start releases a claim under the signing handler |
| `approval_sweep_race` | `ApprovalFlowSweepRace.cfg` | violated | the sweep expires a claimed row |
| `session` | `SessionGate.cfg` | passes | capsules issued without a human are durable and stay counted, tool counts agree, the lock is handed on |
| `session_race` | `SessionGateRace.cfg` | violated | concurrent deliveries pass the gate unseen |
| `database` | `SharedDatabase.cfg` | passes | atomic, durable, nobody waits for good, and the refinement of `AtomicCalls` |
| `database_stale` | `SharedDatabaseStale.cfg` | violated | a connection that fails every write, with no writer in its way |
| `enforcement` | `Enforcement.cfg` | passes | effects logged and granted, reload moves forward, and the refinement of `ReferenceMonitor` |
| `path_scope` | `PathScope.cfg` | passes | matcher against its reference, tools in scope, secrets under literal targets need a human, engine within the Rego policy |
| `parts` | `Parts.cfg` | passes | walks stay inside, creation races are benign, descriptors; deliveries let in once, one verifiable key pair; the sync server serves by the newest row and records what it answers |
| `net_request` | `NetRequest.cfg` | violated | a permitted request is never served |

The modules of `parts` share no variable and no step. `MCParts` puts them in one
specification whose behaviors belong to one of them each (`part`), the other two resting in an
initial state; that is the same as a run for each of them.

Each property of a passing run has a mutant in `PROJECT.json`: a changed definition, kept
in the module just before the one it replaces, under which TLC refutes the
property. The mutants are read by no other definition.

### Bounds, and why they are enough

* `approval`: two requests and two handlers (more handlers only repeat the pair that
  races on a row; the proofs cover any number), `TTL = 1`, `Retention = 2`, and
  `MaxFaults = 1` crash or failed sweep. `approval_live`: one request, `TTL = 2`,
  `Retention = 1`, two faults, no symmetry.
* `session`: two requests of one thread and one of another, one of them with more than ten
  paths and five distinct tools between the first two; `RecentLimit` is 2 instead of 3, so
  that three requests reach it, `Window = 1` tick, one crash. The two violations use the
  code's limit of 3 with four requests.
* `database`: three tasks of any of the eight kinds, so every pair of calls on one connection
  has a third party, and one crash of either process. The stale failure needs a fourth task.
* `enforcement`: three capsules of one thread, the last unverifiable, and one of another;
  two calls of the API server and one over stdio; `Life = 1`, one crash.
* `path_scope`: calls of one to three segments over names, a link, `.`, `..` and empty
  segments, and some with a number, an extension like a number, an address or a second text;
  targets of one or two segments in all spellings, eight globs, alone or
  with a second target, and targets with a `[` set. `MaxFiles` is 1, 2 and unlimited for 5, 50 and unlimited. `**` is met
  in front, in the middle and at the end, by zero to three segments.
* `parts`: for the tools, a path of two directories and a leaf (the loop has a first and a
  later iteration, which close descriptors differently), two servers with a call each, two
  changes by other programs (remove and replace), and inodes enough for all that can be made.
  For ingestion, three requests for two deliveries, so that one is sent three times or two
  are mixed; marks of lifetime 1 on a clock of 0 to 2, so that a mark is young, at its
  boundary and too old; one restart, and two key pairs, one more than should ever be made.
  For the sync server, two calls, four possible ones, and three capsules of which each
  lacks a tool, a path or time that another has.
* `net_request`: a granted and another host, two public addresses and a private one.

Counters that only record how much a run may still do are `MaxFaults`, `MaxCrashes`,
`MaxCalls`, `MaxChanges`, `MaxLives`, `MaxKeys`, `MaxTime`, `MaxClock` and `MaxLines`.
`CHECK_DEADLOCK FALSE` appears in `Enforcement.cfg`, `PathScope.cfg`, `Parts.cfg` and
`NetRequest.cfg`, whose systems stop when every call has been made or the request was denied.

### Fairness

* `ApprovalFlow`: the clock, the steps of the sweep and the restart of a dead server.
  Handlers get none: a human may never answer and a request may hang. The cleanup task
  loops for the life of the process and catches the exceptions of a sweep
  (`main.py:30-59`), which is why a failed sweep is followed by another; failures are
  bounded by `MaxFaults`. That bound is an assumption: `database_stale` shows a connection on
  which writes keep failing until the process restarts, and with it a store's sweep
  would decide nothing until then.
* `SessionGate`: a handler whose await is over is resumed, a finished `persist` returns
  and the lock wakes its first waiter: the event loop does that for every ready callback.

### Findings

Five runs end in a violation of what a docstring, comment or document of the repository
says; `PROJECT.json` quotes each. In short:

1. `try_claim_pending` promises an exclusive claim; an MCP start resets it, and two
   approvals sign. Only one can record its capsule (`CapsuleIffApproved`).
2. "a human approval/rejection racing with this sweep always wins": not while it is signing.
3. busy_timeout does not keep a write from failing at once on a connection that an earlier
   timeout left inside a transaction; nor is "rollback automatic on next query"
   (`pending_store.py:191`) after an UPDATE that matched no row.
4. The session limit is not kept across concurrent deliveries of one thread.
5. `net_request` is documented as implemented, and every request that passes its checks fails
   before anything is sent.

Met while reading, with no run of their own: `SessionHistory.recent_capsules` is "within the last
60 minutes" (`models.py:344-346`) only right after a record or a load, which the actions of
`SessionGate` show; `mcp_stdio_sync.py:9-10` names `write_file`, which it does not implement;
`llm_client.py:131-132` speaks of the compiler's retry loop, and `compiler.py` does not retry.
`docs/known-limitations.md:78-79` ("The binding is still "latest active globally" rather than
per-thread") and `src/README.md:179` are out of date: both servers load the newest capsule of
the call's own thread (`mcp_server.py:326`, `:357`; `tests/test_mcp_isolation.py`), as
`EffectIsGranted` and `ReferenceMonitor` have it. And the policy and the enforcement disagree on
what a pattern is: `policy.py:175` and `:202` look for `*` and `?`, `fnmatch` (`path_utils.py:104`)
also reads `[`. A target such as `[.]env` is a plain name to the policy, which neither denies it
nor asks a human, and covers `.env` when calls are compared with it, while `src/README.md:49`
says "no secrets" of external authors. `PathScope` has such segments (`Brackets`), TLC reaches
that state in the instance, and `SensitiveOnlyByHuman` says which targets it speaks of.

## Proofs

Every safety property that a passing run checks is a theorem, but for `NobodyIsStuck`, and so is
each refinement: the runs show them on a small instance, the proofs for every value of the constants. Each `*_proofs`
module has the same shape: the definitions of an inductive invariant, lemmas about the
operators the steps use, one lemma per action (or per action and conjunct), the theorem that
the invariant holds in every reachable state, and the properties from it. TLC checked each
invariant before it was proved; the last column says on how many distinct states.

| module | inductive invariant | theorems, and the properties they state | states |
| --- | --- | --- | --- |
| `ApprovalFlow` | `Inv` (`InvHolds`) | `TypeCorrect`, `OneCapsulePerApproval` (`CapsuleIffApproved`), `AuditTruthful` (`AuditTellsOutcome`), `RetentionHolds` (`RetentionRespected`), `ImplementsIt` (`ImplementsLifecycle`), `SweepFinishesItsLists`, `ClaimsAreExclusiveAlone` | 508,264 |
| `SessionGate` | `GateInv` (`GateInductive`), `QueueInv` | `GateTypeCorrect`, `AutoCapsulesAreDurable` (`AutoCapsuleIsDurable`), `SavedCapsulesStayCounted` (`SavedStaysCounted`), `ToolCountsAgree` (`ToolCountAgrees`), `LoggedCapsulesAreDurable` (`LoggedIsDurable`), `NoWakeUpIsLost`, `LockIsFirstComeFirstServed`, `PersistHasTheTracker` | 428,119 |
| `SharedDatabase` | `DatabaseInv` (`DatabaseInductive`), `CallsInv` (`CallsInOrder`) | `DatabaseTypeCorrect`, `CallsAreAtomic` (`AllOrNothing`), `AnswersAreDurable` (`AnsweredIsCommitted`), `ImplementsTheCalls` (`ImplementsAtomicCalls`), `TasksAreBounded`, `NobodyWaitsOnAWaiter` | 448,525 |
| `Enforcement` | `IInv` (`Inductive`), `MonitorInv` | `TypeCorrect`, `EffectsAreLogged` (`EffectIsLogged`), `EffectsAreGranted` (`EffectIsGranted`), `RecordsAlwaysAgree`, `BindingOnlyAdvances` (`BindingNeverRegresses`), `AdmitsByNewest` (`AdmittedByNewest`), `EnforcesAsMonitor` (`ImplementsMonitor`) | 492,853 |
| `PathScope` | `ScopeInv` (`ScopeInductive`) | `CanonicalIsWalk`, `MatchIsCoverage`, `ScopeTypeCorrect`, `ProxyAdmitsWhatIsGranted` (`AdmittedIsGranted`), `ToolsActInsideScope` (`ActsInsideScope`), `SensitiveNeedsHuman` (`SensitiveOnlyByHuman`), `EngineWithinPolicy` (`WithinCanonicalPolicy`) | 275,908 |
| `GovernedTools` | `ToolsInv` (`ToolsInductive`), `RaceInv`, `LiveInv` | `ToolsTypeCorrect`, `StaysInside` (`NeverOutside`), `LeavesOpenWhatItSays` (`LeavesOpen`), `RacesAreBenign` (`CreationRaceIsBenign`), `WalksAreBounded`, `WalksAlwaysGoOn` | 75,059 (`LiveInv`: 53,568) |
| `Ingestion` | `IngestInv` (`IngestInductive`), `PairInv` | `IngestTypeCorrect`, `RefusesIffRepeated` (`RefusedIffRepeated`), `OnlyOneKeyPair` (`OneKeyPair`), `IssuedCanBeVerified` (`IssuedIsVerifiable`), `OnePairForGood`, `KeysStayAsTheyAre` | 1,030,390 (`PairInv`: 251,580) |
| `SyncServer` | `SyncInv` (`SyncInductive`) | `SyncTypeCorrect`, `SyncServesByNewest` (`ServedByNewest`), `SyncAnswersAgree` (`AnswersAgreeWithAudit`), `SyncAuditOnlyGrows` | 102,968 |

### The arguments

None of the properties is inductive alone, because whoever resumes after an await acts on what
it knew before. What the invariants add is what makes that knowledge safe.

* `ApprovalFlow`. `HandlersKnow`: a handler that waits to count or log an approval
  (rejection) still has an approved (rejected) row, since terminal states are never left, so
  its late record is true. `SweepKnows`: a row on the sweep's list is past its TTL or decided
  meanwhile, the ones it still has to log are expired, and the ones its purge will
  delete are decided and past their retention. `RowsDecidedBeforeDeleted`: a row exists from the
  webhook until after its decision. The refinement maps the commit that decides a row to
  `Decide`, the webhook's insert to `Ask`, a purge to `Forget` and everything else to a stutter.
  `SweepFinishesItsLists` needs that the lists are empty between two sweeps (`ListsAreEmptied`):
  then only a fault makes the sweep forget a row it has not done with. `ClaimsAreExclusiveAlone` is about
  `AloneSpec`, all of `Next` but the MCP start: a row that is being signed cannot be
  claimed (`ClaimsHold`), since only `init_db` makes a claimed row pending, and the server runs it
  while it has no handlers. So finding 1 has that one cause.
* `SessionGate`. `UnsavedIsDirty`: what is in memory and not on disk is of a thread that
  the next persist writes, so a persist saves what its handler has recorded. `PlaceOK` says who let a
  request pass by how far its handler is, `CountedOK` that a capsule of the window is in memory from
  the start of its persist and on disk from its end, unless someone reset the session.
  `FiniteHistory` lets the tools be counted. For the lock `QueueInv` says that whoever is in a call of the
  tracker holds it, in `persist`, or has one place in the queue: no handler is left where nothing
  will wake it, and the queue only moves up. With the fairness of `Wake` and `PersistDone` this is
  why `LockIsGranted` holds.
* `SharedDatabase`. A row belongs to a call of its task, and the task has got to it
  (`RowsAreWritten`); what the present call wrote is on disk, or in the journal of the one
  connection that writes (`WrittenIsKept`, `OneWriter`); the rows of a call are in the same place
  unless that call is halfway (`RowsTogether`), and a call halfway holds the lock of its connection, so
  nobody commits half of it; the calls a request has behind it are committed (`PastIsCommitted`).
  For the refinement `CallsInv` adds the order: what a task still has to do is the end of its script,
  rows that wait for a commit are of calls that tasks are at, and one MCP server is at work. The
  mapping leaves kinds, durable rows and answers as they are; a commit of rows is `TakeEffect`, the
  end of a task `Reply`, its beginning `Start`.
* `TasksAreBounded` and `NobodyWaitsOnAWaiter` are what `NobodyIsStuck` rests on. A task has a
  measure, 29 at most, that each of its steps lowers and no step of others raises; and a task can make
  a step unless it waits for the lock of a connection, whose holder then can. A statement that
  finds the write lock taken may time out, and never blocks for good. The theorem says "can move" by the guards of the steps (`CanStep`); TLC finds
  it equal to ENABLED in each of the 448,525 states.
* `Enforcement`. Rows are issued once and in order, a bound or loaded capsule was issued, whoever is
  between loading and binding holds the lock (`LockedWhileLoaded`), so a reload cannot go
  back; a call past its checks uses a capsule that grants it (`UsesAGrant`); and the records
  of a call are the ones its place allows (`RecordsFollowCalls`). For the refinement `MonitorInv` adds that
  a call acts once, in one thread and under one capsule (`ActsOnce`), and that lists never act
  (`ListsOnlyBind`); effects and records map to themselves, so every step is one of the
  monitor or leaves no trace. `RecordsAgree`, which no run checks by itself, follows from it.
* `PathScope`. What the capsule holds passed the checks of its tier (`Kept`), a capsule that no
  human saw needs none, and the verdict on a call is the checks' of proxy and tool. The rest is
  about the operators, for all paths and patterns. `CanonicalIsWalk`: `canonicalize_path`
  yields the place a path names. `MatchIsCoverage`: the matcher, which goes from the last
  segment to the first, accepts a path exactly if its place can be cut into consecutive pieces, one for
  each segment of the pattern; `"."` and empty segments of the pattern take none. `SecretsAreKeptBack`
  and `LiteralCovers` then say that a literal path which covers a secret is itself matched by the
  pattern of the secret, however it is spelled, so the engine saw it.
* `GovernedTools`. `EntriesInside`: a name in the workspace leads to an inode of the workspace
  or is a link, which `O_NOFOLLOW` refuses; so every step of a walk stays inside. `WalkHolds`
  says which descriptors are open at each step. For the races between servers `RaceInv` adds
  that directories form trees (`Tree`) and that, as long as nobody else changes the path, each walk
  is where the path leads (`WalksOnPath`); a `mkdir` then changes the path at its end only, where
  another walk has nothing to lose. `WalksAreBounded`: three system calls for each directory of
  the path and two more are an upper bound (`StepsLeft`), because a `mkdir` that lost a race is not
  tried again. `WalksAlwaysGoOn`: names and descriptors lead to inodes that exist or existed (`LiveInv`), so
  each system call has one of the outcomes the code handles; it says so by the guards of the steps
  (`CanWalk`), which TLC finds equal to ENABLED, and excepts a disk without inodes, a bound of the model.
* `Ingestion`. Every mark was left by a request let in by this process (`MarksAreDeserved`) and
  every such request leaves one for its lifetime, the newest counting (`MarksAreKept`): so
  pruning loses nothing that is needed. One request at a time makes the key pair (`OneSigner`), the
  files hold what it has got to (`FilesFollowMaker`), and a private key is published unless its
  making was cut short (`Published`). `PairInv` counts: a pair is made only where there is no private key
  file, and none ever disappears, so there is one at most (the bound `MaxKeys` is never
  met), and a making that was cut short leaves a file which keeps every later one from beginning.
* `SyncServer`. The capsule a line is under is a row not older than the newest at the moment the line
  was read (`UnderNewest`); what passed, passed under it (`Passed`); a verdict comes last and its
  audit row after it (`VerdictLast`, `RowSaysVerdict`). `SyncAuditOnlyGrows` follows: a line gets to its
  row once, and after the rows of all lines before it.

`canonicalize_path`, `Path.resolve`, the matcher and the path of `GovernedTools` are recursive
functions. What they compute is proved by the least-number principle: the library's theorem
that `<` is well founded on the naturals gives a least element of every set of numbers that is
not empty (`LeastNumber`), so a set that holds 0 and is closed under the step holds every index up
to `n` (`UpTo`). A function defined on `0..n` from its own values exists, is the only one, and has
the property at each index because each is an induction over such a set.

### Assumptions

The constants are assumed to be of their types, the `No...` values to be outside the sets they
stand beside, bounds to be naturals, and besides:

* `TimeAssumption`: the retention is not zero. A retention of zero would let a sweep purge what
  it has just expired; the setting counts days.
* `EnforcementAssumption`: a stdio server serves one thread, the one of its command line.
* `GateAssumption`: the tools of a capsule are finitely many.
* `GovernedToolsAssumption`: the path has a directory, and there is an inode for each of them.
* `PathScopeAssumption`: of the segments that `policy.py` spells out those with `*` are globs,
  and the others, like `.`, `..` and the empty one, contain no wildcard and no `[`; the empty
  segment and `.` match none of `.env.*`, `*.key`, `*.pem`, as `fnmatch` has it; and links lead
  to places, resolved to their ends. Of other globs and of segments with `[` it assumes nothing.

TLC evaluates each of them in a run.

### Only model-checked

* `EveryRequestDecided`, `ResolvedRowsPurged` and `LockIsGranted` are liveness under fairness. Their
  safety parts are proved: `SweepFinishesItsLists`, `NoWakeUpIsLost` and
  `LockIsFirstComeFirstServed`.
* `NobodyIsStuck` says which tasks can go on, and uses ENABLED. What is proved in its place is
  `NobodyWaitsOnAWaiter`, with the guards of the steps instead.

Both are out of the prover's reach. The five violations are TLC's by nature.

## Not modelled, and why

* The cryptography, Sigstore, the language model and the GitHub API: services, seen as steps
  that may fail or refuse. The two token caches are not modelled: GitHub's is used inside one
  critical section, and the language model's lives no longer than one compilation.
* Extraction of the payload's fields, configuration, Pydantic models, the demo scripts: no state.
* `persist` failing half way and statements failing for reasons other than the write lock.
* The fallback of the file tools on platforms without `dir_fd`, which the module's docstring
  calls racy.
* Redirects and responses of `net_request`, which the code cannot reach.
* Tool arguments that are not strings, sizes of files and texts, and the host list of the policy.

## Plan

The order was: the approval workflow (model, refinement, proofs), the session gate,
the database under both, enforcement, then paths: the behaviour that a lost or
duplicated capsule would hurt most came first. Then came the other ends of the system: the
file tools, ingestion with signing, the sync server, and the Rego policy beside the engine. Then
the invariants were proved, a component at a time, each from an inductive invariant that TLC
had checked first. What is left of the plan:

1. The tie between `Enforcement`'s constant `Grants` and what `PathScope` computes, as a lemma.
2. For the engine's glob heuristic and Rego's comparison: for which globs the two agree.
3. `recent_capsules` as its docstring has it ("within the last 60 minutes") against `InWindow`.

`NetRequest` needs no theorem: its one property is violated.
