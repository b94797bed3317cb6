---------------------------- MODULE SessionGate ----------------------------
(***************************************************************************)
(* Session-aware escalation: what app/governance/session.py remembers of   *)
(* each thread, how the /webhook handler consults it before it issues a    *)
(* capsule on its own, and how /approve adds to it afterwards.             *)
(*                                                                         *)
(* All operations of the tracker take one asyncio.Lock.  Taking it when it *)
(* is free and nobody waits is no suspension point, and neither are the    *)
(* policy evaluation and the Ed25519 signature: so a handler runs from     *)
(* get_or_create through record_capsule into persist without interruption. *)
(* persist holds the lock across its database calls.  Whoever asks for the *)
(* lock meanwhile queues first come, first served, and a handler woken     *)
(* with others behind it goes to the end of the queue for its next call.   *)
(*                                                                         *)
(* Each member of Requests is one webhook delivery, with a delivery id of  *)
(* its own, and names the capsule issued for it.                           *)
(***************************************************************************)
EXTENDS Naturals, Sequences, FiniteSets

CONSTANTS Requests,     \* webhook deliveries that reach the policy
          Threads,      \* issues and pull requests
          NoRequest,    \* nobody holds the tracker's lock
          Thread,       \* the thread of each request
          Tools,        \* the tools granted to each request
          ManyPaths,    \* the requests granted more than ten paths
          RecentLimit,  \* 3: this many recent capsules need a human
          ToolLimit,    \* 4: more distinct tools than this need a human
          Window,       \* _SESSION_WINDOW, in ticks
          MaxCrashes    \* bound on server crashes

ASSUME GateAssumption ==
    /\ NoRequest \notin Requests
    /\ Thread \in [Requests -> Threads]
    /\ ManyPaths \subseteq Requests
    /\ \A r \in Requests : IsFiniteSet(Tools[r])
    /\ {RecentLimit, ToolLimit, Window, MaxCrashes} \subseteq Nat

VARIABLES recent,    \* capsules in the recent_capsules of their threads
          toolKeys,  \* capsules with an entry in _unique_tools
          uniqueTools, \* cumulative_unique_tools of each thread
          streak,    \* consecutive_high_scope of each thread
          dirty,     \* _dirty_threads
          disk,      \* capsules in the session_history rows
          age,       \* ticks since the issued_at of a recorded capsule
          active,    \* capsules in pending_capsules: MCP servers honour them
          logged,    \* capsules whose issue is in the audit log
          path,      \* who let the request pass: nobody yet, policy, human
          at,        \* where the handler of each request is
          holder,    \* the handler whose persist holds the lock
          waiting,   \* the handlers waiting for the lock, oldest first
          up,        \* is the server running?
          crashes,   \* crashes so far
          wiped      \* capsules dropped by DELETE /sessions (history)

memory == <<recent, toolKeys, uniqueTools, streak, dirty>>
database == <<disk, active, logged>>
vars == <<recent, toolKeys, uniqueTools, streak, dirty, disk, age, active, logged, path,
          at, holder, waiting, up, crashes, wiped>>

\* Where a handler is: in the queue for a call of the tracker, or elsewhere.
LockCalls == {"dedup", "get", "approval", "record", "persist"}
Places == {"new", "compile", "pending", "approved", "issue", "log", "end"} \union LockCalls

OfThread(s, t) == {r \in s : Thread[r] = t}

\* The tracker, the tables and the handlers hold values of their kinds, and no
\* issue is in the audit log of a capsule that MCP servers do not honour.
TypeOK ==
    /\ recent \subseteq Requests /\ toolKeys \subseteq Requests
    /\ uniqueTools \in [Threads -> Nat] /\ streak \in [Threads -> Nat]
    /\ dirty \subseteq Threads
    /\ disk \subseteq Requests /\ active \subseteq Requests
    /\ logged \subseteq active
    /\ age \in [Requests -> 0..(Window + 1)]
    /\ path \in [Requests -> {"none", "policy", "human"}]
    /\ at \in [Requests -> Places]
    /\ holder \in Requests \union {NoRequest}
    /\ waiting \in Seq(Requests)
    /\ up \in BOOLEAN /\ crashes \in 0..MaxCrashes
    /\ wiped \subseteq Requests

Init ==
    /\ recent = {} /\ toolKeys = {} /\ dirty = {} /\ disk = {} /\ active = {} /\ logged = {}
    /\ uniqueTools = [t \in Threads |-> 0] /\ streak = [t \in Threads |-> 0]
    /\ age = [r \in Requests |-> 0]
    /\ path = [r \in Requests |-> "none"]
    /\ at = [r \in Requests |-> "new"]
    /\ holder = NoRequest /\ waiting = <<>>
    /\ up = TRUE /\ crashes = 0 /\ wiped = {}

-----------------------------------------------------------------------------
\* The tracker's data.

InWindow(r) == age[r] <= Window

\* consecutive_high_scope counts requests for more than two tools or ten paths.
HighScope(r) == Cardinality(Tools[r]) > 2 \/ r \in ManyPaths

ToolCount(s) == Cardinality(UNION {Tools[r] : r \in s})

\* PolicyEngine._requires_human_approval, the part that reads the session.
Escalated(t) ==
    \/ Cardinality(OfThread(recent, t)) >= RecentLimit
    \/ streak[t] >= 1
    \/ uniqueTools[t] > ToolLimit

\* record_capsule: prune the thread, append, count scope and tools anew.
PrunedEarly(t) == {x \in OfThread(recent, t) : age[x] < Window}
Pruned(t) == {x \in OfThread(recent, t) : InWindow(x)}

RecordCapsule(r) ==
    LET t == Thread[r]
        kept == Pruned(t) \union {r}
        keys == {x \in toolKeys : Thread[x] = t => x \in kept} \union {r}
    IN  /\ recent' = (recent \ OfThread(recent, t)) \union kept
        /\ toolKeys' = keys
        /\ uniqueTools' = [uniqueTools EXCEPT ![t] = ToolCount(OfThread(keys, t))]
        /\ streak' = [streak EXCEPT ![t] = IF HighScope(r) THEN @ + 1 ELSE 0]
        /\ dirty' = dirty \union {t}
        /\ age' = [age EXCEPT ![r] = 0]

-----------------------------------------------------------------------------
\* The lock.  Each operator says what handler r does once it runs the call,
\* with `rest` waiting behind it: it goes on into its next call when nobody
\* waits, and queues for it otherwise.

Free == up /\ holder = NoRequest /\ waiting = <<>>

Goes(r, place) == at' = [at EXCEPT ![r] = place]

Queue(r, call, rest) ==
    /\ Goes(r, call)
    /\ waiting' = Append(rest, r)

\* persist: its check of the dirty set always finds the caller's own thread.
RunPersist(r, rest) ==
    /\ Goes(r, "persist")
    /\ holder' = r
    /\ waiting' = rest

RunRecord(r, rest) ==
    /\ RecordCapsule(r)
    /\ IF rest = <<>> THEN RunPersist(r, rest)
                      ELSE Queue(r, "persist", rest) /\ UNCHANGED holder
    /\ UNCHANGED path

\* record_approval stores a time no policy reads; the thread becomes dirty
\* with the record_capsule that follows.
RunApproval(r, rest) ==
    IF rest = <<>> THEN RunRecord(r, rest)
                   ELSE /\ Queue(r, "record", rest)
                        /\ dirty' = dirty \union {Thread[r]}
                        /\ UNCHANGED <<recent, toolKeys, uniqueTools, streak, age, holder, path>>

\* get_or_create, then policy_engine.evaluate on what it returned, then, if
\* no human is needed, sign and record_capsule.
RunGet(r, rest) ==
    \/ /\ Escalated(Thread[r])
       /\ Goes(r, "pending")
       /\ waiting' = rest
       /\ UNCHANGED <<memory, age, holder, path>>
    \/ /\ ~Escalated(Thread[r])
       /\ path' = [path EXCEPT ![r] = "policy"]
       /\ IF rest = <<>>
          THEN RecordCapsule(r) /\ RunPersist(r, rest)
          ELSE Queue(r, "record", rest) /\ UNCHANGED <<memory, age, holder>>

\* is_duplicate_delivery, for a delivery id not seen before.
RunDedup(r, rest) ==
    /\ Goes(r, "compile")
    /\ waiting' = rest
    /\ UNCHANGED <<memory, age, holder, path>>

-----------------------------------------------------------------------------
\* Handlers, between their suspension points.

Suspended == <<database, up, crashes, wiped>>

\* A handler asks for the lock: it runs the call at once, or waits.
Arrive(r) ==
    /\ up
    /\ at[r] = "new"
    /\ IF Free THEN RunDedup(r, <<>>)
               ELSE Queue(r, "dedup", waiting) /\ UNCHANGED <<memory, age, holder, path>>
    /\ UNCHANGED Suspended

\* The trust tier and the compiled task have arrived.
Compiled(r) ==
    /\ up
    /\ at[r] = "compile"
    /\ IF Free THEN RunGet(r, <<>>)
               ELSE Queue(r, "get", waiting) /\ UNCHANGED <<memory, age, holder, path>>
    /\ UNCHANGED Suspended

\* The lock goes to the head of the queue.
Wake ==
    /\ up
    /\ holder = NoRequest
    /\ waiting # <<>>
    /\ LET r == Head(waiting)
           rest == Tail(waiting)
       IN  \/ at[r] = "dedup" /\ RunDedup(r, rest)
           \/ at[r] = "get" /\ RunGet(r, rest)
           \/ at[r] = "approval" /\ RunApproval(r, rest)
           \/ at[r] = "record" /\ RunRecord(r, rest)
           \/ at[r] = "persist" /\ RunPersist(r, rest) /\ UNCHANGED <<memory, age, path>>
    /\ UNCHANGED Suspended

\* The writes of the dirty threads are committed and the lock is released.
PersistedNothing == disk
Persisted == {r \in disk : Thread[r] \notin dirty} \union {r \in recent : Thread[r] \in dirty}

AfterPersistLogFirst(r) == "log"
AfterPersist(r) == IF path[r] = "policy" THEN "issue" ELSE "log"

PersistDone ==
    /\ up
    /\ holder # NoRequest /\ at[holder] = "persist"
    /\ disk' = Persisted
    /\ dirty' = {}
    /\ holder' = NoRequest
    /\ Goes(holder, AfterPersist(holder))
    /\ UNCHANGED <<recent, toolKeys, uniqueTools, streak, age, active, logged, path, waiting,
                   up, crashes, wiped>>

\* The first write raises ("database is locked"): the lock is released, the
\* threads stay dirty and the client gets a 500.
KeptOnError == holder
ReleasedOnError == NoRequest

PersistFails ==
    /\ up
    /\ holder # NoRequest /\ at[holder] = "persist"
    /\ holder' = ReleasedOnError
    /\ Goes(holder, "end")
    /\ UNCHANGED <<memory, age, path, waiting, Suspended>>

\* pending_store.record_issued: from here on MCP servers honour the capsule.
RecordIssued(r) ==
    /\ up
    /\ at[r] = "issue"
    /\ active' = active \union {r}
    /\ Goes(r, "log")
    /\ UNCHANGED <<memory, disk, logged, age, path, holder, waiting, up, crashes, wiped>>

\* CAPSULE_ISSUED or CAPSULE_APPROVED, and the answer to the client.
LogIssued(r) ==
    /\ up
    /\ at[r] = "log"
    /\ logged' = logged \union {r}
    /\ Goes(r, "end")
    /\ UNCHANGED <<memory, disk, active, age, path, holder, waiting, up, crashes, wiped>>

\* POST /approve: record_issued_and_resolve has committed.
HumanApproves(r) ==
    /\ up
    /\ at[r] = "pending"
    /\ path' = [path EXCEPT ![r] = "human"]
    /\ active' = active \union {r}
    /\ Goes(r, "approved")
    /\ UNCHANGED <<memory, disk, logged, age, holder, waiting, up, crashes, wiped>>

\* record_approval, record_capsule and persist of the approval.
CountApproved(r) ==
    /\ up
    /\ at[r] = "approved"
    /\ IF Free THEN RunApproval(r, <<>>)
               ELSE Queue(r, "approval", waiting) /\ UNCHANGED <<memory, age, holder, path>>
    /\ UNCHANGED Suspended

\* A call other than the tracker's raises: the client gets a 500.
HandlerError(r) ==
    /\ up
    /\ at[r] \in {"compile", "issue", "log"}
    /\ Goes(r, "end")
    /\ UNCHANGED <<memory, database, age, path, holder, waiting, up, crashes, wiped>>

\* DELETE /sessions, at its turn for the lock.  The rows on disk stay.
ResetSession(t) ==
    /\ up
    /\ holder = NoRequest
    /\ recent' = recent \ OfThread(recent, t)
    /\ toolKeys' = toolKeys \ OfThread(toolKeys, t)
    /\ uniqueTools' = [uniqueTools EXCEPT ![t] = 0]
    /\ streak' = [streak EXCEPT ![t] = 0]
    /\ dirty' = dirty \ {t}
    /\ wiped' = wiped \union OfThread(recent, t)
    /\ UNCHANGED <<database, age, path, at, holder, waiting, up, crashes>>

-----------------------------------------------------------------------------
\* Crash, restart and time.

\* Requests that wait for a human survive in pending_approvals.
AfterCrash(r) == IF at[r] \in {"new", "pending"} THEN at[r] ELSE "end"

Crash ==
    /\ up
    /\ crashes < MaxCrashes
    /\ crashes' = crashes + 1
    /\ up' = FALSE
    /\ recent' = {} /\ toolKeys' = {} /\ dirty' = {}
    /\ uniqueTools' = [t \in Threads |-> 0]
    /\ streak' = [t \in Threads |-> 0]
    /\ holder' = NoRequest /\ waiting' = <<>>
    /\ at' = [r \in Requests |-> AfterCrash(r)]
    /\ UNCHANGED <<database, age, path, wiped>>

\* SessionTracker.load: prune, reset the streak, recount the tools.
LoadedToolsUnpruned == disk
LoadedTools == {r \in disk : InWindow(r)}

Restart ==
    /\ ~up
    /\ up' = TRUE
    /\ recent' = {r \in disk : InWindow(r)}
    /\ toolKeys' = LoadedTools
    /\ uniqueTools' = [t \in Threads |-> ToolCount(OfThread(LoadedTools, t))]
    /\ UNCHANGED <<streak, dirty, database, age, path, at, holder, waiting, crashes, wiped>>

\* A tick is the window of an hour; nobody holds or awaits the lock that long.
Tick ==
    /\ holder = NoRequest /\ waiting = <<>>
    /\ age' = [r \in Requests |->
                  IF r \in recent \union disk \union active /\ age[r] <= Window
                  THEN age[r] + 1 ELSE age[r]]
    /\ UNCHANGED <<memory, database, path, at, holder, waiting, up, crashes, wiped>>

HandlerStep ==
    \/ \E r \in Requests : Compiled(r) \/ RecordIssued(r) \/ LogIssued(r) \/ CountApproved(r)
    \/ Wake
    \/ PersistDone

Next ==
    \/ HandlerStep
    \/ \E r \in Requests : Arrive(r) \/ HumanApproves(r) \/ HandlerError(r)
    \/ PersistFails
    \/ \E t \in Threads : ResetSession(t)
    \/ Crash
    \/ Restart
    \/ Tick

Spec == Init /\ [][Next]_vars

\* The event loop resumes every handler whose await is over.
FairSpec ==
    /\ Spec
    /\ WF_vars(Wake) /\ WF_vars(PersistDone)
    /\ \A r \in Requests : WF_vars(Compiled(r)) /\ WF_vars(RecordIssued(r))
                           /\ WF_vars(LogIssued(r)) /\ WF_vars(CountApproved(r))

-----------------------------------------------------------------------------
\* A capsule the policy issued on its own is never honoured by an MCP server
\* without being counted in the durable history of its thread: a crash at any
\* point cannot make the gate forget it.
AutoCapsuleIsDurable ==
    \A r \in active : path[r] = "policy" /\ InWindow(r) => r \in disk \union wiped

\* No later persist of another handler, no prune and no restart drops from
\* the gate a capsule of the window that was once saved.
SavedStaysCounted ==
    up => \A r \in disk : InWindow(r) => r \in recent \union wiped

\* cumulative_unique_tools is the number of tools of the capsules in the
\* history, after any sequence of records, prunes, resets and restarts.
ToolCountAgrees ==
    up => /\ toolKeys = recent
          /\ \A t \in Threads : uniqueTools[t] = ToolCount(OfThread(recent, t))

\* Nobody is logged as issued before it is counted: the audit log never runs
\* ahead of the history the gate will read after a restart.
LoggedIsDurable == \A r \in logged : InWindow(r) => r \in disk \union wiped

\* The lock is handed on: a handler that waits for it gets through, whatever
\* fails in front of it.
LockIsGranted == \A r \in Requests : at[r] \in LockCalls ~> at[r] \notin LockCalls

-----------------------------------------------------------------------------
\* What README says of the gate, and the code does not do.

\* README: "Human approval is also required when session history shows
\* escalation (e.g. >=3 capsules in the recent window ...)".
NoThirdCapsuleUnseen ==
    [][\A r \in recent' \ recent :
          path'[r] = "policy" =>
              Cardinality({x \in OfThread(recent, Thread[r]) : InWindow(x)}) < RecentLimit]_vars
=============================================================================
