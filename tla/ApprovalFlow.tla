---------------------------- MODULE ApprovalFlow ----------------------------
(***************************************************************************)
(* The human-approval workflow: the pending_approvals and pending_capsules *)
(* tables of app/pending_store.py, the /approve and /reject handlers of    *)
(* app/ingestion/approval.py, the part of the /webhook handler that opens  *)
(* a request, the retention sweep of app/main.py, a crash and restart of   *)
(* the server, and the start of a stdio MCP server, which opens the same   *)
(* database file.                                                          *)
(*                                                                         *)
(* The server is one asyncio process: a handler is interrupted only where  *)
(* it awaits, and every store operation holds the store's lock from its    *)
(* SELECT or UPDATE to its commit, so each operation is one step here and  *)
(* a handler is a chain of such steps.  The sweep is a further task; its   *)
(* SELECT, each of its updates and its purge are separate steps.           *)
(*                                                                         *)
(* Time is kept as the age of each row: since created_at while the row is  *)
(* open, since resolved_at afterwards.  The code only compares the age of  *)
(* an open row with the TTL and that of a resolved row with the retention, *)
(* so ages stop growing at MaxAge.                                         *)
(***************************************************************************)
EXTENDS Naturals

CONSTANTS Pending,    \* pending_id values (uuid4: never used twice)
          Handlers,   \* requests the server works on at the same time
          NoPending,  \* what an idle handler works on
          TTL,        \* pending_approval_ttl_hours, in ticks
          Retention,  \* pending_approval_retention_days, in ticks
          MaxFaults   \* bound: server crashes and failed sweeps

ASSUME NoPendingAssumption == NoPending \notin Pending
\* A retention of no time at all would purge what the same sweep has expired.
ASSUME TimeAssumption == TTL \in Nat /\ Retention \in Nat \ {0} /\ MaxFaults \in Nat

VARIABLES rows,    \* the pending_ids with a row in pending_approvals
          status,  \* the status column; of a deleted row, its last status
          age,     \* time since created_at (open row) or resolved_at
          issued,  \* rows of pending_capsules recorded for each pending_id
          audit,   \* the audit log, as <<pending_id, event>> pairs
          at,      \* the await each handler is suspended at
          target,  \* the pending_id each handler's request is about
          sweep,   \* the retention sweep's local variables
          up,      \* is the API server running?
          faults   \* how many crashes and failed sweeps so far

store == <<rows, status, age, issued>>
server == <<at, target, sweep, up, faults>>
vars == <<rows, status, age, issued, audit, at, target, sweep, up, faults>>

OpenStatus == {"pending", "processing"}
Terminal == {"approved", "rejected", "expired"}
Events == {"CAPSULE_PENDING", "CAPSULE_APPROVED", "CAPSULE_DENIED", "CAPSULE_EXPIRED"}

MaxAge == IF TTL > Retention THEN TTL ELSE Retention

\* The awaits of each handler, in the order they are reached.
WebhookAwaits == {"log pending"}
ApproveAwaits == {"claim", "sign", "record", "count", "log approved"}
RejectAwaits == {"resolve", "log denied"}
Awaits == {"idle"} \union WebhookAwaits \union ApproveAwaits \union RejectAwaits

Open(p) == p \in rows /\ status[p] \in OpenStatus
Resolved(p) == p \in rows /\ status[p] \in Terminal

SweepIdle == [busy |-> FALSE, todo |-> {}, expired |-> {}, old |-> {}]

StatusValues == {"none"} \union OpenStatus \union Terminal

StoreTypeOK ==
    /\ rows \subseteq Pending
    /\ status \in [Pending -> StatusValues]
    /\ age \in [Pending -> 0..MaxAge]
    /\ issued \in [Pending -> Nat]
    /\ audit \subseteq Pending \X Events

HandlersTypeOK ==
    /\ at \in [Handlers -> Awaits]
    /\ target \in [Handlers -> Pending \union {NoPending}]
    /\ \A h \in Handlers : at[h] # "idle" => target[h] \in Pending

ServerTypeOK ==
    /\ sweep \in [busy : BOOLEAN, todo : SUBSET Pending,
                  expired : SUBSET Pending, old : SUBSET Pending]
    /\ up \in BOOLEAN
    /\ faults \in 0..MaxFaults

\* Every status is one the code writes, whatever init_db and the sweep make of a
\* row, and a suspended handler always knows which request it is about.
TypeOK == StoreTypeOK /\ HandlersTypeOK /\ ServerTypeOK

Init ==
    /\ rows = {}
    /\ status = [p \in Pending |-> "none"]
    /\ age = [p \in Pending |-> 0]
    /\ issued = [p \in Pending |-> 0]
    /\ audit = {}
    /\ at = [h \in Handlers |-> "idle"]
    /\ target = [h \in Handlers |-> NoPending]
    /\ sweep = SweepIdle
    /\ up = TRUE
    /\ faults = 0

-----------------------------------------------------------------------------
\* Control of one handler: what its next await is, and when it returns.

Advance(h, here, next) ==
    /\ up
    /\ at[h] = here
    /\ at' = [at EXCEPT ![h] = next]
    /\ UNCHANGED <<target, sweep, up, faults>>

Begin(h, p, next) ==
    /\ up
    /\ at[h] = "idle"
    /\ at' = [at EXCEPT ![h] = next]
    /\ target' = [target EXCEPT ![h] = p]
    /\ UNCHANGED <<sweep, up, faults>>

Return(h, here) ==
    /\ up
    /\ at[h] = here
    /\ at' = [at EXCEPT ![h] = "idle"]
    /\ target' = [target EXCEPT ![h] = NoPending]
    /\ UNCHANGED <<sweep, up, faults>>

Log(p, event) == audit' = audit \union {<<p, event>>}

-----------------------------------------------------------------------------
\* The guards in the WHERE clauses of the store's updates, and their mutants.

\* resolve_approval: ... WHERE pending_id = ? AND status IN ('pending', 'processing')
ResolvableAnyRow(p) == p \in rows
Resolvable(p) == Open(p)

\* try_claim_pending: ... WHERE pending_id = ? AND status = 'pending'
Claimable(p) == p \in rows /\ status[p] = "pending"

\* record_issued_and_resolve: ... WHERE pending_id = ? AND status = 'processing'
RecordableAnyRow(p) == p \in rows
Recordable(p) == p \in rows /\ status[p] = "processing"

\* The update of resolve_approval and of record_issued_and_resolve.
Resolve(p, outcome) ==
    /\ status' = [status EXCEPT ![p] = outcome]
    /\ age' = [age EXCEPT ![p] = 0]
    /\ UNCHANGED rows

\* init_db: UPDATE ... SET status = 'pending' WHERE status = 'processing'
ReopenedAlways(p) == p \in rows
Reopened(p) == p \in rows /\ status[p] = "processing"

ReleasedBlank == ""
Released == "pending"

InitDb ==
    /\ status' = [p \in Pending |-> IF Reopened(p) THEN Released ELSE status[p]]
    /\ UNCHANGED <<rows, age, issued, audit>>

-----------------------------------------------------------------------------
\* POST /webhook, once the policy asks for a human: open a request, log it.

WebhookAddPending(h, p) ==
    /\ Begin(h, p, "log pending")
    /\ status[p] = "none"
    /\ rows' = rows \union {p}
    /\ status' = [status EXCEPT ![p] = "pending"]
    /\ age' = [age EXCEPT ![p] = 0]
    /\ UNCHANGED <<issued, audit>>

WebhookLogPending(h) ==
    /\ Return(h, "log pending")
    /\ Log(target[h], "CAPSULE_PENDING")
    /\ UNCHANGED store

-----------------------------------------------------------------------------
\* POST /capsules/{id}/approve.  A missing row (404) and a row that is not
\* 'pending' (409) end the request at the read, with nothing changed.

ApproveGet(h, p) ==
    /\ Begin(h, p, "claim")
    /\ p \in rows /\ status[p] = "pending"
    /\ UNCHANGED <<store, audit>>

ApproveClaim(h) ==
    LET p == target[h] IN
    /\ \/ /\ Claimable(p)
          /\ status' = [status EXCEPT ![p] = "processing"]
          /\ Advance(h, "claim", "sign")
       \/ /\ ~Claimable(p)
          /\ Return(h, "claim")
          /\ UNCHANGED status
    /\ UNCHANGED <<rows, age, issued, audit>>

ApproveSign(h) ==
    /\ Advance(h, "sign", "record")
    /\ UNCHANGED <<store, audit>>

ApproveRecord(h) ==
    LET p == target[h] IN
    /\ \/ /\ Recordable(p)
          /\ Resolve(p, "approved")
          /\ issued' = [issued EXCEPT ![p] = @ + 1]
          /\ Advance(h, "record", "count")
       \/ /\ ~Recordable(p)
          /\ Return(h, "record")
          /\ UNCHANGED store
    /\ UNCHANGED audit

\* record_approval, record_capsule and persist change the session tracker
\* and its tables only; SessionGate models what they do to them.
ApproveCount(h) ==
    /\ Advance(h, "count", "log approved")
    /\ UNCHANGED <<store, audit>>

ApproveLog(h) ==
    /\ Return(h, "log approved")
    /\ Log(target[h], "CAPSULE_APPROVED")
    /\ UNCHANGED store

-----------------------------------------------------------------------------
\* POST /capsules/{id}/reject

RejectGet(h, p) ==
    /\ Begin(h, p, "resolve")
    /\ p \in rows /\ status[p] = "pending"
    /\ UNCHANGED <<store, audit>>

RejectResolve(h) ==
    LET p == target[h] IN
    /\ \/ /\ Resolvable(p)
          /\ Resolve(p, "rejected")
          /\ Advance(h, "resolve", "log denied")
       \/ /\ ~Resolvable(p)
          /\ Return(h, "resolve")
          /\ UNCHANGED <<rows, status, age>>
    /\ UNCHANGED <<issued, audit>>

RejectLog(h) ==
    /\ Return(h, "log denied")
    /\ Log(target[h], "CAPSULE_DENIED")
    /\ UNCHANGED store

\* Any awaited call of a handler may raise before it has committed: the
\* signer, the database, the audit log.  The client gets a 500 and nothing
\* the handler had committed is undone: a failed signer leaves 'processing'.
HandlerError(h) ==
    /\ at[h] # "idle"
    /\ Return(h, at[h])
    /\ UNCHANGED <<store, audit>>

-----------------------------------------------------------------------------
\* run_retention_sweep, started by _pending_cleanup_loop.

StaleOnlyPending == {p \in rows : status[p] = "pending" /\ age[p] >= TTL}
Stale == {p \in rows : Open(p) /\ age[p] >= TTL}

OldEarly == {p \in rows : Resolved(p) /\ age[p] + 1 >= Retention}
OldNotExpired == {p \in rows : Resolved(p) /\ status[p] # "expired" /\ age[p] >= Retention}
Old == {p \in rows : Resolved(p) /\ age[p] >= Retention}

\* effective_now is read once: it fixes what is stale now and, for the purge
\* at the end of the same sweep, what is old now.
SweepSelect ==
    /\ up
    /\ ~sweep.busy
    /\ sweep' = [busy |-> TRUE, todo |-> Stale, expired |-> {}, old |-> Old]
    /\ UNCHANGED <<store, audit, at, target, up, faults>>

\* One resolve_approval(pending_id, EXPIRED) of the loop over stale_ids.
SweepExpire(p) ==
    /\ up
    /\ p \in sweep.todo
    /\ \/ /\ Resolvable(p)
          /\ Resolve(p, "expired")
          /\ sweep' = [sweep EXCEPT !.todo = @ \ {p}, !.expired = @ \union {p}]
       \/ /\ ~Resolvable(p)
          /\ sweep' = [sweep EXCEPT !.todo = @ \ {p}]
          /\ UNCHANGED <<rows, status, age>>
    /\ UNCHANGED <<issued, audit, at, target, up, faults>>

\* A failed audit write is caught for each id and the sweep goes on.
SweepLog(p) ==
    /\ up
    /\ sweep.todo = {}
    /\ p \in sweep.expired
    /\ sweep' = [sweep EXCEPT !.expired = @ \ {p}]
    /\ Log(p, "CAPSULE_EXPIRED") \/ UNCHANGED audit
    /\ UNCHANGED <<store, at, target, up, faults>>

\* purge_resolved_pending_approvals, then the purge of pending_capsules,
\* which finds nothing: every capsule row was written 'approved'.
SweepPurge ==
    /\ up
    /\ sweep.busy
    /\ sweep.todo = {}
    /\ sweep.expired = {}
    /\ rows' = rows \ sweep.old
    /\ sweep' = SweepIdle
    /\ UNCHANGED <<status, age, issued, audit, at, target, up, faults>>

\* An exception of a store call ends the sweep; the loop logs it and sleeps.
SweepFails ==
    /\ up
    /\ sweep.busy
    /\ faults < MaxFaults
    /\ faults' = faults + 1
    /\ sweep' = SweepIdle
    /\ UNCHANGED <<store, audit, at, target, up>>

-----------------------------------------------------------------------------
\* The process, its restarts, and the other process on the same file.

\* The server dies, or is stopped, at any await: what is committed stays.
Crash ==
    /\ up
    /\ faults < MaxFaults
    /\ faults' = faults + 1
    /\ up' = FALSE
    /\ at' = [h \in Handlers |-> "idle"]
    /\ target' = [h \in Handlers |-> NoPending]
    /\ sweep' = SweepIdle
    /\ UNCHANGED <<store, audit>>

\* lifespan: init_db releases the claims of the handlers that died.
Restart ==
    /\ ~up
    /\ up' = TRUE
    /\ InitDb
    /\ UNCHANGED <<at, target, sweep, faults>>

\* _serve_stdio calls the same init_db, whatever the API server is doing.
McpServerStart ==
    /\ InitDb
    /\ UNCHANGED server

Older(p) == IF p \in rows /\ age[p] < MaxAge THEN age[p] + 1 ELSE age[p]

Tick ==
    /\ age' = [p \in Pending |-> Older(p)]
    /\ UNCHANGED <<rows, status, issued, audit, server>>

HandlerStep(h) ==
    \/ \E p \in Pending :
          \/ WebhookAddPending(h, p)
          \/ ApproveGet(h, p)
          \/ RejectGet(h, p)
    \/ WebhookLogPending(h)
    \/ ApproveClaim(h)
    \/ ApproveSign(h)
    \/ ApproveRecord(h)
    \/ ApproveCount(h)
    \/ ApproveLog(h)
    \/ RejectResolve(h)
    \/ RejectLog(h)
    \/ HandlerError(h)

SweepStep ==
    \/ SweepSelect
    \/ \E p \in Pending : SweepExpire(p) \/ SweepLog(p)
    \/ SweepPurge

Next ==
    \/ \E h \in Handlers : HandlerStep(h)
    \/ SweepStep
    \/ SweepFails
    \/ Crash
    \/ Restart
    \/ McpServerStart
    \/ Tick

Spec == Init /\ [][Next]_vars

\* Time passes, the event loop runs the cleanup task, and a stopped server is
\* started again.  Handlers get no fairness: a human may never answer, and a
\* request that hangs must not be what a stuck approval waits for.
Fairness == WF_vars(Tick) /\ WF_vars(SweepStep) /\ WF_vars(Restart)

FairSpec == Spec /\ Fairness

-----------------------------------------------------------------------------
\* A capsule is active for a request exactly when the request was approved,
\* and never two: whatever approvals, rejections, sweeps, restarts and MCP
\* starts did to the row between a claim and the commit of
\* record_issued_and_resolve.
CapsuleIffApproved ==
    \A p \in Pending : issued[p] = (IF status[p] = "approved" THEN 1 ELSE 0)

\* The audit log tells the story of the row: a decision is logged only by the
\* one that took it, though the log entry is written awaits later.
AuditTellsOutcome ==
    \A p \in Pending :
        /\ <<p, "CAPSULE_APPROVED">> \in audit => status[p] = "approved"
        /\ <<p, "CAPSULE_DENIED">> \in audit => status[p] = "rejected"
        /\ <<p, "CAPSULE_EXPIRED">> \in audit => status[p] = "expired"

\* Nothing expires before its TTL, although the sweep acts on a list it read
\* awaits ago, and no record is deleted before its retention has passed.
RetentionStep ==
    \A p \in Pending :
        /\ status[p] # "expired" /\ status'[p] = "expired" => age[p] >= TTL
        /\ p \in rows \ rows' => status[p] \in Terminal /\ age[p] >= Retention

RetentionRespected == [][RetentionStep]_vars

\* The workflow implements the one-decision lifecycle: 'processing' and the
\* steps between the claim and the commit are invisible to it.
Decision(p) == IF status[p] \in OpenStatus THEN "open" ELSE status[p]

Lifecycle == INSTANCE ApprovalLifecycle WITH
                 decision <- [p \in Pending |-> Decision(p)],
                 capsules <- issued,
                 kept <- rows

ImplementsLifecycle == Lifecycle!LifecycleSpec

\* Every request is decided in the end, even one whose handler died or whose
\* signer failed after the claim.
EveryRequestDecided == \A p \in Pending : Open(p) ~> ~Open(p)

\* Resolved rows do not pile up: each is deleted in the end.
ResolvedRowsPurged == \A p \in Pending : Resolved(p) ~> p \notin rows

-----------------------------------------------------------------------------
\* The inductive invariant: what is in force at every step that the
\* properties above rest on.

\* A row exists from the webhook on, and only a decided one is ever deleted.
RowsDecidedBeforeDeleted ==
    \A p \in Pending : IF p \in rows THEN status[p] # "none"
                                     ELSE status[p] \notin OpenStatus

\* A handler past its commit knows the outcome, however long it is suspended.
HandlersKnow ==
    \A h \in Handlers :
        /\ at[h] \in {"count", "log approved"} => status[target[h]] = "approved"
        /\ at[h] = "log denied" => status[target[h]] = "rejected"

\* The lists the sweep keeps across its awaits are still right, but for the
\* rows of its todo list that somebody decided meanwhile.
SweepKnows ==
    /\ \A p \in sweep.todo : status[p] # "none" /\ (Open(p) => age[p] >= TTL)
    /\ \A p \in sweep.expired : status[p] = "expired"
    /\ \A p \in sweep.old : status[p] \in Terminal /\ age[p] >= Retention

\* All of it: an approval, a rejection and the sweep may each be suspended
\* between two awaits and still act on a row the way its state allows.
Inv ==
    /\ TypeOK
    /\ RowsDecidedBeforeDeleted
    /\ CapsuleIffApproved
    /\ AuditTellsOutcome
    /\ HandlersKnow
    /\ SweepKnows

-----------------------------------------------------------------------------
\* What two docstrings of the code say, and the code does not do.

\* try_claim_pending: "so concurrent /approve calls can't both proceed to
\* signing".
ClaimIsExclusive ==
    \A h, k \in Handlers :
        h # k /\ {at[h], at[k]} \subseteq {"sign", "record"} => target[h] # target[k]

\* expire_stale_pending_approvals: "a human approval/rejection racing with
\* this sweep always wins over an expiry".
ClaimedBy(h, p) == at[h] \in {"sign", "record"} /\ target[h] = p

HumanWinsOverSweep ==
    [][\A p \in Pending : \A h \in Handlers :
          ClaimedBy(h, p) /\ status[p] = "processing" => status'[p] # "expired"]_vars
=============================================================================
