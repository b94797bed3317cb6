------------------------ MODULE ApprovalFlow_proofs ------------------------
(***************************************************************************)
(* Proofs about ApprovalFlow, for every set of requests and of handlers,   *)
(* every TTL and retention, and any number of faults.                      *)
(***************************************************************************)
EXTENDS ApprovalFlow, TLAPS

LEMMA MaxAgeType == MaxAge \in Nat /\ TTL <= MaxAge /\ Retention <= MaxAge
  BY TimeAssumption DEF MaxAge

LEMMA StatusType ==
    /\ OpenStatus \subseteq StatusValues
    /\ Terminal \subseteq StatusValues
    /\ "none" \in StatusValues
  BY DEF StatusValues

LEMMA AwaitType ==
    /\ {"idle", "log pending", "claim", "sign", "record"} \subseteq Awaits
    /\ {"count", "log approved", "resolve", "log denied"} \subseteq Awaits
  BY DEF Awaits, WebhookAwaits, ApproveAwaits, RejectAwaits

LEMMA SweepIdleType ==
    SweepIdle \in [busy : BOOLEAN, todo : SUBSET Pending,
                   expired : SUBSET Pending, old : SUBSET Pending]
  BY DEF SweepIdle

LEMMA InitInv == Init => Inv
<1> SUFFICES ASSUME Init PROVE Inv
  OBVIOUS
<1>1. StoreTypeOK
  BY MaxAgeType, StatusType DEF Init, StoreTypeOK
<1>2. HandlersTypeOK
  BY AwaitType DEF Init, HandlersTypeOK
<1>3. ServerTypeOK
  BY SweepIdleType, TimeAssumption DEF Init, ServerTypeOK
<1>4. RowsDecidedBeforeDeleted /\ CapsuleIffApproved /\ AuditTellsOutcome
  BY DEF Init, RowsDecidedBeforeDeleted, CapsuleIffApproved, AuditTellsOutcome, OpenStatus
<1>5. HandlersKnow /\ SweepKnows
  BY DEF Init, HandlersKnow, SweepKnows, SweepIdle
<1> QED
  BY <1>1, <1>2, <1>3, <1>4, <1>5 DEF Inv, TypeOK

-----------------------------------------------------------------------------
\* The steps of a handler's control, and the updates of the store, keep types.

LEMMA BeginType ==
    ASSUME HandlersTypeOK, NEW h \in Handlers, NEW p \in Pending, NEW next \in Awaits,
           Begin(h, p, next)
    PROVE  HandlersTypeOK'
  BY DEF HandlersTypeOK, Begin

LEMMA AdvanceType ==
    ASSUME HandlersTypeOK, NEW h \in Handlers, NEW here, here # "idle", NEW next \in Awaits,
           Advance(h, here, next)
    PROVE  HandlersTypeOK' /\ target[h] \in Pending
  BY DEF HandlersTypeOK, Advance

LEMMA ReturnType ==
    ASSUME HandlersTypeOK, NEW h \in Handlers, NEW here, here # "idle", Return(h, here)
    PROVE  HandlersTypeOK' /\ target[h] \in Pending
  BY AwaitType DEF HandlersTypeOK, Return

LEMMA LogType ==
    ASSUME StoreTypeOK, NEW p \in Pending, NEW e \in Events, Log(p, e), UNCHANGED store
    PROVE  StoreTypeOK'
  BY DEF StoreTypeOK, Log, store

LEMMA ResolveType ==
    ASSUME StoreTypeOK, NEW p \in Pending, NEW outcome \in Terminal, Resolve(p, outcome)
    PROVE  /\ rows' \subseteq Pending
           /\ status' \in [Pending -> StatusValues]
           /\ age' \in [Pending -> 0..MaxAge]
  BY MaxAgeType, StatusType DEF StoreTypeOK, Resolve

\* Every step keeps the types, one action at a time.
LEMMA TypeStep == TypeOK /\ [Next]_vars => TypeOK'
<1> SUFFICES ASSUME StoreTypeOK, HandlersTypeOK, ServerTypeOK, [Next]_vars
             PROVE  StoreTypeOK' /\ HandlersTypeOK' /\ ServerTypeOK'
  BY DEF TypeOK
<1> DEFINE Goal == StoreTypeOK' /\ HandlersTypeOK' /\ ServerTypeOK'
<1>1. ASSUME NEW h \in Handlers, NEW p \in Pending, WebhookAddPending(h, p)
      PROVE  Goal
  <2>1. HandlersTypeOK'
    BY <1>1, BeginType, AwaitType DEF WebhookAddPending
  <2>2. StoreTypeOK'
    <3>1. "pending" \in StatusValues /\ 0 \in 0..MaxAge
      BY StatusType, MaxAgeType DEF OpenStatus
    <3> QED
      BY <1>1, <3>1 DEF WebhookAddPending, StoreTypeOK
  <2> QED
    BY <1>1, <2>1, <2>2 DEF WebhookAddPending, Begin, ServerTypeOK
<1>2. ASSUME NEW h \in Handlers, NEW p \in Pending, ApproveGet(h, p) \/ RejectGet(h, p)
      PROVE  Goal
  <2>1. HandlersTypeOK'
    BY <1>2, BeginType, AwaitType DEF ApproveGet, RejectGet
  <2> QED
    BY <1>2, <2>1 DEF ApproveGet, RejectGet, Begin, store, StoreTypeOK, ServerTypeOK
<1>3. ASSUME NEW h \in Handlers, WebhookLogPending(h) \/ ApproveLog(h) \/ RejectLog(h)
      PROVE  Goal
  <2>1. HandlersTypeOK' /\ target[h] \in Pending
    BY <1>3, ReturnType DEF WebhookLogPending, ApproveLog, RejectLog
  <2>2. StoreTypeOK'
    BY <1>3, <2>1, LogType DEF WebhookLogPending, ApproveLog, RejectLog, Events
  <2> QED
    BY <1>3, <2>1, <2>2 DEF WebhookLogPending, ApproveLog, RejectLog, Return, ServerTypeOK
<1>4. ASSUME NEW h \in Handlers, ApproveClaim(h)
      PROVE  Goal
  <2>1. HandlersTypeOK' /\ target[h] \in Pending
    BY <1>4, AdvanceType, ReturnType, AwaitType DEF ApproveClaim
  <2>2. StoreTypeOK'
    BY <1>4, <2>1, StatusType DEF ApproveClaim, StoreTypeOK, OpenStatus
  <2> QED
    BY <1>4, <2>1, <2>2 DEF ApproveClaim, Advance, Return, ServerTypeOK
<1>5. ASSUME NEW h \in Handlers, ApproveSign(h) \/ ApproveCount(h)
      PROVE  Goal
  <2>1. HandlersTypeOK'
    BY <1>5, AdvanceType, AwaitType DEF ApproveSign, ApproveCount
  <2> QED
    BY <1>5, <2>1 DEF ApproveSign, ApproveCount, Advance, store, StoreTypeOK, ServerTypeOK
<1>6. ASSUME NEW h \in Handlers, ApproveRecord(h)
      PROVE  Goal
  <2>1. HandlersTypeOK' /\ target[h] \in Pending
    BY <1>6, AdvanceType, ReturnType, AwaitType DEF ApproveRecord
  <2>2. CASE Recordable(target[h])
    <3>1. Resolve(target[h], "approved") /\ audit' = audit
      BY <1>6, <2>2 DEF ApproveRecord
    <3>2. issued' \in [Pending -> Nat]
      BY <1>6, <2>1, <2>2 DEF ApproveRecord, StoreTypeOK
    <3> QED
      BY <1>6, <2>1, <2>2, <3>1, <3>2, ResolveType
      DEF Terminal, ApproveRecord, Advance, Return, StoreTypeOK, ServerTypeOK
  <2>3. CASE ~Recordable(target[h])
    BY <1>6, <2>1, <2>3 DEF ApproveRecord, Advance, Return, store, StoreTypeOK, ServerTypeOK
  <2> QED
    BY <2>2, <2>3
<1>7. ASSUME NEW h \in Handlers, RejectResolve(h)
      PROVE  Goal
  <2>1. HandlersTypeOK' /\ target[h] \in Pending
    BY <1>7, AdvanceType, ReturnType, AwaitType DEF RejectResolve
  <2>2. StoreTypeOK'
    BY <1>7, <2>1, ResolveType DEF RejectResolve, StoreTypeOK, Terminal
  <2> QED
    BY <1>7, <2>1, <2>2 DEF RejectResolve, Advance, Return, ServerTypeOK
<1>8. ASSUME NEW h \in Handlers, HandlerError(h)
      PROVE  Goal
  <2>1. HandlersTypeOK'
    BY <1>8, ReturnType DEF HandlerError
  <2> QED
    BY <1>8, <2>1 DEF HandlerError, Return, store, StoreTypeOK, ServerTypeOK
<1>9. CASE SweepSelect
  BY <1>9 DEF SweepSelect, store, Stale, Old, StoreTypeOK, HandlersTypeOK, ServerTypeOK
<1>10. ASSUME NEW p \in Pending, SweepExpire(p)
       PROVE  Goal
  <2>1. StoreTypeOK'
    BY <1>10, ResolveType DEF SweepExpire, StoreTypeOK, Terminal
  <2> QED
    BY <1>10, <2>1 DEF SweepExpire, HandlersTypeOK, ServerTypeOK
<1>11. ASSUME NEW p \in Pending, SweepLog(p)
       PROVE  Goal
  <2>1. StoreTypeOK'
    BY <1>11, LogType DEF SweepLog, Events, store, StoreTypeOK
  <2> QED
    BY <1>11, <2>1 DEF SweepLog, HandlersTypeOK, ServerTypeOK
<1>12. CASE SweepPurge
  BY <1>12 DEF SweepPurge, SweepIdle, StoreTypeOK, HandlersTypeOK, ServerTypeOK
<1>13. CASE SweepFails \/ Crash
  <2>1. HandlersTypeOK'
    BY <1>13, AwaitType DEF SweepFails, Crash, HandlersTypeOK
  <2>2. StoreTypeOK'
    BY <1>13 DEF SweepFails, Crash, store, StoreTypeOK
  <2>3. sweep' = SweepIdle /\ up' \in BOOLEAN
    BY <1>13 DEF SweepFails, Crash, ServerTypeOK
  <2>4. faults' \in 0..MaxFaults
    BY <1>13, TimeAssumption DEF SweepFails, Crash, ServerTypeOK
  <2> QED
    BY <2>1, <2>2, <2>3, <2>4, SweepIdleType DEF ServerTypeOK
<1>14. CASE Restart \/ McpServerStart
  <2>1. StoreTypeOK'
    BY <1>14, StatusType
    DEF Restart, McpServerStart, InitDb, Released, StoreTypeOK, OpenStatus
  <2> QED
    BY <1>14, <2>1 DEF Restart, McpServerStart, server, HandlersTypeOK, ServerTypeOK
<1>15. CASE Tick
  <2>1. StoreTypeOK'
    BY <1>15, MaxAgeType DEF Tick, Older, StoreTypeOK
  <2> QED
    BY <1>15, <2>1 DEF Tick, server, HandlersTypeOK, ServerTypeOK
<1>16. CASE UNCHANGED vars
  BY <1>16 DEF vars, StoreTypeOK, HandlersTypeOK, ServerTypeOK
<1> QED
  BY <1>1, <1>2, <1>3, <1>4, <1>5, <1>6, <1>7, <1>8, <1>9, <1>10, <1>11, <1>12, <1>13,
     <1>14, <1>15, <1>16 DEF Next, HandlerStep, SweepStep

\* Every variable keeps its type, whatever interleaves.
THEOREM TypeCorrect == Spec => []TypeOK
<1>1. Init => TypeOK
  BY InitInv DEF Inv
<1> QED
  BY <1>1, TypeStep, PTL DEF Spec

-----------------------------------------------------------------------------
\* What one step can do to the status of a row and to its age.

FinalStays ==
    \A p \in Pending : status[p] \in Terminal => status'[p] = status[p] /\ age'[p] >= age[p]

OpenAges ==
    \A p \in Pending :
        status[p] \in OpenStatus /\ status'[p] \in OpenStatus => age'[p] >= age[p]

\* The only changes of a status: opened, claimed, released, decided.
Moves(p) ==
    \/ status'[p] = status[p]
    \/ status[p] = "none" /\ status'[p] = "pending" /\ p \in rows'
    \/ status[p] \in OpenStatus /\ status'[p] \in OpenStatus \union Terminal

LEMMA StoreStep ==
    ASSUME TypeOK, [Next]_vars
    PROVE  /\ \A p \in Pending : Moves(p)
           /\ FinalStays
           /\ OpenAges
<1> DEFINE Kept == status' = status /\ age' = age
           Goal == (\A p \in Pending : Moves(p)) /\ FinalStays /\ OpenAges
<1> USE DEF TypeOK
<1>0. ASSUME Kept PROVE Goal
  BY <1>0 DEF StoreTypeOK, Moves, FinalStays, OpenAges
<1>1. ASSUME NEW h \in Handlers, NEW p \in Pending, WebhookAddPending(h, p)
      PROVE  Goal
  <2>1. /\ status[p] = "none" /\ status' = [status EXCEPT ![p] = "pending"]
        /\ age' = [age EXCEPT ![p] = 0] /\ p \in rows'
    BY <1>1 DEF WebhookAddPending
  <2>2. \A q \in Pending : q # p => status'[q] = status[q] /\ age'[q] = age[q]
    BY <2>1 DEF StoreTypeOK
  <2>3. \A q \in Pending : age[q] \in Nat
    BY MaxAgeType DEF StoreTypeOK
  <2>4. status'[p] = "pending"
    BY <2>1 DEF StoreTypeOK
  <2>5. FinalStays /\ OpenAges
    BY <2>1, <2>2, <2>3 DEF FinalStays, OpenAges, OpenStatus, Terminal
  <2> QED
    BY <2>1, <2>2, <2>4, <2>5 DEF Moves
<1>2. ASSUME NEW h \in Handlers,
             \/ \E p \in Pending : ApproveGet(h, p) \/ RejectGet(h, p)
             \/ WebhookLogPending(h) \/ ApproveSign(h) \/ ApproveCount(h)
             \/ ApproveLog(h) \/ RejectLog(h) \/ HandlerError(h)
      PROVE  Kept
  BY <1>2 DEF ApproveGet, RejectGet, WebhookLogPending, ApproveSign, ApproveCount, ApproveLog,
              RejectLog, HandlerError, store
<1>3. ASSUME NEW h \in Handlers, ApproveClaim(h)
      PROVE  Goal
  <2>1. CASE Claimable(target[h])
    BY <1>3, <2>1
    DEF ApproveClaim, Claimable, StoreTypeOK, Moves, FinalStays, OpenAges, OpenStatus, Terminal
  <2>2. CASE ~Claimable(target[h])
    BY <1>0, <1>3, <2>2 DEF ApproveClaim
  <2> QED
    BY <2>1, <2>2
<1>4. ASSUME NEW q \in Pending, Open(q), NEW outcome \in Terminal, Resolve(q, outcome)
      PROVE  Goal
  BY <1>4 DEF Resolve, Open, StoreTypeOK, Moves, FinalStays, OpenAges, OpenStatus, Terminal
<1>5. ASSUME NEW h \in Handlers, ApproveRecord(h)
      PROVE  Goal
  <2>1. target[h] \in Pending
    BY <1>5 DEF ApproveRecord, Advance, Return, HandlersTypeOK
  <2>2. CASE Recordable(target[h])
    BY <1>4, <1>5, <2>1, <2>2 DEF ApproveRecord, Recordable, Open, OpenStatus, Terminal
  <2>3. CASE ~Recordable(target[h])
    BY <1>0, <1>5, <2>3 DEF ApproveRecord, store
  <2> QED
    BY <2>2, <2>3
<1>6. ASSUME NEW h \in Handlers, RejectResolve(h)
      PROVE  Goal
  <2>1. target[h] \in Pending
    BY <1>6 DEF RejectResolve, Advance, Return, HandlersTypeOK
  <2>2. CASE Resolvable(target[h])
    BY <1>4, <1>6, <2>1, <2>2 DEF RejectResolve, Resolvable, Terminal
  <2>3. CASE ~Resolvable(target[h])
    BY <1>0, <1>6, <2>3 DEF RejectResolve
  <2> QED
    BY <2>2, <2>3
<1>7. ASSUME NEW p \in Pending, SweepExpire(p)
      PROVE  Goal
  <2>1. CASE Resolvable(p)
    BY <1>4, <1>7, <2>1 DEF SweepExpire, Resolvable, Terminal
  <2>2. CASE ~Resolvable(p)
    BY <1>0, <1>7, <2>2 DEF SweepExpire
  <2> QED
    BY <2>1, <2>2
<1>8. ASSUME SweepSelect \/ SweepPurge \/ SweepFails \/ Crash \/ UNCHANGED vars
             \/ \E p \in Pending : SweepLog(p)
      PROVE  Kept
  BY <1>8 DEF SweepSelect, SweepPurge, SweepFails, Crash, SweepLog, store, vars
<1>9. CASE Restart \/ McpServerStart
  BY <1>9 DEF Restart, McpServerStart, InitDb, Reopened, Released, StoreTypeOK,
              Moves, FinalStays, OpenAges, OpenStatus, Terminal
<1>10. CASE Tick
  BY <1>10, MaxAgeType DEF Tick, Older, StoreTypeOK, Moves, FinalStays, OpenAges
<1> QED
  BY <1>0, <1>1, <1>2, <1>3, <1>5, <1>6, <1>7, <1>8, <1>9, <1>10
  DEF Next, HandlerStep, SweepStep

-----------------------------------------------------------------------------
\* The invariant is inductive: each part, over the actions that disturb it.

LEMMA RowsStep ==
    ASSUME Inv, [Next]_vars
    PROVE  RowsDecidedBeforeDeleted'
<1> USE DEF Inv, TypeOK
<1>1. \A p \in Pending : Moves(p)
  BY StoreStep
<1>2. \A p \in Pending : p \in rows' /\ p \notin rows => status'[p] # "none"
  <2>1. ASSUME NEW h \in Handlers, NEW p \in Pending, WebhookAddPending(h, p)
        PROVE  status'[p] # "none" /\ rows' = rows \union {p}
    BY <2>1 DEF WebhookAddPending, StoreTypeOK
  <2>2. (\A h \in Handlers, p \in Pending : ~WebhookAddPending(h, p)) => rows' \subseteq rows
    BY DEF Next, HandlerStep, SweepStep, ApproveGet, RejectGet, WebhookLogPending, ApproveClaim,
           ApproveSign, ApproveRecord, ApproveCount, ApproveLog, RejectResolve, RejectLog,
           HandlerError, SweepSelect, SweepExpire, SweepLog, SweepPurge, SweepFails, Crash,
           Restart, McpServerStart, InitDb, Tick, Resolve, store, vars
  <2> QED
    BY <2>1, <2>2
<1>3. ASSUME NEW p \in Pending, p \notin rows'
      PROVE  status'[p] \notin OpenStatus
  <2>1. CASE SweepPurge
    <3>1. status' = status /\ (p \in sweep.old \/ p \notin rows)
      BY <2>1, <1>3 DEF SweepPurge
    <3> QED
      BY <3>1 DEF SweepKnows, RowsDecidedBeforeDeleted, OpenStatus, Terminal
  <2>2. CASE ~SweepPurge
    <3>1. p \notin rows
      BY <1>3, <2>2 DEF Next, HandlerStep, SweepStep, WebhookAddPending, ApproveGet, RejectGet,
           WebhookLogPending, ApproveClaim, ApproveSign, ApproveRecord, ApproveCount, ApproveLog,
           RejectResolve, RejectLog, HandlerError, SweepSelect, SweepExpire, SweepLog,
           SweepFails, Crash, Restart, McpServerStart, InitDb, Tick, Resolve, store, vars
    <3>2. status[p] \notin OpenStatus
      BY <3>1 DEF RowsDecidedBeforeDeleted
    <3>3. status[p] = "none" => status'[p] = "none"
      BY <1>1, <1>3 DEF Moves, OpenStatus
    <3> QED
      BY <1>1, <3>2, <3>3 DEF Moves, OpenStatus
  <2> QED
    BY <2>1, <2>2
<1>4. ASSUME NEW p \in Pending, p \in rows
      PROVE  status'[p] # "none"
  BY <1>1, <1>4 DEF Moves, RowsDecidedBeforeDeleted, OpenStatus, Terminal
<1> QED
  BY <1>2, <1>3, <1>4 DEF RowsDecidedBeforeDeleted

LEMMA CapsuleStep ==
    ASSUME Inv, [Next]_vars
    PROVE  CapsuleIffApproved'
<1> USE DEF Inv, TypeOK
<1>1. \A p \in Pending : Moves(p) /\ (status[p] \in Terminal => status'[p] = status[p])
  BY StoreStep DEF FinalStays
<1>2. ASSUME NEW h \in Handlers, ApproveRecord(h), Recordable(target[h])
      PROVE  CapsuleIffApproved'
  <2>1. /\ target[h] \in Pending
        /\ status' = [status EXCEPT ![target[h]] = "approved"]
        /\ issued' = [issued EXCEPT ![target[h]] = @ + 1]
    BY <1>2 DEF ApproveRecord, Advance, Return, HandlersTypeOK, Resolve
  <2>2. issued[target[h]] = 0
    BY <1>2, <2>1 DEF Recordable, CapsuleIffApproved
  <2> QED
    BY <2>1, <2>2 DEF CapsuleIffApproved, StoreTypeOK
<1>3. ASSUME issued' = issued,
             \A p \in Pending : status'[p] = "approved" => status[p] = "approved"
      PROVE  CapsuleIffApproved'
  BY <1>1, <1>3 DEF CapsuleIffApproved, Terminal
<1>4. ASSUME ~(\E h \in Handlers : ApproveRecord(h) /\ Recordable(target[h]))
      PROVE  issued' = issued
  BY <1>4 DEF Next, HandlerStep, SweepStep, WebhookAddPending, ApproveGet, RejectGet,
       WebhookLogPending, ApproveClaim, ApproveSign, ApproveRecord, ApproveCount, ApproveLog,
       RejectResolve, RejectLog, HandlerError, SweepSelect, SweepExpire, SweepLog, SweepPurge,
       SweepFails, Crash, Restart, McpServerStart, InitDb, Tick, store, vars
<1>5. ASSUME ~(\E h \in Handlers : ApproveRecord(h) /\ Recordable(target[h])),
             NEW p \in Pending, status'[p] = "approved"
      PROVE  status[p] = "approved"
  <2>1. CASE \E h \in Handlers : ApproveClaim(h) \/ RejectResolve(h)
                                 \/ \E q \in Pending : WebhookAddPending(h, q)
    BY <1>5, <2>1 DEF ApproveClaim, RejectResolve, Resolve, WebhookAddPending, StoreTypeOK
  <2>2. CASE \E q \in Pending : SweepExpire(q)
    BY <1>5, <2>2 DEF SweepExpire, Resolve, StoreTypeOK
  <2>3. CASE Restart \/ McpServerStart
    BY <1>5, <2>3 DEF Restart, McpServerStart, InitDb, Released
  <2>4. CASE \/ \E h \in Handlers : \/ \E q \in Pending : ApproveGet(h, q) \/ RejectGet(h, q)
                                    \/ WebhookLogPending(h) \/ ApproveSign(h) \/ ApproveRecord(h)
                                    \/ ApproveCount(h) \/ ApproveLog(h) \/ RejectLog(h)
                                    \/ HandlerError(h)
             \/ SweepSelect \/ SweepPurge \/ SweepFails \/ Crash \/ Tick \/ UNCHANGED vars
             \/ \E q \in Pending : SweepLog(q)
    <3>1. status' = status
      BY <1>5, <2>4 DEF ApproveGet, RejectGet, WebhookLogPending, ApproveSign, ApproveRecord,
         ApproveCount, ApproveLog, RejectLog, HandlerError, SweepSelect, SweepPurge, SweepFails,
         Crash, Tick, SweepLog, store, vars
    <3> QED
      BY <1>5, <3>1
  <2> QED
    BY <2>1, <2>2, <2>3, <2>4 DEF Next, HandlerStep, SweepStep
<1> QED
  <2>1. CASE \E h \in Handlers : ApproveRecord(h) /\ Recordable(target[h])
    BY <1>2, <2>1
  <2>2. CASE ~(\E h \in Handlers : ApproveRecord(h) /\ Recordable(target[h]))
    <3>1. issued' = issued
      BY <1>4, <2>2
    <3>2. \A p \in Pending : status'[p] = "approved" => status[p] = "approved"
      BY <1>5, <2>2
    <3> QED
      BY <1>3, <3>1, <3>2
  <2> QED
    BY <2>1, <2>2

\* A step adds at most an entry that the row's status bears out.
LEMMA AuditStep ==
    ASSUME Inv, [Next]_vars
    PROVE  AuditTellsOutcome'
<1> USE DEF Inv, TypeOK
<1> DEFINE Told(p, e) == /\ e = "CAPSULE_APPROVED" => status[p] = "approved"
                         /\ e = "CAPSULE_DENIED" => status[p] = "rejected"
                         /\ e = "CAPSULE_EXPIRED" => status[p] = "expired"
<1>1. \A p \in Pending : status[p] \in Terminal => status'[p] = status[p]
  BY StoreStep DEF FinalStays
<1>2. CASE audit' = audit
  <2>1. SUFFICES ASSUME NEW p \in Pending
                 PROVE  /\ <<p, "CAPSULE_APPROVED">> \in audit => status'[p] = "approved"
                        /\ <<p, "CAPSULE_DENIED">> \in audit => status'[p] = "rejected"
                        /\ <<p, "CAPSULE_EXPIRED">> \in audit => status'[p] = "expired"
    BY <1>2 DEF AuditTellsOutcome
  <2> QED
    BY <1>1 DEF AuditTellsOutcome, Terminal
<1>3. ASSUME NEW q \in Pending, NEW e \in Events, Log(q, e), Told(q, e)
      PROVE  AuditTellsOutcome'
  <2>1. SUFFICES ASSUME NEW p \in Pending, NEW f, <<p, f>> \in audit'
                 PROVE  /\ f = "CAPSULE_APPROVED" => status'[p] = "approved"
                        /\ f = "CAPSULE_DENIED" => status'[p] = "rejected"
                        /\ f = "CAPSULE_EXPIRED" => status'[p] = "expired"
    BY DEF AuditTellsOutcome
  <2>2. <<p, f>> \in audit \/ (p = q /\ f = e)
    BY <1>3, <2>1 DEF Log
  <2>3. Told(p, f)
    BY <1>3, <2>2 DEF AuditTellsOutcome
  <2> QED
    BY <1>1, <2>3 DEF Terminal
<1>4. ASSUME NEW h \in Handlers, WebhookLogPending(h) \/ ApproveLog(h) \/ RejectLog(h)
      PROVE  AuditTellsOutcome'
  <2>1. target[h] \in Pending
    BY <1>4 DEF WebhookLogPending, ApproveLog, RejectLog, Return, HandlersTypeOK
  <2>2. CASE WebhookLogPending(h)
    BY <1>3, <2>1, <2>2 DEF WebhookLogPending, Events
  <2>3. CASE ApproveLog(h)
    <3>1. Log(target[h], "CAPSULE_APPROVED") /\ status[target[h]] = "approved"
      BY <2>3 DEF ApproveLog, Return, HandlersKnow
    <3> QED
      BY <1>3, <2>1, <3>1 DEF Events
  <2>4. CASE RejectLog(h)
    <3>1. Log(target[h], "CAPSULE_DENIED") /\ status[target[h]] = "rejected"
      BY <2>4 DEF RejectLog, Return, HandlersKnow
    <3> QED
      BY <1>3, <2>1, <3>1 DEF Events
  <2> QED
    BY <1>4, <2>2, <2>3, <2>4
<1>5. ASSUME NEW p \in Pending, SweepLog(p)
      PROVE  AuditTellsOutcome'
  <2>1. audit' = audit \/ (Log(p, "CAPSULE_EXPIRED") /\ status[p] = "expired")
    BY <1>5 DEF SweepLog, SweepKnows
  <2> QED
    BY <1>2, <1>3, <2>1 DEF Events
<1>6. ASSUME ~(\E h \in Handlers : WebhookLogPending(h) \/ ApproveLog(h) \/ RejectLog(h)),
             ~(\E p \in Pending : SweepLog(p))
      PROVE  audit' = audit
  BY <1>6 DEF Next, HandlerStep, SweepStep, WebhookAddPending, ApproveGet, RejectGet,
       ApproveClaim, ApproveSign, ApproveRecord, ApproveCount, RejectResolve, HandlerError,
       SweepSelect, SweepExpire, SweepPurge, SweepFails, Crash, Restart, McpServerStart,
       InitDb, Tick, server, vars
<1> QED
  BY <1>2, <1>4, <1>5, <1>6

LEMMA HandlersStep ==
    ASSUME Inv, [Next]_vars
    PROVE  HandlersKnow'
<1> USE DEF Inv, TypeOK
<1>1. \A p \in Pending : status[p] \in Terminal => status'[p] = status[p]
  BY StoreStep DEF FinalStays
<1> SUFFICES ASSUME NEW h \in Handlers
             PROVE  /\ at'[h] \in {"count", "log approved"} => status'[target'[h]] = "approved"
                    /\ at'[h] = "log denied" => status'[target'[h]] = "rejected"
  BY DEF HandlersKnow
<1> DEFINE Knows == /\ at'[h] \in {"count", "log approved"} => status'[target'[h]] = "approved"
                    /\ at'[h] = "log denied" => status'[target'[h]] = "rejected"
<1>2. ASSUME at'[h] = at[h], target'[h] = target[h]
      PROVE  Knows
  <2>1. at[h] # "idle" => target[h] \in Pending
    BY DEF HandlersTypeOK
  <2> QED
    BY <1>1, <1>2, <2>1 DEF HandlersKnow, Terminal
<1>3. ASSUME at'[h] \in {"idle", "log pending", "claim", "sign", "record", "resolve"}
      PROVE  Knows
  BY <1>3
<1>4. ASSUME NEW k \in Handlers, HandlerStep(k)
      PROVE  Knows
  <2>1. CASE k # h
    <3>1. at'[h] = at[h] /\ target'[h] = target[h]
      BY <1>4, <2>1 DEF HandlerStep, WebhookAddPending, ApproveGet, RejectGet, WebhookLogPending,
           ApproveClaim, ApproveSign, ApproveRecord, ApproveCount, ApproveLog, RejectResolve,
           RejectLog, HandlerError, Begin, Advance, Return, HandlersTypeOK
    <3> QED
      BY <1>2, <3>1
  <2>2. CASE k = h /\ ApproveRecord(h)
    <3>1. target[h] \in Pending
      BY <2>2 DEF ApproveRecord, Advance, Return, HandlersTypeOK
    <3>2. at'[h] \in {"idle", "count"} /\ target'[h] \in {target[h], NoPending}
      BY <2>2 DEF ApproveRecord, Advance, Return, HandlersTypeOK
    <3>3. at'[h] = "count" => status'[target'[h]] = "approved"
      BY <2>2, <3>1 DEF ApproveRecord, Advance, Return, Resolve, HandlersTypeOK, StoreTypeOK
    <3> QED
      BY <3>2, <3>3
  <2>3. CASE k = h /\ RejectResolve(h)
    <3>1. target[h] \in Pending
      BY <2>3 DEF RejectResolve, Advance, Return, HandlersTypeOK
    <3>2. at'[h] \in {"idle", "log denied"}
      BY <2>3 DEF RejectResolve, Advance, Return, HandlersTypeOK
    <3>3. at'[h] = "log denied" => status'[target'[h]] = "rejected"
      BY <2>3, <3>1 DEF RejectResolve, Advance, Return, Resolve, HandlersTypeOK, StoreTypeOK
    <3> QED
      BY <3>2, <3>3
  <2>4. CASE k = h /\ ApproveCount(h)
    <3>1. at[h] = "count" /\ at'[h] = "log approved" /\ target' = target /\ status' = status
      BY <2>4 DEF ApproveCount, Advance, store, HandlersTypeOK
    <3> QED
      BY <3>1 DEF HandlersKnow
  <2>5. CASE k = h /\ ~(ApproveRecord(h) \/ RejectResolve(h) \/ ApproveCount(h))
    <3>1. at'[h] \in {"idle", "log pending", "claim", "sign", "record", "resolve"}
      BY <1>4, <2>5 DEF HandlerStep, WebhookAddPending, ApproveGet, RejectGet, WebhookLogPending,
           ApproveClaim, ApproveSign, ApproveLog, RejectLog, HandlerError, Begin, Advance, Return,
           HandlersTypeOK
    <3> QED
      BY <1>3, <3>1
  <2> QED
    BY <2>1, <2>2, <2>3, <2>4, <2>5
<1>5. CASE Crash
  BY <1>3, <1>5 DEF Crash
<1>6. CASE SweepStep \/ SweepFails \/ Restart \/ McpServerStart \/ Tick \/ UNCHANGED vars
  <2>1. at' = at /\ target' = target
    BY <1>6 DEF SweepStep, SweepSelect, SweepExpire, SweepLog, SweepPurge, SweepFails, Restart,
                McpServerStart, Tick, server, vars
  <2> QED
    BY <1>2, <2>1
<1> QED
  BY <1>4, <1>5, <1>6 DEF Next

LEMMA SweepKnowsStep ==
    ASSUME Inv, [Next]_vars
    PROVE  SweepKnows'
<1> USE DEF Inv, TypeOK
<1>1. FinalStays /\ OpenAges /\ \A p \in Pending : Moves(p)
  BY StoreStep
<1>2. \A p \in Pending : age[p] \in Nat /\ age'[p] \in Nat
  BY TypeStep, MaxAgeType DEF StoreTypeOK
<1>3. /\ sweep.todo \subseteq Pending /\ sweep.expired \subseteq Pending
      /\ sweep.old \subseteq Pending
  BY DEF ServerTypeOK
<1>4. \A p \in sweep.old : status'[p] \in Terminal /\ age'[p] >= Retention
  BY <1>1, <1>2, <1>3, TimeAssumption DEF FinalStays, SweepKnows
<1>5. \A p \in sweep.expired : status'[p] = "expired"
  BY <1>1, <1>3 DEF FinalStays, SweepKnows, Terminal
<1>6. ASSUME NEW p \in sweep.todo, Open(p)'
      PROVE  age'[p] >= TTL
  <2>1. p \in Pending /\ status'[p] \in OpenStatus
    BY <1>3, <1>6 DEF Open
  <2>2. CASE Open(p)
    <3>1. age[p] >= TTL /\ age'[p] >= age[p]
      BY <1>1, <1>6, <2>1, <2>2 DEF SweepKnows, OpenAges, Open
    <3> QED
      BY <1>2, <2>1, <3>1, TimeAssumption
  <2>3. CASE ~Open(p)
    <3>1. status[p] \in Terminal
      BY <2>1, <2>3 DEF Open, RowsDecidedBeforeDeleted, SweepKnows, StoreTypeOK, StatusValues
    <3> QED
      BY <1>1, <2>1, <3>1 DEF FinalStays, OpenStatus, Terminal
  <2> QED
    BY <2>2, <2>3
<1>7. \A p \in sweep.todo : status'[p] # "none"
  BY <1>1, <1>3 DEF SweepKnows, Moves, OpenStatus, Terminal
<1>8. ASSUME sweep'.todo \subseteq sweep.todo, sweep'.old \subseteq sweep.old,
             \A p \in sweep'.expired : p \in sweep.expired \/ status'[p] = "expired"
      PROVE  SweepKnows'
  BY <1>4, <1>5, <1>6, <1>7, <1>8 DEF SweepKnows
<1>9. CASE sweep' = sweep
  BY <1>8, <1>9
<1>10. CASE sweep' = SweepIdle
  BY <1>10 DEF SweepKnows, SweepIdle
<1>11. CASE SweepSelect
  <2>1. /\ sweep'.todo = Stale /\ sweep'.old = Old /\ sweep'.expired = {}
        /\ UNCHANGED <<rows, status, age>>
    BY <1>11 DEF SweepSelect, store
  <2> QED
    BY <2>1 DEF SweepKnows, Stale, Old, Open, Resolved, OpenStatus
<1>12. ASSUME NEW q \in Pending, SweepExpire(q)
       PROVE  SweepKnows'
  <2>1. /\ sweep'.todo \subseteq sweep.todo /\ sweep'.old = sweep.old
        /\ sweep'.expired \subseteq sweep.expired \union {q}
    BY <1>12 DEF SweepExpire, ServerTypeOK
  <2>2. q \in sweep'.expired => q \in sweep.expired \/ status'[q] = "expired"
    BY <1>12 DEF SweepExpire, Resolve, StoreTypeOK, ServerTypeOK
  <2> QED
    BY <1>8, <2>1, <2>2
<1>13. ASSUME NEW q \in Pending, SweepLog(q)
       PROVE  SweepKnows'
  <2>1. sweep'.todo = sweep.todo /\ sweep'.old = sweep.old /\ sweep'.expired \subseteq sweep.expired
    BY <1>13 DEF SweepLog, ServerTypeOK
  <2> QED
    BY <1>8, <2>1
<1>14. ASSUME ~(SweepSelect \/ \E q \in Pending : SweepExpire(q) \/ SweepLog(q))
       PROVE  sweep' = sweep \/ sweep' = SweepIdle
  BY <1>14 DEF Next, HandlerStep, SweepStep, WebhookAddPending, ApproveGet, RejectGet,
       WebhookLogPending, ApproveClaim, ApproveSign, ApproveRecord, ApproveCount, ApproveLog,
       RejectResolve, RejectLog, HandlerError, Begin, Advance, Return, SweepPurge, SweepFails,
       Crash, Restart, McpServerStart, Tick, server, vars
<1> QED
  BY <1>9, <1>10, <1>11, <1>12, <1>13, <1>14

\* The invariant behind the theorems.
THEOREM InvHolds == Spec => []Inv
<1>1. Inv /\ [Next]_vars => Inv'
  BY TypeStep, RowsStep, CapsuleStep, AuditStep, HandlersStep, SweepKnowsStep DEF Inv
<1> QED
  BY InitInv, <1>1, PTL DEF Spec

\* One capsule for an approved request and none for any other, however the
\* approvals, rejections, sweeps, crashes and MCP starts interleave.
THEOREM OneCapsulePerApproval == Spec => []CapsuleIffApproved
<1>1. Inv => CapsuleIffApproved
  BY DEF Inv
<1> QED
  BY InvHolds, <1>1, PTL

\* A decision in the audit log is the decision that was taken.
THEOREM AuditTruthful == Spec => []AuditTellsOutcome
<1>1. Inv => AuditTellsOutcome
  BY DEF Inv
<1> QED
  BY InvHolds, <1>1, PTL

\* The sweep expires nothing before its TTL and deletes nothing before its
\* retention, although it acts on what it read before its awaits.
THEOREM RetentionHolds == Spec => RetentionRespected
<1>1. ASSUME Inv, [Next]_vars, NEW p \in Pending, status[p] # "expired", status'[p] = "expired"
      PROVE  age[p] >= TTL
  <2>1. CASE SweepExpire(p)
    BY <1>1, <2>1 DEF Inv, SweepKnows, SweepExpire, Resolvable
  <2>2. ASSUME NEW q \in Pending, q # p, SweepExpire(q)
        PROVE  FALSE
    BY <1>1, <2>2 DEF SweepExpire, Resolve, Inv, TypeOK, StoreTypeOK
  <2>3. ASSUME NEW h \in Handlers, HandlerStep(h)
        PROVE  FALSE
    BY <1>1, <2>3 DEF Inv, TypeOK, StoreTypeOK, HandlerStep, WebhookAddPending, ApproveGet,
       RejectGet, WebhookLogPending, ApproveClaim, ApproveSign, ApproveRecord, ApproveCount,
       ApproveLog, RejectResolve, RejectLog, HandlerError, Resolve, store
  <2>4. CASE Restart \/ McpServerStart
    BY <1>1, <2>4 DEF Restart, McpServerStart, InitDb, Released
  <2>5. ASSUME SweepSelect \/ SweepPurge \/ SweepFails \/ Crash \/ Tick \/ UNCHANGED vars
               \/ \E q \in Pending : SweepLog(q)
        PROVE  FALSE
    BY <1>1, <2>5 DEF SweepSelect, SweepPurge, SweepFails, Crash, Tick, SweepLog, store, vars
  <2> QED
    BY <1>1, <2>1, <2>2, <2>3, <2>4, <2>5 DEF Next, SweepStep
<1>2. ASSUME Inv, [Next]_vars, NEW p \in Pending, p \in rows \ rows'
      PROVE  status[p] \in Terminal /\ age[p] >= Retention
  <2>1. p \in sweep.old
    BY <1>2 DEF Next, HandlerStep, SweepStep, WebhookAddPending, ApproveGet, RejectGet,
       WebhookLogPending, ApproveClaim, ApproveSign, ApproveRecord, ApproveCount, ApproveLog,
       RejectResolve, RejectLog, HandlerError, SweepSelect, SweepExpire, SweepLog, SweepPurge,
       SweepFails, Crash, Restart, McpServerStart, InitDb, Tick, Resolve, store, vars
  <2> QED
    BY <1>2, <2>1 DEF Inv, SweepKnows
<1>3. Inv /\ [Next]_vars => [RetentionStep]_vars
  BY <1>1, <1>2 DEF RetentionStep
<1> QED
  BY InvHolds, <1>3, PTL DEF RetentionRespected, Spec

\* Every step of the workflow is a step of the one-decision lifecycle, or
\* invisible to it.
THEOREM ImplementsIt == Spec => ImplementsLifecycle
<1> USE DEF Lifecycle!abstractVars
<1>1. Init => Lifecycle!LifecycleInit
  BY DEF Init, Lifecycle!LifecycleInit, Decision, OpenStatus
<1>2. Inv /\ Inv' /\ [Next]_vars => [Lifecycle!LifecycleNext]_(Lifecycle!abstractVars)
  <2> SUFFICES ASSUME Inv, Inv', [Next]_vars
               PROVE  [Lifecycle!LifecycleNext]_(Lifecycle!abstractVars)
    OBVIOUS
  <2> USE DEF Inv, TypeOK
  <2> DEFINE Same == \A p \in Pending : Decision(p)' = Decision(p)
  <2>1. ASSUME Same, UNCHANGED <<issued, rows>>
        PROVE  UNCHANGED Lifecycle!abstractVars
    BY <2>1
  <2>2. ASSUME NEW h \in Handlers, NEW p \in Pending, WebhookAddPending(h, p)
        PROVE  Lifecycle!Ask(p)
    BY <2>2 DEF WebhookAddPending, Lifecycle!Ask, Decision, StoreTypeOK, OpenStatus
  <2>3. ASSUME NEW q \in Pending, Open(q), NEW outcome \in Terminal, Resolve(q, outcome),
               issued' = IF outcome = "approved" THEN [issued EXCEPT ![q] = 1] ELSE issued
        PROVE  Lifecycle!LifecycleNext
    <3>1. Lifecycle!Decide(q, outcome)
      BY <2>3 DEF Open, Resolve, Lifecycle!Decide, Decision, StoreTypeOK, OpenStatus, Terminal
    <3> QED
      BY <3>1 DEF Lifecycle!LifecycleNext, Lifecycle!Outcomes, Terminal
  <2>4. ASSUME NEW h \in Handlers, HandlerStep(h)
        PROVE  [Lifecycle!LifecycleNext]_(Lifecycle!abstractVars)
    <3>1. CASE \E p \in Pending : WebhookAddPending(h, p)
      BY <2>2, <3>1 DEF Lifecycle!LifecycleNext
    <3>2. CASE ApproveClaim(h)
      <4>1. issued' = issued /\ rows' = rows
        BY <3>2 DEF ApproveClaim
      <4>2. Same
        BY <3>2 DEF ApproveClaim, Claimable, Decision, StoreTypeOK, OpenStatus
      <4> QED
        BY <2>1, <4>1, <4>2
    <3>3. CASE ApproveRecord(h) /\ Recordable(target[h])
      <4>1. target[h] \in Pending /\ Open(target[h]) /\ Resolve(target[h], "approved")
        BY <3>3 DEF ApproveRecord, Advance, Return, Recordable, Open, OpenStatus, HandlersTypeOK
      <4>2. issued[target[h]] = 0
        BY <3>3, <4>1 DEF Recordable, CapsuleIffApproved
      <4>3. issued' = [issued EXCEPT ![target[h]] = 1]
        BY <3>3, <4>2 DEF ApproveRecord
      <4> QED
        BY <2>3, <4>1, <4>3 DEF Terminal
    <3>4. CASE RejectResolve(h) /\ Resolvable(target[h])
      <4>1. target[h] \in Pending /\ Open(target[h]) /\ Resolve(target[h], "rejected")
        BY <3>4 DEF RejectResolve, Advance, Return, Resolvable, HandlersTypeOK
      <4>2. issued' = issued
        BY <3>4 DEF RejectResolve
      <4> QED
        BY <2>3, <4>1, <4>2 DEF Terminal
    <3>5. CASE \/ \E p \in Pending : ApproveGet(h, p) \/ RejectGet(h, p)
               \/ WebhookLogPending(h) \/ ApproveSign(h) \/ ApproveCount(h) \/ ApproveLog(h)
               \/ RejectLog(h) \/ HandlerError(h)
               \/ ApproveRecord(h) /\ ~Recordable(target[h])
               \/ RejectResolve(h) /\ ~Resolvable(target[h])
      <4>1. UNCHANGED <<rows, status, issued>>
        BY <3>5 DEF ApproveGet, RejectGet, WebhookLogPending, ApproveSign, ApproveCount,
           ApproveLog, RejectLog, HandlerError, ApproveRecord, RejectResolve, store
      <4> QED
        BY <2>1, <4>1 DEF Decision
    <3> QED
      BY <2>4, <3>1, <3>2, <3>3, <3>4, <3>5 DEF HandlerStep
  <2>5. ASSUME NEW p \in Pending, SweepExpire(p)
        PROVE  [Lifecycle!LifecycleNext]_(Lifecycle!abstractVars)
    <3>1. issued' = issued
      BY <2>5 DEF SweepExpire
    <3>2. CASE Resolvable(p)
      BY <2>3, <2>5, <3>1, <3>2 DEF SweepExpire, Resolvable, Terminal
    <3>3. CASE ~Resolvable(p)
      <4>1. UNCHANGED <<rows, status>>
        BY <2>5, <3>3 DEF SweepExpire
      <4> QED
        BY <2>1, <3>1, <4>1 DEF Decision
    <3> QED
      BY <3>2, <3>3
  <2>6. CASE SweepPurge
    <3>1. UNCHANGED <<status, issued>> /\ rows' = rows \ sweep.old
      BY <2>6 DEF SweepPurge
    <3>2. sweep.old \in SUBSET Pending /\ \A p \in sweep.old : status[p] \in Terminal
      BY DEF SweepKnows, ServerTypeOK
    <3>3. Lifecycle!Forget(sweep.old)
      BY <3>1, <3>2 DEF Lifecycle!Forget, Lifecycle!Outcomes, Decision, Terminal, OpenStatus
    <3> QED
      BY <3>2, <3>3 DEF Lifecycle!LifecycleNext
  <2>7. CASE Restart \/ McpServerStart
    <3>1. issued' = issued /\ rows' = rows
      BY <2>7 DEF Restart, McpServerStart, InitDb
    <3>2. Same
      BY <2>7 DEF Restart, McpServerStart, InitDb, Reopened, Released, Decision, OpenStatus
    <3> QED
      BY <2>1, <3>1, <3>2
  <2>8. CASE SweepSelect \/ SweepFails \/ Crash \/ Tick \/ UNCHANGED vars
             \/ \E p \in Pending : SweepLog(p)
    <3>1. UNCHANGED <<rows, status, issued>>
      BY <2>8 DEF SweepSelect, SweepFails, Crash, Tick, SweepLog, store, vars
    <3> QED
      BY <2>1, <3>1 DEF Decision
  <2> QED
    BY <2>4, <2>5, <2>6, <2>7, <2>8 DEF Next, SweepStep
<1> QED
  BY <1>1, <1>2, InvHolds, PTL DEF ImplementsLifecycle, Lifecycle!LifecycleSpec, Spec
-----------------------------------------------------------------------------
\* The sweep and its lists.

\* Between two sweeps the lists are empty.
ListsAreEmptied == sweep.busy \/ sweep = SweepIdle

\* A row leaves the sweep's lists decided, or deleted, unless a fault ends the sweep.
SweepStepFinishes ==
    \A p \in Pending :
        /\ p \in sweep.todo /\ p \notin sweep'.todo => ~Open(p)' \/ faults' > faults
        /\ p \in sweep.old /\ p \notin sweep'.old => p \notin rows' \/ faults' > faults
SweepFinishes == [][SweepStepFinishes]_vars

LEMMA SweepLists ==
    ASSUME ServerTypeOK, StoreTypeOK, ListsAreEmptied, [Next]_vars
    PROVE  ListsAreEmptied' /\ SweepStepFinishes
<1>1. /\ sweep \in [busy : BOOLEAN, todo : SUBSET Pending, expired : SUBSET Pending,
                    old : SUBSET Pending]
      /\ SweepIdle.todo = {} /\ SweepIdle.expired = {} /\ SweepIdle.old = {}
  BY DEF ServerTypeOK, SweepIdle
<1>2. ASSUME sweep' = sweep
      PROVE  ListsAreEmptied' /\ SweepStepFinishes
  BY <1>2 DEF ListsAreEmptied, SweepStepFinishes
<1>3. CASE SweepSelect
  <2>1. sweep = SweepIdle /\ sweep'.busy
    BY <1>3 DEF SweepSelect, ListsAreEmptied
  <2> QED
    BY <1>1, <2>1 DEF ListsAreEmptied, SweepStepFinishes
<1>4. ASSUME NEW q \in Pending, SweepExpire(q)
      PROVE  ListsAreEmptied' /\ SweepStepFinishes
  <2>1. sweep.busy
    BY <1>1, <1>4 DEF SweepExpire, ListsAreEmptied
  <2>2. /\ sweep'.busy /\ sweep'.old = sweep.old
        /\ \A p \in sweep.todo : p # q => p \in sweep'.todo
    BY <1>1, <1>4, <2>1 DEF SweepExpire
  <2>3. ~Open(q)'
    BY <1>4 DEF SweepExpire, Resolvable, Resolve, Open, OpenStatus, StoreTypeOK
  <2> QED
    BY <2>2, <2>3 DEF ListsAreEmptied, SweepStepFinishes
<1>5. ASSUME NEW q \in Pending, SweepLog(q)
      PROVE  ListsAreEmptied' /\ SweepStepFinishes
  <2>1. sweep.busy
    BY <1>1, <1>5 DEF SweepLog, ListsAreEmptied
  <2>2. sweep'.busy /\ sweep'.old = sweep.old /\ sweep'.todo = sweep.todo
    BY <1>1, <1>5, <2>1 DEF SweepLog
  <2> QED
    BY <2>2 DEF ListsAreEmptied, SweepStepFinishes
<1>6. CASE SweepPurge
  <2>1. sweep' = SweepIdle /\ sweep.todo = {} /\ rows' = rows \ sweep.old
    BY <1>6 DEF SweepPurge
  <2> QED
    BY <2>1 DEF ListsAreEmptied, SweepStepFinishes
<1>7. CASE SweepFails \/ Crash
  <2>1. sweep' = SweepIdle /\ faults' = faults + 1
    BY <1>7 DEF SweepFails, Crash
  <2>2. faults \in Nat
    BY TimeAssumption DEF ServerTypeOK
  <2>3. faults' > faults
    BY <2>1, <2>2
  <2> QED
    BY <2>1, <2>3 DEF ListsAreEmptied, SweepStepFinishes
<1>8. ASSUME ~(SweepSelect \/ SweepPurge \/ SweepFails \/ Crash),
             ~\E q \in Pending : SweepExpire(q) \/ SweepLog(q)
      PROVE  sweep' = sweep
  BY <1>8 DEF Next, HandlerStep, SweepStep, WebhookAddPending, ApproveGet, RejectGet,
       WebhookLogPending, ApproveClaim, ApproveSign, ApproveRecord, ApproveCount, ApproveLog,
       RejectResolve, RejectLog, HandlerError, Begin, Advance, Return, Restart, McpServerStart,
       Tick, server, vars
<1> QED
  BY <1>2, <1>3, <1>4, <1>5, <1>6, <1>7, <1>8

\* The safety part of EveryRequestDecided and ResolvedRowsPurged: what a sweep found stale is
\* decided when the sweep is done with it, and what it found old is deleted, by the sweep or
\* by somebody who was faster, unless an exception or a crash ends the sweep, whatever
\* handlers, restarts and MCP starts do between its awaits (pending_store.py).
THEOREM SweepFinishesItsLists == Spec => SweepFinishes
<1>1. Init => TypeOK /\ ListsAreEmptied
  BY InitInv DEF Inv, Init, ListsAreEmptied
<1>2. TypeOK /\ ListsAreEmptied /\ [Next]_vars => (TypeOK /\ ListsAreEmptied)'
  BY TypeStep, SweepLists DEF TypeOK
<1>3. TypeOK /\ ListsAreEmptied /\ [Next]_vars => [SweepStepFinishes]_vars
  BY SweepLists DEF TypeOK
<1> QED
  BY <1>1, <1>2, <1>3, PTL DEF Spec, SweepFinishes

-----------------------------------------------------------------------------
\* The API server, while no MCP server starts on its file.

AloneNext ==
    \/ \E h \in Handlers : HandlerStep(h)
    \/ SweepStep \/ SweepFails \/ Crash \/ Restart \/ Tick
AloneSpec == Init /\ [][AloneNext]_vars

Signing(h) == at[h] \in {"sign", "record"}

\* A row whose capsule is being signed is claimed, or decided by somebody else, and a
\* stopped server signs nothing.
ClaimsHold ==
    /\ \A h \in Handlers : Signing(h) => status[target[h]] \notin {"none", "pending"}
    /\ up \/ \A h \in Handlers : at[h] = "idle"

\* No step of a running server makes a claimed or decided row claimable.
ClaimedStays ==
    \A p \in Pending : status[p] \notin {"none", "pending"} => status'[p] \notin {"none", "pending"}

LEMMA AloneStays ==
    ASSUME TypeOK,
           \/ \E h \in Handlers : HandlerStep(h)
           \/ SweepStep \/ SweepFails \/ Tick \/ UNCHANGED vars
    PROVE  ClaimedStays
<1> USE DEF TypeOK, StoreTypeOK
<1>1. ASSUME NEW p \in Pending, status[p] \notin {"none", "pending"}
      PROVE  status'[p] \notin {"none", "pending"}
  <2>1. ASSUME NEW h \in Handlers, HandlerStep(h)
        PROVE  status'[p] \notin {"none", "pending"}
    BY <1>1, <2>1 DEF HandlerStep, WebhookAddPending, ApproveGet, RejectGet, WebhookLogPending,
       ApproveClaim, ApproveSign, ApproveRecord, ApproveCount, ApproveLog, RejectResolve,
       RejectLog, HandlerError, Resolve, store
  <2>2. CASE SweepStep \/ SweepFails \/ Tick \/ UNCHANGED vars
    BY <1>1, <2>2 DEF SweepStep, SweepSelect, SweepExpire, SweepLog, SweepPurge, SweepFails, Tick,
       Resolve, store, vars
  <2> QED
    BY <2>1, <2>2
<1> QED
  BY <1>1 DEF ClaimedStays

\* Who comes to sign claimed the row itself.
Claims(k) == at[k] = "claim" /\ Claimable(target[k]) /\ status'[target[k]] = "processing"

LEMMA HandlerSigns ==
    ASSUME TypeOK, NEW k \in Handlers, HandlerStep(k)
    PROVE  /\ \A h \in Handlers : h # k => at'[h] = at[h] /\ target'[h] = target[h]
           /\ Signing(k)' => target'[k] = target[k] /\ (Signing(k) \/ Claims(k))
           /\ up /\ up' = up
<1> USE DEF TypeOK, HandlersTypeOK
<1>1. \A h \in Handlers : h # k => at'[h] = at[h] /\ target'[h] = target[h]
  BY DEF HandlerStep, WebhookAddPending, ApproveGet, RejectGet, WebhookLogPending,
         ApproveClaim, ApproveSign, ApproveRecord, ApproveCount, ApproveLog, RejectResolve,
         RejectLog, HandlerError, Begin, Advance, Return
<1>2. up /\ up' = up
  BY DEF HandlerStep, WebhookAddPending, ApproveGet, RejectGet, WebhookLogPending,
         ApproveClaim, ApproveSign, ApproveRecord, ApproveCount, ApproveLog, RejectResolve,
         RejectLog, HandlerError, Begin, Advance, Return
<1>3. CASE ApproveClaim(k)
  <2>1. target[k] \in Pending
    BY <1>3 DEF ApproveClaim, Advance, Return
  <2>2. Signing(k)' => Claims(k) /\ target'[k] = target[k]
    BY <1>3, <2>1 DEF ApproveClaim, Advance, Return, Signing, Claims, StoreTypeOK
  <2> QED
    BY <1>1, <1>2, <2>2
<1>4. CASE ApproveSign(k)
  BY <1>1, <1>2, <1>4 DEF ApproveSign, Advance, Signing
<1>5. CASE ~ApproveClaim(k) /\ ~ApproveSign(k)
  <2>1. ~Signing(k)'
    BY <1>5 DEF HandlerStep, WebhookAddPending, ApproveGet, RejectGet, WebhookLogPending,
       ApproveRecord, ApproveCount, ApproveLog, RejectResolve, RejectLog, HandlerError, Begin,
       Advance, Return, Signing
  <2> QED
    BY <1>1, <1>2, <2>1
<1> QED
  BY <1>3, <1>4, <1>5

LEMMA ClaimsStep ==
    ASSUME TypeOK, ClaimsHold, ClaimIsExclusive, [AloneNext]_vars
    PROVE  ClaimsHold' /\ ClaimIsExclusive'
<1>1. \A h \in Handlers : Signing(h) => target[h] \in Pending
  BY DEF TypeOK, HandlersTypeOK, Signing
<1>2. \A h, k \in Handlers : h # k /\ Signing(h) /\ Signing(k) => target[h] # target[k]
  BY DEF ClaimIsExclusive, Signing
<1>3. ASSUME \A h, k \in Handlers : h # k /\ Signing(h)' /\ Signing(k)' => target'[h] # target'[k]
      PROVE  ClaimIsExclusive'
  BY <1>3 DEF ClaimIsExclusive, Signing
<1>4. ASSUME NEW k \in Handlers, HandlerStep(k)
      PROVE  ClaimsHold' /\ ClaimIsExclusive'
  <2>1. /\ \A h \in Handlers : h # k => at'[h] = at[h] /\ target'[h] = target[h]
        /\ Signing(k)' => target'[k] = target[k] /\ (Signing(k) \/ Claims(k))
        /\ up /\ up' = up
    BY <1>4, HandlerSigns
  <2>2. ClaimedStays
    BY <1>4, AloneStays
  <2>3. \A h \in Handlers : h # k => (Signing(h)' <=> Signing(h))
    BY <2>1 DEF Signing
  <2>4. \A h \in Handlers : Signing(h)' => status'[target'[h]] \notin {"none", "pending"}
    BY <1>1, <2>1, <2>2, <2>3 DEF ClaimsHold, ClaimedStays, Claims
  <2>5. ASSUME NEW h \in Handlers, h # k, Signing(h)', Signing(k)'
        PROVE  target'[h] # target'[k]
    <3>1. Signing(h) /\ target'[h] = target[h] /\ target'[k] = target[k]
      BY <2>1, <2>3, <2>5
    <3>2. CASE Signing(k)
      BY <1>2, <2>5, <3>1, <3>2
    <3>3. CASE Claims(k)
      BY <3>1, <3>3 DEF Claims, Claimable, ClaimsHold
    <3> QED
      BY <2>1, <2>5, <3>2, <3>3
  <2>6. ASSUME NEW h \in Handlers, NEW g \in Handlers, h # g, Signing(h)', Signing(g)'
        PROVE  target'[h] # target'[g]
    <3>1. CASE h = k \/ g = k
      BY <2>5, <2>6, <3>1
    <3>2. CASE h # k /\ g # k
      BY <1>2, <2>1, <2>3, <2>6, <3>2
    <3> QED
      BY <3>1, <3>2
  <2>7. ClaimIsExclusive'
    BY <1>3, <2>6
  <2> QED
    BY <2>1, <2>4, <2>7 DEF ClaimsHold
<1>5. CASE SweepStep \/ SweepFails \/ Tick \/ UNCHANGED vars
  <2>1. UNCHANGED <<at, target, up>>
    BY <1>5 DEF SweepStep, SweepSelect, SweepExpire, SweepLog, SweepPurge, SweepFails, Tick,
       server, vars
  <2>2. ClaimedStays
    BY <1>5, AloneStays
  <2>3. \A h \in Handlers : Signing(h)' => status'[target'[h]] \notin {"none", "pending"}
    BY <1>1, <2>1, <2>2 DEF ClaimsHold, ClaimedStays, Signing
  <2> QED
    BY <1>2, <1>3, <2>1, <2>3 DEF ClaimsHold, Signing
<1>6. CASE Crash \/ Restart
  <2>1. \A h \in Handlers : at'[h] = "idle"
    BY <1>6 DEF Crash, Restart, ClaimsHold
  <2>2. \A h \in Handlers : ~Signing(h)'
    BY <2>1 DEF Signing
  <2> QED
    BY <1>3, <2>1, <2>2 DEF ClaimsHold
<1> QED
  BY <1>4, <1>5, <1>6 DEF AloneNext

\* What the docstring of try_claim_pending says holds of the API server by itself, whatever
\* its handlers, its sweep and its own restarts do: the start of an MCP server on the same
\* file is the only way two approvals come to sign for one request.
THEOREM ClaimsAreExclusiveAlone == AloneSpec => []ClaimIsExclusive
<1>1. Init => TypeOK /\ ClaimsHold /\ ClaimIsExclusive
  <2>1. ASSUME Init
        PROVE  \A h \in Handlers : at[h] = "idle"
    BY <2>1 DEF Init
  <2> QED
    BY <2>1, InitInv DEF Inv, Init, ClaimsHold, ClaimIsExclusive, Signing
<1>2. [AloneNext]_vars => [Next]_vars
  BY DEF AloneNext, Next
<1>3. TypeOK /\ ClaimsHold /\ ClaimIsExclusive /\ [AloneNext]_vars =>
          (TypeOK /\ ClaimsHold /\ ClaimIsExclusive)'
  BY <1>2, TypeStep, ClaimsStep
<1> QED
  BY <1>1, <1>3, PTL DEF AloneSpec
=============================================================================
