-------------------------- MODULE SessionGate_proofs --------------------------
(***************************************************************************)
(* Proofs about SessionGate, for every set of requests, of threads and of  *)
(* tools, every limit of the gate and any number of crashes.               *)
(***************************************************************************)
EXTENDS SessionGate, FiniteSetTheorems, TLAPS

-----------------------------------------------------------------------------
\* The inductive invariant.

\* The history is finite, so that its tools can be counted.
FiniteHistory == IsFiniteSet(recent) /\ IsFiniteSet(disk)

\* What is in memory and not on disk is of a thread the next persist writes.
UnsavedIsDirty == \A r \in recent : r \in disk \/ Thread[r] \in dirty

\* A crash leaves no handler between two calls.
DownIsQuiet == up \/ \A r \in Requests : at[r] \in {"new", "pending", "end"}

\* Who let a request pass and whether its capsule is in force, by how far its handler is.
PlaceOK(r) ==
    /\ at[r] \in {"new", "dedup", "compile", "get", "pending"} => path[r] = "none"
    /\ at[r] \in {"approved", "approval"} => path[r] = "human"
    /\ at[r] \in {"record", "persist", "log"} => path[r] # "none"
    /\ at[r] = "issue" => path[r] = "policy"
    /\ r \in active => path[r] # "none" /\ (path[r] = "policy" => at[r] \in {"log", "end"})
    /\ path[r] = "human" => r \in active
    /\ at[r] = "log" => r \in active
    /\ r \in logged => at[r] = "end" /\ r \in active

\* Where a capsule of the window is counted, by how far its handler is.
CountedOK(r) ==
    InWindow(r) =>
        /\ at[r] = "persist" => r \in recent \union wiped
        /\ \/ at[r] \in {"issue", "log"}
           \/ r \in logged
           \/ r \in active /\ path[r] = "policy"
           => r \in disk \union wiped

GateInv ==
    /\ TypeOK /\ FiniteHistory
    /\ SavedStaysCounted /\ ToolCountAgrees /\ UnsavedIsDirty /\ DownIsQuiet
    /\ \A r \in Requests : PlaceOK(r) /\ CountedOK(r)
-----------------------------------------------------------------------------
\* Counting tools.

LEMMA CountIsNumber ==
    ASSUME NEW s, s \subseteq Requests, IsFiniteSet(s)
    PROVE  ToolCount(s) \in Nat
<1> DEFINE granted == {Tools[r] : r \in s}
           f == [r \in s |-> Tools[r]]
<1>1. f \in Surjection(s, granted)
  BY DEF Surjection
<1>2. IsFiniteSet(granted)
  BY <1>1, FS_Surjection
<1>3. \A T \in granted : IsFiniteSet(T)
  BY GateAssumption
<1>4. IsFiniteSet(UNION granted)
  BY <1>2, <1>3, FS_UNION
<1>5. Cardinality(UNION granted) \in Nat
  BY <1>4, FS_CardinalityType
<1> QED
  BY <1>5 DEF ToolCount

LEMMA FiniteThread ==
    ASSUME NEW s, s \subseteq Requests, IsFiniteSet(s), NEW t
    PROVE  /\ OfThread(s, t) \subseteq Requests /\ OfThread(s, t) \subseteq s
           /\ IsFiniteSet(OfThread(s, t)) /\ ToolCount(OfThread(s, t)) \in Nat
<1>1. OfThread(s, t) \subseteq s
  BY DEF OfThread
<1>2. IsFiniteSet(OfThread(s, t))
  BY <1>1, FS_Subset
<1> QED
  BY <1>1, <1>2, CountIsNumber

LEMMA WindowFacts ==
    /\ Window \in Nat /\ MaxCrashes \in Nat /\ NoRequest \notin Requests
    /\ Thread \in [Requests -> Threads]
  BY GateAssumption

\* TypeOK, conjunct by conjunct.
LEMMA Types ==
    ASSUME GateInv
    PROVE  /\ recent \subseteq Requests /\ toolKeys \subseteq Requests
           /\ uniqueTools \in [Threads -> Nat] /\ streak \in [Threads -> Nat]
           /\ dirty \subseteq Threads
           /\ disk \subseteq Requests /\ active \subseteq Requests
           /\ logged \subseteq active
           /\ age \in [Requests -> 0..(Window + 1)]
           /\ path \in [Requests -> {"none", "policy", "human"}]
           /\ at \in [Requests -> Places]
           /\ holder \in Requests \union {NoRequest}
           /\ waiting \in Seq(Requests)
           /\ up \in BOOLEAN /\ crashes \in 0..MaxCrashes
           /\ wiped \subseteq Requests
           /\ IsFiniteSet(recent) /\ IsFiniteSet(disk)
  BY DEF GateInv, TypeOK, FiniteHistory

-----------------------------------------------------------------------------
\* record_capsule.

LEMMA RecordHistory ==
    ASSUME GateInv, NEW r \in Requests, RecordCapsule(r)
    PROVE  /\ recent' \subseteq Requests /\ IsFiniteSet(recent')
           /\ r \in recent' /\ Thread[r] \in Threads
           /\ dirty' \subseteq Threads /\ Thread[r] \in dirty' /\ dirty \subseteq dirty'
           /\ age' \in [Requests -> 0..(Window + 1)]
           /\ \A x \in recent' : x = r \/ x \in recent
           /\ \A x \in Requests : x # r => age'[x] = age[x]
           /\ \A x \in recent : InWindow(x)' => x \in recent'
           /\ \A t \in Threads : t # Thread[r] => OfThread(recent', t) = OfThread(recent, t)
<1> DEFINE kept == Pruned(Thread[r]) \union {r}
<1>1. /\ recent' = (recent \ OfThread(recent, Thread[r])) \union kept
      /\ dirty' = dirty \union {Thread[r]}
      /\ age' = [age EXCEPT ![r] = 0]
  BY DEF RecordCapsule
<1>2. Thread[r] \in Threads /\ age \in [Requests -> 0..(Window + 1)] /\ dirty \subseteq Threads
      /\ recent \subseteq Requests /\ IsFiniteSet(recent)
  BY WindowFacts, Types
<1>3. \A x \in Pruned(Thread[r]) : x \in recent /\ Thread[x] = Thread[r]
  BY DEF Pruned, OfThread
<1>4. recent' \subseteq recent \union {r}
  BY <1>1, <1>3
<1>5. IsFiniteSet(recent')
  <2>1. IsFiniteSet(recent \union {r})
    BY <1>2, FS_AddElement
  <2> QED
    BY <1>4, <2>1, FS_Subset
<1>6. age' \in [Requests -> 0..(Window + 1)] /\ \A x \in Requests : x # r => age'[x] = age[x]
  BY <1>1, <1>2, WindowFacts
<1>7. \A x \in recent : InWindow(x)' => x \in recent'
  <2> TAKE x \in recent
  <2> HAVE InWindow(x)'
  <2>1. CASE x = r \/ Thread[x] # Thread[r]
    BY <1>1, <2>1 DEF OfThread
  <2>2. CASE x # r /\ Thread[x] = Thread[r]
    <3>1. InWindow(x)
      BY <1>2, <1>6, <2>2 DEF InWindow
    <3> QED
      BY <1>1, <2>2, <3>1 DEF Pruned, OfThread
  <2> QED
    BY <2>1, <2>2
<1>8. \A t \in Threads : t # Thread[r] => OfThread(recent', t) = OfThread(recent, t)
  BY <1>1, <1>3 DEF OfThread
<1> QED
  BY <1>1, <1>2, <1>4, <1>5, <1>6, <1>7, <1>8

LEMMA RecordTools ==
    ASSUME GateInv, up, NEW r \in Requests, RecordCapsule(r)
    PROVE  /\ toolKeys' = recent'
           /\ uniqueTools' \in [Threads -> Nat] /\ streak' \in [Threads -> Nat]
           /\ \A t \in Threads : uniqueTools'[t] = ToolCount(OfThread(recent', t))
<1> DEFINE t == Thread[r]
           kept == Pruned(t) \union {r}
           keys == {x \in toolKeys : Thread[x] = t => x \in kept} \union {r}
<1>1. /\ recent' = (recent \ OfThread(recent, t)) \union kept
      /\ toolKeys' = keys
      /\ uniqueTools' = [uniqueTools EXCEPT ![t] = ToolCount(OfThread(keys, t))]
      /\ streak' = [streak EXCEPT ![t] = IF HighScope(r) THEN @ + 1 ELSE 0]
  BY DEF RecordCapsule
<1>2. /\ toolKeys = recent
      /\ \A u \in Threads : uniqueTools[u] = ToolCount(OfThread(recent, u))
  BY DEF GateInv, ToolCountAgrees
<1>3. toolKeys' = recent'
  BY <1>1, <1>2 DEF Pruned, OfThread
<1>4. recent' \subseteq Requests /\ IsFiniteSet(recent') /\ t \in Threads
      /\ \A u \in Threads : u # t => OfThread(recent', u) = OfThread(recent, u)
  BY RecordHistory
<1>5. ToolCount(OfThread(recent', t)) \in Nat
  BY <1>4, FiniteThread
<1>6. uniqueTools' = [uniqueTools EXCEPT ![t] = ToolCount(OfThread(recent', t))]
  BY <1>1, <1>3
<1>7. uniqueTools' \in [Threads -> Nat] /\ streak' \in [Threads -> Nat]
  BY <1>1, <1>4, <1>5, <1>6, Types
<1>8. \A u \in Threads : uniqueTools'[u] = ToolCount(OfThread(recent', u))
  BY <1>2, <1>4, <1>6, Types
<1> QED
  BY <1>3, <1>7, <1>8

-----------------------------------------------------------------------------
\* What a handler does when it arrives at a call of the tracker, or is woken for it.

Handled(r) ==
    \E place \in {"compile", "pending"} \union LockCalls, who \in {"none", "policy", "human"} :
        /\ up /\ at[r] \in {"new", "compile", "approved"} \union LockCalls
        /\ at' = [at EXCEPT ![r] = place]
        /\ path' = [path EXCEPT ![r] = who]
        /\ \/ UNCHANGED <<memory, age>>
           \/ /\ UNCHANGED <<recent, toolKeys, uniqueTools, streak, age>>
              /\ dirty' = dirty \union {Thread[r]}
           \/ RecordCapsule(r)
        /\ UNCHANGED Suspended
        /\ holder' \in {holder, r} /\ waiting' \in Seq(Requests)
        /\ place \in {"dedup", "compile", "get", "pending"} => who = "none"
        /\ place = "approval" => who = "human"
        /\ place \in {"record", "persist"} => who # "none"
        /\ path[r] = "human" <=> who = "human"
        /\ path[r] = "policy" => who = "policy"
        /\ place = "persist" => RecordCapsule(r) \/ at[r] = "persist"

LEMMA HandledMemory ==
    ASSUME GateInv, NEW r \in Requests, Handled(r)
    PROVE  /\ recent' \subseteq Requests /\ toolKeys' \subseteq Requests
           /\ uniqueTools' \in [Threads -> Nat] /\ streak' \in [Threads -> Nat]
           /\ dirty' \subseteq Threads /\ IsFiniteSet(recent')
           /\ age' \in [Requests -> 0..(Window + 1)]
           /\ ToolCountAgrees' /\ UnsavedIsDirty' /\ SavedStaysCounted'
           /\ \A x \in Requests : x # r => age'[x] = age[x]
           /\ \A x \in recent : InWindow(x)' => x \in recent'
<1>1. /\ up /\ up' = up /\ disk' = disk /\ wiped' = wiped
      /\ \/ UNCHANGED <<memory, age>>
         \/ /\ UNCHANGED <<recent, toolKeys, uniqueTools, streak, age>>
            /\ dirty' = dirty \union {Thread[r]}
         \/ RecordCapsule(r)
  BY DEF Handled, Suspended, database
<1>2. SavedStaysCounted /\ ToolCountAgrees /\ UnsavedIsDirty /\ Thread[r] \in Threads
  BY WindowFacts DEF GateInv
<1>3. CASE /\ UNCHANGED <<recent, toolKeys, uniqueTools, streak, age>>
           /\ dirty' \in {dirty, dirty \union {Thread[r]}}
  <2>1. ToolCountAgrees'
    BY <1>1, <1>2, <1>3 DEF ToolCountAgrees
  <2>2. UnsavedIsDirty' /\ SavedStaysCounted'
    BY <1>1, <1>2, <1>3 DEF UnsavedIsDirty, SavedStaysCounted, InWindow
  <2> QED
    BY <1>2, <1>3, <2>1, <2>2, Types
<1>4. CASE RecordCapsule(r)
  <2>1. /\ recent' \subseteq Requests /\ IsFiniteSet(recent')
        /\ r \in recent' /\ Thread[r] \in Threads
        /\ dirty' \subseteq Threads /\ Thread[r] \in dirty' /\ dirty \subseteq dirty'
        /\ age' \in [Requests -> 0..(Window + 1)]
        /\ \A x \in recent' : x = r \/ x \in recent
        /\ \A x \in Requests : x # r => age'[x] = age[x]
        /\ \A x \in recent : InWindow(x)' => x \in recent'
    BY <1>4, RecordHistory
  <2>2. /\ toolKeys' = recent'
        /\ uniqueTools' \in [Threads -> Nat] /\ streak' \in [Threads -> Nat]
        /\ \A t \in Threads : uniqueTools'[t] = ToolCount(OfThread(recent', t))
    BY <1>1, <1>4, RecordTools
  <2>3. ToolCountAgrees'
    BY <2>2 DEF ToolCountAgrees
  <2>4. UnsavedIsDirty'
    BY <1>1, <1>2, <2>1 DEF UnsavedIsDirty
  <2>5. SavedStaysCounted'
    <3> SUFFICES ASSUME NEW x \in disk, InWindow(x)'
                 PROVE  x \in recent' \union wiped
      BY <1>1 DEF SavedStaysCounted
    <3>1. CASE x = r
      BY <2>1, <3>1
    <3>2. CASE x # r
      BY <1>1, <1>2, <2>1, <3>2, Types DEF SavedStaysCounted, InWindow
    <3> QED
      BY <3>1, <3>2
  <2> QED
    BY <2>1, <2>2, <2>3, <2>4, <2>5
<1> QED
  BY <1>1, <1>3, <1>4 DEF memory

LEMMA HandledInv ==
    ASSUME GateInv, NEW r \in Requests, Handled(r)
    PROVE  GateInv'
<1>1. PICK place \in {"compile", "pending"} \union LockCalls, who \in {"none", "policy", "human"} :
        /\ at[r] \in {"new", "compile", "approved"} \union LockCalls
        /\ at' = [at EXCEPT ![r] = place]
        /\ path' = [path EXCEPT ![r] = who]
        /\ UNCHANGED Suspended
        /\ holder' \in {holder, r} /\ waiting' \in Seq(Requests)
        /\ place \in {"dedup", "compile", "get", "pending"} => who = "none"
        /\ place = "approval" => who = "human"
        /\ place \in {"record", "persist"} => who # "none"
        /\ path[r] = "human" <=> who = "human"
        /\ path[r] = "policy" => who = "policy"
        /\ place = "persist" => RecordCapsule(r) \/ at[r] = "persist"
  BY DEF Handled
<1>2. /\ recent' \subseteq Requests /\ toolKeys' \subseteq Requests
      /\ uniqueTools' \in [Threads -> Nat] /\ streak' \in [Threads -> Nat]
      /\ dirty' \subseteq Threads /\ IsFiniteSet(recent')
      /\ age' \in [Requests -> 0..(Window + 1)]
      /\ ToolCountAgrees' /\ UnsavedIsDirty' /\ SavedStaysCounted'
      /\ \A x \in Requests : x # r => age'[x] = age[x]
      /\ \A x \in recent : InWindow(x)' => x \in recent'
  BY HandledMemory
<1>3. UNCHANGED <<disk, active, logged, up, crashes, wiped>> /\ up
  BY <1>1 DEF Suspended, database, Handled
<1>4. TypeOK' /\ FiniteHistory'
  <2>1. place \in Places
    BY DEF Places, LockCalls
  <2>2. at' \in [Requests -> Places] /\ path' \in [Requests -> {"none", "policy", "human"}]
    BY <1>1, <2>1, Types
  <2>3. holder' \in Requests \union {NoRequest} /\ waiting' \in Seq(Requests)
    BY <1>1, Types
  <2>4. /\ disk' \subseteq Requests /\ active' \subseteq Requests /\ logged' \subseteq active'
        /\ up' \in BOOLEAN /\ crashes' \in 0..MaxCrashes /\ wiped' \subseteq Requests
        /\ IsFiniteSet(disk')
    BY <1>3, Types
  <2> QED
    BY <1>2, <2>2, <2>3, <2>4 DEF TypeOK, FiniteHistory
<1>5. PlaceOK(r) /\ at'[r] = place /\ path'[r] = who
      /\ at[r] \in {"new", "compile", "approved", "dedup", "get", "approval", "record", "persist"}
      /\ place \in {"compile", "pending", "dedup", "get", "approval", "record", "persist"}
  BY <1>1, Types DEF GateInv, LockCalls
<1>6. r \notin logged /\ (r \in active => path[r] = "human")
      /\ (path[r] = "human" => r \in active)
  BY <1>5, Types DEF PlaceOK
<1>7. PlaceOK(r)'
  BY <1>1, <1>3, <1>5, <1>6 DEF PlaceOK
<1>8. CountedOK(r)'
  <2> SUFFICES ASSUME InWindow(r)'
               PROVE  place = "persist" => r \in recent' \union wiped
    BY <1>1, <1>3, <1>5, <1>6, <1>7 DEF CountedOK, PlaceOK
  <2>1. CASE RecordCapsule(r)
    BY <2>1, RecordHistory
  <2>2. CASE at[r] = "persist" /\ ~RecordCapsule(r)
    <3>1. age' = age /\ recent' = recent
      BY <2>2 DEF Handled, memory
    <3>2. CountedOK(r) /\ InWindow(r)
      BY <3>1 DEF GateInv, InWindow
    <3> QED
      BY <2>2, <3>1, <3>2 DEF CountedOK
  <2> QED
    BY <1>1, <2>1, <2>2
<1>9. ASSUME NEW x \in Requests \ {r}
      PROVE  PlaceOK(x)' /\ CountedOK(x)'
  <2>1. at'[x] = at[x] /\ path'[x] = path[x] /\ age'[x] = age[x]
    BY <1>1, <1>2, Types
  <2>2. PlaceOK(x) /\ CountedOK(x)
    BY DEF GateInv
  <2>3. PlaceOK(x)'
    BY <1>3, <2>1, <2>2 DEF PlaceOK
  <2>4. InWindow(x)' <=> InWindow(x)
    BY <2>1 DEF InWindow
  <2>5. CountedOK(x)'
    BY <1>2, <1>3, <2>1, <2>2, <2>4 DEF CountedOK
  <2> QED
    BY <2>3, <2>5
<1>10. DownIsQuiet'
  BY <1>3 DEF DownIsQuiet
<1> QED
  BY <1>2, <1>4, <1>7, <1>8, <1>9, <1>10 DEF GateInv
-----------------------------------------------------------------------------
\* The calls of the tracker.

\* The premises all of them share.
Runs(r, rest) ==
    GateInv /\ up /\ UNCHANGED Suspended /\ r \in Requests /\ rest \in Seq(Requests)

LEMMA AppendWaits ==
    ASSUME NEW r \in Requests, NEW rest \in Seq(Requests)
    PROVE  Append(rest, r) \in Seq(Requests)
  OBVIOUS

\* A call that moves the handler and touches neither the tracker nor its path.
LEMMA MovesHandled ==
    ASSUME NEW r, NEW rest, Runs(r, rest), NEW place \in LockCalls \union {"compile", "pending"},
           at[r] \in {"new", "compile", "approved"} \union LockCalls,
           Goes(r, place), UNCHANGED <<memory, age, path>>,
           holder' \in {holder, r}, waiting' \in Seq(Requests),
           place \in {"dedup", "compile", "get", "pending"} => path[r] = "none",
           place = "approval" => path[r] = "human",
           place \in {"record", "persist"} => path[r] # "none",
           place = "persist" => at[r] = "persist"
    PROVE  Handled(r)
<1>1. path \in [Requests -> {"none", "policy", "human"}] /\ r \in Requests
  BY Types DEF Runs
<1>2. path' = [path EXCEPT ![r] = path[r]] /\ path[r] \in {"none", "policy", "human"}
  BY <1>1
<1>3. at' = [at EXCEPT ![r] = place]
  BY DEF Goes
<1>4. UNCHANGED <<memory, age>> /\ up /\ UNCHANGED Suspended
  BY DEF Runs
<1> QED
  BY <1>2, <1>3, <1>4 DEF Handled

\* A call that records the capsule, or queues for it or after it.
LEMMA RecordHandled ==
    ASSUME NEW r, NEW rest, Runs(r, rest), NEW who \in {"policy", "human"},
           path' = [path EXCEPT ![r] = who], path[r] = who \/ (path[r] = "none" /\ who = "policy"),
           at[r] \in {"new", "compile", "approved"} \union LockCalls,
           \/ RecordCapsule(r) /\ Goes(r, "persist")
           \/ Goes(r, "record") /\ UNCHANGED <<memory, age>>
           \/ /\ Goes(r, "record") /\ dirty' = dirty \union {Thread[r]}
              /\ UNCHANGED <<recent, toolKeys, uniqueTools, streak, age>>,
           holder' \in {holder, r}, waiting' \in Seq(Requests)
    PROVE  Handled(r)
<1>1. up /\ UNCHANGED Suspended
  BY DEF Runs
<1>2. "record" \in LockCalls /\ "persist" \in LockCalls
  BY DEF LockCalls
<1>3. ASSUME NEW place \in {"record", "persist"}, at' = [at EXCEPT ![r] = place],
             \/ UNCHANGED <<memory, age>>
             \/ /\ UNCHANGED <<recent, toolKeys, uniqueTools, streak, age>>
                /\ dirty' = dirty \union {Thread[r]}
             \/ RecordCapsule(r),
             place = "persist" => RecordCapsule(r)
      PROVE  Handled(r)
  <2>1. /\ place \in {"compile", "pending"} \union LockCalls /\ who \in {"none", "policy", "human"}
        /\ who # "none" /\ place \notin {"dedup", "compile", "get", "pending"}
        /\ place # "approval"
        /\ path[r] = "human" <=> who = "human"
        /\ path[r] = "policy" => who = "policy"
    BY <1>2
  <2> SUFFICES /\ up /\ at[r] \in {"new", "compile", "approved"} \union LockCalls
               /\ at' = [at EXCEPT ![r] = place]
               /\ path' = [path EXCEPT ![r] = who]
               /\ \/ UNCHANGED <<memory, age>>
                  \/ /\ UNCHANGED <<recent, toolKeys, uniqueTools, streak, age>>
                     /\ dirty' = dirty \union {Thread[r]}
                  \/ RecordCapsule(r)
               /\ UNCHANGED Suspended
               /\ holder' \in {holder, r} /\ waiting' \in Seq(Requests)
               /\ place = "persist" => RecordCapsule(r) \/ at[r] = "persist"
    BY <2>1 DEF Handled
  <2> QED
    BY <1>1, <1>3
<1>4. CASE RecordCapsule(r) /\ at' = [at EXCEPT ![r] = "persist"]
  BY <1>3, <1>4
<1>5. CASE /\ at' = [at EXCEPT ![r] = "record"]
           /\ \/ UNCHANGED <<memory, age>>
              \/ /\ UNCHANGED <<recent, toolKeys, uniqueTools, streak, age>>
                 /\ dirty' = dirty \union {Thread[r]}
  BY <1>3, <1>5
<1> QED
  BY <1>4, <1>5 DEF Goes

LEMMA DedupHandled ==
    ASSUME NEW r, NEW rest, Runs(r, rest), at[r] \in {"new", "dedup"}, RunDedup(r, rest)
    PROVE  Handled(r)
<1>1. path[r] = "none"
  BY DEF Runs, GateInv, PlaceOK
<1>2. /\ Goes(r, "compile") /\ UNCHANGED <<memory, age, path>>
      /\ holder' = holder /\ waiting' \in Seq(Requests)
  BY DEF RunDedup, Runs
<1>3. at[r] \in {"new", "compile", "approved"} \union LockCalls
  BY DEF LockCalls
<1> QED
  BY <1>1, <1>2, <1>3, MovesHandled

\* Persist is reached in one go when nobody waits: as a call of its own, or after a
\* record.
LEMMA RecordCallHandled ==
    ASSUME NEW r, NEW rest, Runs(r, rest), at[r] \in {"approved", "approval", "record"},
           RunRecord(r, rest)
    PROVE  Handled(r)
<1>1. r \in Requests /\ rest \in Seq(Requests)
      /\ path \in [Requests -> {"none", "policy", "human"}]
  BY Types DEF Runs
<1>2. path[r] \in {"policy", "human"} /\ path' = [path EXCEPT ![r] = path[r]]
  <2>1. path[r] # "none"
    BY DEF Runs, GateInv, PlaceOK
  <2> QED
    BY <1>1, <2>1 DEF RunRecord
<1>3. RecordCapsule(r) /\ Goes(r, "persist") /\ holder' \in {holder, r}
      /\ waiting' \in Seq(Requests)
  BY <1>1, AppendWaits DEF RunRecord, RunPersist, Queue
<1>4. at[r] \in {"new", "compile", "approved"} \union LockCalls
  BY DEF LockCalls
<1> QED
  BY <1>2, <1>3, <1>4, RecordHandled

LEMMA ApprovalHandled ==
    ASSUME NEW r, NEW rest, Runs(r, rest), at[r] \in {"approved", "approval"},
           RunApproval(r, rest)
    PROVE  Handled(r)
<1>1. r \in Requests /\ rest \in Seq(Requests)
      /\ path \in [Requests -> {"none", "policy", "human"}]
  BY Types DEF Runs
<1>2. CASE rest = <<>>
  BY <1>2, RecordCallHandled DEF RunApproval
<1>3. CASE rest # <<>>
  <2>1. path[r] = "human"
    BY DEF Runs, GateInv, PlaceOK
  <2>2. /\ Goes(r, "record") /\ dirty' = dirty \union {Thread[r]}
        /\ UNCHANGED <<recent, toolKeys, uniqueTools, streak, age>>
        /\ holder' = holder /\ path' = [path EXCEPT ![r] = "human"]
        /\ waiting' \in Seq(Requests)
    BY <1>1, <1>3, <2>1, AppendWaits DEF RunApproval, Queue
  <2>3. at[r] \in {"new", "compile", "approved"} \union LockCalls
    BY DEF LockCalls
  <2> QED
    BY <2>1, <2>2, <2>3, RecordHandled
<1> QED
  BY <1>2, <1>3

LEMMA GetHandled ==
    ASSUME NEW r, NEW rest, Runs(r, rest), at[r] \in {"compile", "get"}, RunGet(r, rest)
    PROVE  Handled(r)
<1>1. r \in Requests /\ rest \in Seq(Requests) /\ path[r] = "none"
  BY DEF Runs, GateInv, PlaceOK
<1>2. at[r] \in {"new", "compile", "approved"} \union LockCalls
  BY DEF LockCalls
<1>3. CASE /\ Goes(r, "pending")
           /\ waiting' = rest
           /\ UNCHANGED <<memory, age, holder, path>>
  BY <1>1, <1>2, <1>3, MovesHandled
<1>4. CASE /\ path' = [path EXCEPT ![r] = "policy"]
           /\ IF rest = <<>>
              THEN RecordCapsule(r) /\ RunPersist(r, rest)
              ELSE Queue(r, "record", rest) /\ UNCHANGED <<memory, age, holder>>
  <2>1. /\ \/ RecordCapsule(r) /\ Goes(r, "persist")
           \/ Goes(r, "record") /\ UNCHANGED <<memory, age>>
        /\ holder' \in {holder, r} /\ waiting' \in Seq(Requests)
    BY <1>1, <1>4, AppendWaits DEF RunPersist, Queue
  <2> QED
    BY <1>1, <1>2, <1>4, <2>1, RecordHandled
<1> QED
  BY <1>3, <1>4 DEF RunGet

LEMMA PersistHandled ==
    ASSUME NEW r, NEW rest, Runs(r, rest), at[r] = "persist", RunPersist(r, rest),
           UNCHANGED <<memory, age, path>>
    PROVE  Handled(r)
<1>1. r \in Requests /\ rest \in Seq(Requests) /\ path[r] # "none"
  BY DEF Runs, GateInv, PlaceOK
<1>2. "persist" \in LockCalls /\ at[r] \in {"new", "compile", "approved"} \union LockCalls
  BY DEF LockCalls
<1>3. Goes(r, "persist") /\ holder' \in {holder, r} /\ waiting' \in Seq(Requests)
  BY <1>1 DEF RunPersist
<1> QED
  BY <1>1, <1>2, <1>3, MovesHandled

\* A handler that queues for its call.
LEMMA QueueHandled ==
    ASSUME GateInv, up, UNCHANGED Suspended, NEW r \in Requests,
           NEW call \in {"dedup", "get", "approval"},
           Queue(r, call, waiting), UNCHANGED <<memory, age, holder, path>>,
           at[r] \in {"new", "compile", "approved"},
           call \in {"dedup", "get"} => path[r] = "none",
           call = "approval" => path[r] = "human"
    PROVE  Handled(r)
<1>1. Runs(r, waiting) /\ waiting \in Seq(Requests)
  BY Types DEF Runs
<1>2. Goes(r, call) /\ waiting' \in Seq(Requests) /\ call \in LockCalls
  BY <1>1, AppendWaits DEF Queue, LockCalls
<1> QED
  BY <1>1, <1>2, MovesHandled

LEMMA ArriveInv ==
    ASSUME GateInv, NEW r \in Requests, Arrive(r) \/ Compiled(r) \/ CountApproved(r)
    PROVE  GateInv'
<1>1. <<>> \in Seq(Requests)
  OBVIOUS
<1>2. up /\ UNCHANGED Suspended
  BY DEF Arrive, Compiled, CountApproved
<1>3. Runs(r, <<>>)
  BY <1>1, <1>2 DEF Runs
<1>4. PlaceOK(r)
  BY DEF GateInv
<1>5. CASE Arrive(r)
  <2>1. at[r] = "new" /\ path[r] = "none"
    BY <1>4, <1>5 DEF Arrive, PlaceOK
  <2> QED
    BY <1>2, <1>3, <1>5, <2>1, DedupHandled, QueueHandled, HandledInv DEF Arrive
<1>6. CASE Compiled(r)
  <2>1. at[r] = "compile" /\ path[r] = "none"
    BY <1>4, <1>6 DEF Compiled, PlaceOK
  <2> QED
    BY <1>2, <1>3, <1>6, <2>1, GetHandled, QueueHandled, HandledInv DEF Compiled
<1>7. CASE CountApproved(r)
  <2>1. at[r] = "approved" /\ path[r] = "human"
    BY <1>4, <1>7 DEF CountApproved, PlaceOK
  <2> QED
    BY <1>2, <1>3, <1>7, <2>1, ApprovalHandled, QueueHandled, HandledInv DEF CountApproved
<1> QED
  BY <1>5, <1>6, <1>7

LEMMA WakeInv ==
    ASSUME GateInv, Wake
    PROVE  GateInv'
<1> DEFINE r == Head(waiting)
           rest == Tail(waiting)
<1>1. up /\ waiting # <<>> /\ UNCHANGED Suspended /\ waiting \in Seq(Requests)
  BY Types DEF Wake
<1>2. r \in Requests /\ rest \in Seq(Requests)
  BY <1>1
<1>3. Runs(r, rest)
  BY <1>1, <1>2 DEF Runs
<1>4. \/ at[r] = "dedup" /\ RunDedup(r, rest)
      \/ at[r] = "get" /\ RunGet(r, rest)
      \/ at[r] = "approval" /\ RunApproval(r, rest)
      \/ at[r] = "record" /\ RunRecord(r, rest)
      \/ at[r] = "persist" /\ RunPersist(r, rest) /\ UNCHANGED <<memory, age, path>>
  BY DEF Wake
<1> HIDE DEF r, rest
<1>5. Handled(r)
  BY <1>3, <1>4, DedupHandled, GetHandled, ApprovalHandled, RecordCallHandled, PersistHandled
<1> QED
  BY <1>2, <1>5, HandledInv

-----------------------------------------------------------------------------
\* Steps of one handler that leave the tracker's data alone.

LEMMA HandlerMoves ==
    ASSUME GateInv, up, UNCHANGED <<memory, disk, age, up, crashes, wiped>>,
           NEW r \in Requests, NEW place \in Places, at' = [at EXCEPT ![r] = place],
           path' \in [Requests -> {"none", "policy", "human"}],
           \A x \in Requests \ {r} : path'[x] = path[x],
           active' \subseteq Requests, active \subseteq active', active' \subseteq active \union {r},
           logged' \subseteq active', logged \subseteq logged', logged' \subseteq logged \union {r},
           holder' \in {holder, NoRequest}, waiting' = waiting,
           PlaceOK(r)', CountedOK(r)'
    PROVE  GateInv'
<1>1. TypeOK' /\ FiniteHistory'
  <2>1. at' \in [Requests -> Places]
    BY Types
  <2>2. /\ holder' \in Requests \union {NoRequest} /\ waiting' \in Seq(Requests)
    BY Types
  <2>3. /\ recent' \subseteq Requests /\ toolKeys' \subseteq Requests
        /\ uniqueTools' \in [Threads -> Nat] /\ streak' \in [Threads -> Nat]
        /\ dirty' \subseteq Threads /\ disk' \subseteq Requests
        /\ age' \in [Requests -> 0..(Window + 1)]
        /\ up' \in BOOLEAN /\ crashes' \in 0..MaxCrashes /\ wiped' \subseteq Requests
        /\ IsFiniteSet(recent') /\ IsFiniteSet(disk')
    BY Types DEF memory
  <2> QED
    BY <2>1, <2>2, <2>3 DEF TypeOK, FiniteHistory
<1>2. SavedStaysCounted' /\ ToolCountAgrees' /\ UnsavedIsDirty' /\ DownIsQuiet'
  BY DEF GateInv, memory, SavedStaysCounted, ToolCountAgrees, UnsavedIsDirty, DownIsQuiet, InWindow
<1>3. ASSUME NEW x \in Requests \ {r}
      PROVE  PlaceOK(x)' /\ CountedOK(x)'
  <2>1. PlaceOK(x) /\ CountedOK(x) /\ at'[x] = at[x] /\ path'[x] = path[x]
        /\ (x \in active' <=> x \in active) /\ (x \in logged' <=> x \in logged)
    BY Types DEF GateInv
  <2>2. PlaceOK(x)'
    BY <2>1 DEF PlaceOK
  <2>3. CountedOK(x)'
    BY <2>1 DEF CountedOK, InWindow, memory
  <2> QED
    BY <2>2, <2>3
<1> QED
  BY <1>1, <1>2, <1>3 DEF GateInv

LEMMA HandlerStepsInv ==
    ASSUME GateInv, NEW r \in Requests,
           RecordIssued(r) \/ LogIssued(r) \/ HumanApproves(r) \/ HandlerError(r)
    PROVE  GateInv'
<1>1. PlaceOK(r) /\ CountedOK(r)
  BY DEF GateInv
<1>2. /\ path \in [Requests -> {"none", "policy", "human"}] /\ at \in [Requests -> Places]
      /\ active \subseteq Requests /\ logged \subseteq active /\ up
  BY Types DEF RecordIssued, LogIssued, HumanApproves, HandlerError
<1>3. CASE RecordIssued(r)
  <2>1. /\ at[r] = "issue" /\ active' = active \union {r} /\ logged' = logged
        /\ at' = [at EXCEPT ![r] = "log"] /\ path' = path
        /\ UNCHANGED <<memory, disk, age, holder, waiting, up, crashes, wiped>>
    BY <1>3 DEF RecordIssued, Goes
  <2>2. at'[r] = "log" /\ path'[r] = "policy" /\ r \in active' /\ r \notin logged'
    BY <1>1, <1>2, <2>1 DEF PlaceOK
  <2>3. PlaceOK(r)'
    BY <2>2 DEF PlaceOK
  <2>4. CountedOK(r)'
    BY <1>1, <2>1, <2>2 DEF CountedOK, InWindow
  <2>5. "log" \in Places
    BY DEF Places
  <2> QED
    BY <1>2, <2>1, <2>3, <2>4, <2>5, HandlerMoves
<1>4. CASE LogIssued(r)
  <2>1. /\ at[r] = "log" /\ logged' = logged \union {r} /\ active' = active
        /\ at' = [at EXCEPT ![r] = "end"] /\ path' = path
        /\ UNCHANGED <<memory, disk, age, holder, waiting, up, crashes, wiped>>
    BY <1>4 DEF LogIssued, Goes
  <2>2. at'[r] = "end" /\ path'[r] = path[r] /\ path[r] # "none" /\ r \in active
    BY <1>1, <1>2, <2>1 DEF PlaceOK
  <2>3. PlaceOK(r)'
    BY <1>1, <2>1, <2>2 DEF PlaceOK
  <2>4. CountedOK(r)'
    BY <1>1, <2>1, <2>2 DEF CountedOK, InWindow
  <2>5. "end" \in Places
    BY DEF Places
  <2> QED
    BY <1>2, <2>1, <2>2, <2>3, <2>4, <2>5, HandlerMoves
<1>5. CASE HumanApproves(r)
  <2>1. /\ at[r] = "pending" /\ active' = active \union {r} /\ logged' = logged
        /\ at' = [at EXCEPT ![r] = "approved"] /\ path' = [path EXCEPT ![r] = "human"]
        /\ UNCHANGED <<memory, disk, age, holder, waiting, up, crashes, wiped>>
    BY <1>5 DEF HumanApproves, Goes
  <2>2. at'[r] = "approved" /\ path'[r] = "human" /\ r \in active' /\ r \notin logged'
    BY <1>1, <1>2, <2>1 DEF PlaceOK
  <2>3. PlaceOK(r)' /\ CountedOK(r)'
    BY <2>2 DEF PlaceOK, CountedOK
  <2>4. "approved" \in Places
    BY DEF Places
  <2>5. path' \in [Requests -> {"none", "policy", "human"}]
        /\ \A x \in Requests \ {r} : path'[x] = path[x]
    BY <1>2, <2>1
  <2> QED
    BY <1>2, <2>1, <2>3, <2>4, <2>5, HandlerMoves
<1>6. CASE HandlerError(r)
  <2>1. /\ at[r] \in {"compile", "issue", "log"} /\ active' = active /\ logged' = logged
        /\ at' = [at EXCEPT ![r] = "end"] /\ path' = path
        /\ UNCHANGED <<memory, disk, age, holder, waiting, up, crashes, wiped>>
    BY <1>6 DEF HandlerError, Goes, database
  <2>2. at'[r] = "end" /\ path'[r] = path[r]
    BY <1>2, <2>1
  <2>3. PlaceOK(r)'
    BY <1>1, <2>1, <2>2 DEF PlaceOK
  <2>4. CountedOK(r)'
    BY <1>1, <2>1, <2>2 DEF CountedOK, InWindow
  <2>5. "end" \in Places
    BY DEF Places
  <2> QED
    BY <1>2, <2>1, <2>3, <2>4, <2>5, HandlerMoves
<1> QED
  BY <1>3, <1>4, <1>5, <1>6
-----------------------------------------------------------------------------
\* The end of persist.

LEMMA PersistDoneInv ==
    ASSUME GateInv, PersistDone
    PROVE  GateInv'
<1>1. /\ up /\ holder # NoRequest /\ at[holder] = "persist"
      /\ disk' = Persisted /\ dirty' = {} /\ holder' = NoRequest
      /\ at' = [at EXCEPT ![holder] = AfterPersist(holder)]
      /\ UNCHANGED <<recent, toolKeys, uniqueTools, streak, age, active, logged, path, waiting,
                     up, crashes, wiped>>
  BY DEF PersistDone, Goes
<1>2. holder \in Requests /\ AfterPersist(holder) \in {"issue", "log"}
  BY <1>1, Types DEF AfterPersist
<1>3. SavedStaysCounted /\ ToolCountAgrees /\ UnsavedIsDirty
      /\ \A x \in Requests : PlaceOK(x) /\ CountedOK(x)
  BY DEF GateInv
<1>4. disk' \subseteq disk \union recent /\ recent \subseteq disk'
  BY <1>1, <1>3 DEF Persisted, UnsavedIsDirty
<1>5. \A x \in disk : InWindow(x) => x \in disk' \union wiped
  BY <1>1, <1>3, <1>4 DEF SavedStaysCounted
<1>6. IsFiniteSet(disk')
  <2>1. IsFiniteSet(disk \union recent)
    BY Types, FS_Union
  <2> QED
    BY <1>4, <2>1, FS_Subset
<1>7. TypeOK' /\ FiniteHistory'
  <2>1. at' \in [Requests -> Places]
    BY <1>1, <1>2, Types DEF Places
  <2>2. disk' \subseteq Requests /\ holder' \in Requests \union {NoRequest} /\ dirty' \subseteq Threads
    BY <1>1, <1>4, Types
  <2>3. /\ recent' \subseteq Requests /\ toolKeys' \subseteq Requests
        /\ uniqueTools' \in [Threads -> Nat] /\ streak' \in [Threads -> Nat]
        /\ active' \subseteq Requests /\ logged' \subseteq active'
        /\ age' \in [Requests -> 0..(Window + 1)]
        /\ path' \in [Requests -> {"none", "policy", "human"}]
        /\ waiting' \in Seq(Requests)
        /\ up' \in BOOLEAN /\ crashes' \in 0..MaxCrashes /\ wiped' \subseteq Requests
        /\ IsFiniteSet(recent')
    BY <1>1, Types
  <2> QED
    BY <1>6, <2>1, <2>2, <2>3 DEF TypeOK, FiniteHistory
<1>8. UnsavedIsDirty' /\ DownIsQuiet' /\ ToolCountAgrees'
  BY <1>1, <1>3, <1>4 DEF UnsavedIsDirty, DownIsQuiet, ToolCountAgrees
<1>9. SavedStaysCounted'
  BY <1>1, <1>3, <1>4 DEF SavedStaysCounted, InWindow
<1>10. ASSUME NEW x \in Requests
       PROVE  PlaceOK(x)' /\ CountedOK(x)'
  <2>1. PlaceOK(x) /\ CountedOK(x) /\ (InWindow(x)' <=> InWindow(x))
    BY <1>1, <1>3 DEF InWindow
  <2>2. CASE x = holder
    <3>1. at'[x] = AfterPersist(x) /\ path'[x] = path[x] /\ at[x] = "persist"
      BY <1>1, <2>2, Types
    <3>2. PlaceOK(x)'
      BY <1>1, <2>1, <3>1, Types DEF PlaceOK, AfterPersist
    <3>3. InWindow(x) => x \in disk' \union wiped
      BY <1>4, <2>1, <3>1 DEF CountedOK
    <3>4. CountedOK(x)'
      BY <1>1, <1>2, <2>1, <2>2, <3>1, <3>3 DEF CountedOK
    <3> QED
      BY <3>2, <3>4
  <2>3. CASE x # holder
    <3>1. at'[x] = at[x] /\ path'[x] = path[x]
      BY <1>1, <2>3, Types
    <3>2. PlaceOK(x)'
      BY <1>1, <2>1, <3>1 DEF PlaceOK
    <3>3. CountedOK(x)'
      BY <1>1, <1>5, <2>1, <3>1 DEF CountedOK
    <3> QED
      BY <3>2, <3>3
  <2> QED
    BY <2>2, <2>3
<1> QED
  BY <1>7, <1>8, <1>9, <1>10 DEF GateInv

LEMMA PersistFailsInv ==
    ASSUME GateInv, PersistFails
    PROVE  GateInv'
<1>1. /\ up /\ holder # NoRequest /\ at[holder] = "persist" /\ holder' = NoRequest
      /\ at' = [at EXCEPT ![holder] = "end"]
      /\ UNCHANGED <<memory, disk, active, logged, age, path, waiting, up, crashes, wiped>>
  BY DEF PersistFails, Goes, ReleasedOnError, Suspended, database
<1>2. /\ holder \in Requests /\ "end" \in Places
      /\ path' \in [Requests -> {"none", "policy", "human"}]
      /\ active \subseteq Requests /\ logged \subseteq active
  BY <1>1, Types DEF Places
<1>3. PlaceOK(holder) /\ CountedOK(holder) /\ at'[holder] = "end"
  BY <1>1, <1>2, Types DEF GateInv
<1>4. ASSUME NEW r \in Requests, r = holder
      PROVE  PlaceOK(r)' /\ CountedOK(r)'
  <2>1. PlaceOK(r)'
    BY <1>1, <1>3, <1>4 DEF PlaceOK
  <2>2. CountedOK(r)'
    BY <1>1, <1>3, <1>4 DEF CountedOK, PlaceOK, InWindow
  <2> QED
    BY <2>1, <2>2
<1>5. PICK r \in Requests : r = holder
  BY <1>2
<1> QED
  BY <1>1, <1>2, <1>4, <1>5, HandlerMoves

-----------------------------------------------------------------------------
\* Resets, crashes, restarts and time.

LEMMA NoTools == ToolCount({}) = 0
<1>1. UNION {Tools[r] : r \in {}} = {}
  OBVIOUS
<1> QED
  BY <1>1, FS_EmptySet DEF ToolCount

LEMMA ResetSessionInv ==
    ASSUME GateInv, NEW t \in Threads, ResetSession(t)
    PROVE  GateInv'
<1>1. /\ up
      /\ recent' = recent \ OfThread(recent, t)
      /\ toolKeys' = toolKeys \ OfThread(toolKeys, t)
      /\ uniqueTools' = [uniqueTools EXCEPT ![t] = 0]
      /\ streak' = [streak EXCEPT ![t] = 0]
      /\ dirty' = dirty \ {t}
      /\ wiped' = wiped \union OfThread(recent, t)
      /\ UNCHANGED <<disk, active, logged, age, path, at, holder, waiting, up, crashes>>
  BY DEF ResetSession, database
<1>2. SavedStaysCounted /\ ToolCountAgrees /\ UnsavedIsDirty
      /\ \A x \in Requests : PlaceOK(x) /\ CountedOK(x)
  BY DEF GateInv
<1>3. OfThread(recent, t) \subseteq recent /\ recent' \union wiped' = recent \union wiped
  BY <1>1 DEF OfThread
<1>4. TypeOK' /\ FiniteHistory'
  <2>1. IsFiniteSet(recent')
    BY <1>1, Types, FS_Subset
  <2>2. /\ recent' \subseteq Requests /\ toolKeys' \subseteq Requests
        /\ dirty' \subseteq Threads /\ wiped' \subseteq Requests
    BY <1>1, <1>3, Types
  <2>3. uniqueTools' \in [Threads -> Nat] /\ streak' \in [Threads -> Nat]
    BY <1>1, Types
  <2>4. /\ disk' \subseteq Requests /\ active' \subseteq Requests /\ logged' \subseteq active'
        /\ age' \in [Requests -> 0..(Window + 1)]
        /\ path' \in [Requests -> {"none", "policy", "human"}]
        /\ at' \in [Requests -> Places]
        /\ holder' \in Requests \union {NoRequest} /\ waiting' \in Seq(Requests)
        /\ up' \in BOOLEAN /\ crashes' \in 0..MaxCrashes /\ IsFiniteSet(disk')
    BY <1>1, Types
  <2> QED
    BY <2>1, <2>2, <2>3, <2>4 DEF TypeOK, FiniteHistory
<1>5. SavedStaysCounted'
  BY <1>1, <1>2, <1>3 DEF SavedStaysCounted, InWindow
<1>6. UnsavedIsDirty' /\ DownIsQuiet'
  BY <1>1, <1>2 DEF UnsavedIsDirty, DownIsQuiet, OfThread
<1>7. ToolCountAgrees'
  <2>1. toolKeys' = recent'
    BY <1>1, <1>2 DEF ToolCountAgrees
  <2>2. ASSUME NEW u \in Threads
        PROVE  uniqueTools'[u] = ToolCount(OfThread(recent', u))
    <3>1. CASE u = t
      <4>1. OfThread(recent', u) = {} /\ uniqueTools'[u] = 0
        BY <1>1, <3>1, Types DEF OfThread
      <4> QED
        BY <4>1, NoTools
    <3>2. CASE u # t
      <4>1. OfThread(recent', u) = OfThread(recent, u) /\ uniqueTools'[u] = uniqueTools[u]
        BY <1>1, <3>2, Types DEF OfThread
      <4> QED
        BY <1>1, <1>2, <4>1 DEF ToolCountAgrees
    <3> QED
      BY <3>1, <3>2
  <2> QED
    BY <2>1, <2>2 DEF ToolCountAgrees
<1>8. ASSUME NEW x \in Requests
      PROVE  PlaceOK(x)' /\ CountedOK(x)'
  <2>1. PlaceOK(x)'
    BY <1>1, <1>2 DEF PlaceOK
  <2>2. CountedOK(x)'
    BY <1>1, <1>2, <1>3 DEF CountedOK, InWindow
  <2> QED
    BY <2>1, <2>2
<1> QED
  BY <1>4, <1>5, <1>6, <1>7, <1>8 DEF GateInv

LEMMA CrashInv ==
    ASSUME GateInv, Crash
    PROVE  GateInv'
<1>1. /\ crashes < MaxCrashes /\ crashes' = crashes + 1
      /\ up' = FALSE
      /\ recent' = {} /\ toolKeys' = {} /\ dirty' = {}
      /\ uniqueTools' = [t \in Threads |-> 0] /\ streak' = [t \in Threads |-> 0]
      /\ holder' = NoRequest /\ waiting' = <<>>
      /\ at' = [r \in Requests |-> AfterCrash(r)]
      /\ UNCHANGED <<disk, active, logged, age, path, wiped>>
  BY DEF Crash, database
<1>2. \A r \in Requests : at'[r] = AfterCrash(r) /\ AfterCrash(r) \in {"new", "pending", "end"}
  BY <1>1 DEF AfterCrash
<1>3. TypeOK' /\ FiniteHistory'
  <2>1. crashes' \in 0..MaxCrashes
    BY <1>1, Types, WindowFacts
  <2>2. at' \in [Requests -> Places]
    BY <1>1, <1>2 DEF Places
  <2>3. IsFiniteSet(recent') /\ IsFiniteSet(disk')
    BY <1>1, Types, FS_EmptySet
  <2>4. /\ recent' \subseteq Requests /\ toolKeys' \subseteq Requests /\ dirty' \subseteq Threads
        /\ holder' \in Requests \union {NoRequest} /\ up' \in BOOLEAN
    BY <1>1
  <2>5. uniqueTools' \in [Threads -> Nat] /\ streak' \in [Threads -> Nat]
    BY <1>1
  <2>6. waiting' \in Seq(Requests)
    BY <1>1
  <2>7. /\ disk' \subseteq Requests /\ active' \subseteq Requests /\ logged' \subseteq active'
        /\ age' \in [Requests -> 0..(Window + 1)]
        /\ path' \in [Requests -> {"none", "policy", "human"}] /\ wiped' \subseteq Requests
    BY <1>1, Types
  <2> QED
    BY <2>1, <2>2, <2>3, <2>4, <2>5, <2>6, <2>7 DEF TypeOK, FiniteHistory
<1>4. SavedStaysCounted' /\ ToolCountAgrees' /\ UnsavedIsDirty'
  BY <1>1 DEF SavedStaysCounted, ToolCountAgrees, UnsavedIsDirty
<1>5. DownIsQuiet'
  BY <1>2 DEF DownIsQuiet
<1>6. ASSUME NEW x \in Requests
      PROVE  PlaceOK(x)' /\ CountedOK(x)'
  <2>1. PlaceOK(x) /\ CountedOK(x) /\ at'[x] = AfterCrash(x)
    BY <1>2 DEF GateInv
  <2>2. PlaceOK(x)'
    BY <1>1, <2>1 DEF PlaceOK, AfterCrash
  <2>3. CountedOK(x)'
    BY <1>1, <2>1 DEF CountedOK, AfterCrash, InWindow
  <2> QED
    BY <2>2, <2>3
<1> QED
  BY <1>3, <1>4, <1>5, <1>6 DEF GateInv

LEMMA RestartInv ==
    ASSUME GateInv, Restart
    PROVE  GateInv'
<1>1. /\ ~up /\ up' = TRUE
      /\ recent' = LoadedTools /\ toolKeys' = LoadedTools
      /\ uniqueTools' = [t \in Threads |-> ToolCount(OfThread(LoadedTools, t))]
      /\ UNCHANGED <<streak, dirty, disk, active, logged, age, path, at, holder, waiting,
                     crashes, wiped>>
  BY DEF Restart, database, LoadedTools
<1>2. /\ \A x \in Requests : PlaceOK(x) /\ CountedOK(x)
      /\ \A x \in Requests : at[x] \in {"new", "pending", "end"}
  BY <1>1 DEF GateInv, DownIsQuiet
<1>3. LoadedTools \subseteq disk /\ LoadedTools \subseteq Requests /\ IsFiniteSet(LoadedTools)
  BY Types, FS_Subset DEF LoadedTools
<1>4. TypeOK' /\ FiniteHistory'
  <2>1. uniqueTools' \in [Threads -> Nat]
    BY <1>1, <1>3, FiniteThread
  <2>2. /\ recent' \subseteq Requests /\ toolKeys' \subseteq Requests /\ IsFiniteSet(recent')
        /\ up' \in BOOLEAN
    BY <1>1, <1>3
  <2>3. /\ streak' \in [Threads -> Nat] /\ dirty' \subseteq Threads
        /\ disk' \subseteq Requests /\ active' \subseteq Requests /\ logged' \subseteq active'
        /\ age' \in [Requests -> 0..(Window + 1)]
        /\ path' \in [Requests -> {"none", "policy", "human"}]
        /\ at' \in [Requests -> Places]
        /\ holder' \in Requests \union {NoRequest} /\ waiting' \in Seq(Requests)
        /\ crashes' \in 0..MaxCrashes /\ wiped' \subseteq Requests /\ IsFiniteSet(disk')
    BY <1>1, Types
  <2> QED
    BY <2>1, <2>2, <2>3 DEF TypeOK, FiniteHistory
<1>5. SavedStaysCounted' /\ UnsavedIsDirty' /\ DownIsQuiet'
  BY <1>1, <1>3 DEF SavedStaysCounted, UnsavedIsDirty, DownIsQuiet, LoadedTools, InWindow
<1>6. ToolCountAgrees'
  BY <1>1 DEF ToolCountAgrees
<1>7. ASSUME NEW x \in Requests
      PROVE  PlaceOK(x)' /\ CountedOK(x)'
  <2>1. PlaceOK(x)'
    BY <1>1, <1>2 DEF PlaceOK
  <2>2. CountedOK(x)'
    BY <1>1, <1>2 DEF CountedOK, InWindow
  <2> QED
    BY <2>1, <2>2
<1> QED
  BY <1>4, <1>5, <1>6, <1>7 DEF GateInv

\* Time only takes capsules out of the window.
LEMMA TickInv ==
    ASSUME GateInv, Tick
    PROVE  GateInv'
<1>1. /\ age' = [r \in Requests |->
                    IF r \in recent \union disk \union active /\ age[r] <= Window
                    THEN age[r] + 1 ELSE age[r]]
      /\ UNCHANGED <<recent, toolKeys, uniqueTools, streak, dirty, disk, active, logged, path, at,
                     holder, waiting, up, crashes, wiped>>
  BY DEF Tick, memory, database
<1>2. age' \in [Requests -> 0..(Window + 1)]
      /\ \A x \in Requests : InWindow(x)' => InWindow(x)
  <2>1. age \in [Requests -> 0..(Window + 1)] /\ Window \in Nat
    BY Types, WindowFacts
  <2>2. ASSUME NEW x \in Requests
        PROVE  age'[x] \in 0..(Window + 1) /\ (age'[x] <= Window => age[x] <= Window)
    <3>1. age[x] \in 0..(Window + 1)
          /\ age'[x] = IF x \in recent \union disk \union active /\ age[x] <= Window
                       THEN age[x] + 1 ELSE age[x]
      BY <1>1, <2>1
    <3> QED
      BY <2>1, <3>1
  <2> QED
    BY <1>1, <2>2 DEF InWindow
<1>3. TypeOK' /\ FiniteHistory'
  <2>1. /\ recent' \subseteq Requests /\ toolKeys' \subseteq Requests
        /\ uniqueTools' \in [Threads -> Nat] /\ streak' \in [Threads -> Nat]
        /\ dirty' \subseteq Threads
        /\ disk' \subseteq Requests /\ active' \subseteq Requests /\ logged' \subseteq active'
        /\ path' \in [Requests -> {"none", "policy", "human"}]
        /\ at' \in [Requests -> Places]
        /\ holder' \in Requests \union {NoRequest} /\ waiting' \in Seq(Requests)
        /\ up' \in BOOLEAN /\ crashes' \in 0..MaxCrashes /\ wiped' \subseteq Requests
        /\ IsFiniteSet(recent') /\ IsFiniteSet(disk')
    BY <1>1, Types
  <2> QED
    BY <1>2, <2>1 DEF TypeOK, FiniteHistory
<1>4. SavedStaysCounted'
  BY <1>1, <1>2, Types DEF GateInv, SavedStaysCounted
<1>5. ToolCountAgrees' /\ UnsavedIsDirty' /\ DownIsQuiet'
  BY <1>1 DEF GateInv, ToolCountAgrees, UnsavedIsDirty, DownIsQuiet
<1>6. ASSUME NEW x \in Requests
      PROVE  PlaceOK(x)' /\ CountedOK(x)'
  <2>1. PlaceOK(x) /\ CountedOK(x)
    BY DEF GateInv
  <2>2. PlaceOK(x)'
    BY <1>1, <2>1 DEF PlaceOK
  <2>3. CountedOK(x)'
    BY <1>1, <1>2, <2>1 DEF CountedOK
  <2> QED
    BY <2>2, <2>3
<1> QED
  BY <1>3, <1>4, <1>5, <1>6 DEF GateInv

LEMMA GateStutters ==
    ASSUME GateInv, UNCHANGED vars
    PROVE  GateInv'
<1> USE DEF vars
<1>1. TypeOK' /\ FiniteHistory'
  BY DEF GateInv, TypeOK, FiniteHistory
<1>2. SavedStaysCounted' /\ ToolCountAgrees' /\ UnsavedIsDirty' /\ DownIsQuiet'
  BY DEF GateInv, SavedStaysCounted, ToolCountAgrees, UnsavedIsDirty, DownIsQuiet, InWindow
<1>3. \A x \in Requests : PlaceOK(x)' /\ CountedOK(x)'
  BY DEF GateInv, PlaceOK, CountedOK, InWindow
<1> QED
  BY <1>1, <1>2, <1>3 DEF GateInv

-----------------------------------------------------------------------------
\* The theorems.

LEMMA GateInit == Init => GateInv
<1> SUFFICES ASSUME Init PROVE GateInv
  OBVIOUS
<1>1. TypeOK /\ FiniteHistory
  BY WindowFacts, FS_EmptySet DEF Init, TypeOK, FiniteHistory, Places
<1>2. SavedStaysCounted /\ UnsavedIsDirty /\ DownIsQuiet
  BY DEF Init, SavedStaysCounted, UnsavedIsDirty, DownIsQuiet
<1>3. ToolCountAgrees
  <2>1. \A t \in Threads : OfThread(recent, t) = {} /\ uniqueTools[t] = 0
    BY DEF Init, OfThread
  <2> QED
    BY <2>1, NoTools DEF Init, ToolCountAgrees
<1>4. \A x \in Requests : PlaceOK(x) /\ CountedOK(x)
  BY DEF Init, PlaceOK, CountedOK
<1> QED
  BY <1>1, <1>2, <1>3, <1>4 DEF GateInv

LEMMA GateNext == GateInv /\ [Next]_vars => GateInv'
<1> SUFFICES ASSUME GateInv, [Next]_vars PROVE GateInv'
  OBVIOUS
<1>1. CASE \E r \in Requests : Arrive(r) \/ Compiled(r) \/ CountApproved(r)
  BY <1>1, ArriveInv
<1>2. CASE Wake
  BY <1>2, WakeInv
<1>3. CASE \E r \in Requests :
              RecordIssued(r) \/ LogIssued(r) \/ HumanApproves(r) \/ HandlerError(r)
  BY <1>3, HandlerStepsInv
<1>4. CASE PersistDone
  BY <1>4, PersistDoneInv
<1>5. CASE PersistFails
  BY <1>5, PersistFailsInv
<1>6. CASE \E t \in Threads : ResetSession(t)
  BY <1>6, ResetSessionInv
<1>7. CASE Crash
  BY <1>7, CrashInv
<1>8. CASE Restart
  BY <1>8, RestartInv
<1>9. CASE Tick
  BY <1>9, TickInv
<1>10. CASE UNCHANGED vars
  BY <1>10, GateStutters
<1> QED
  BY <1>1, <1>2, <1>3, <1>4, <1>5, <1>6, <1>7, <1>8, <1>9, <1>10 DEF Next, HandlerStep

\* Memory, disk and handlers stay in step: whatever handlers interleave at the
\* tracker's lock, persists fail, sessions are reset and servers crash, the
\* invariant the other theorems rest on holds.
THEOREM GateInductive == Spec => []GateInv
<1> QED
  BY GateInit, GateNext, PTL DEF Spec

\* The tracker, the tables and the handlers always hold values of their kinds,
\* and no capsule is logged as issued that MCP servers do not honour.
THEOREM GateTypeCorrect == Spec => []TypeOK
<1>1. GateInv => TypeOK
  BY DEF GateInv
<1> QED
  BY <1>1, GateInductive, PTL

\* A capsule the policy issued on its own is in the durable history of its
\* thread as long as MCP servers may honour it: a crash between persist and
\* record_issued, or after it, cannot make the gate forget it.
THEOREM AutoCapsulesAreDurable == Spec => []AutoCapsuleIsDurable
<1>1. GateInv => AutoCapsuleIsDurable
  BY Types DEF GateInv, CountedOK, AutoCapsuleIsDurable
<1> QED
  BY <1>1, GateInductive, PTL

\* What a persist once saved stays in the history the gate reads, until it is
\* older than the window or someone resets the session.
THEOREM SavedCapsulesStayCounted == Spec => []SavedStaysCounted
<1>1. GateInv => SavedStaysCounted
  BY DEF GateInv
<1> QED
  BY <1>1, GateInductive, PTL

\* cumulative_unique_tools always counts exactly the tools of the capsules in
\* the history of its thread.
THEOREM ToolCountsAgree == Spec => []ToolCountAgrees
<1>1. GateInv => ToolCountAgrees
  BY DEF GateInv
<1> QED
  BY <1>1, GateInductive, PTL

\* The audit log never reports a capsule the durable history does not count.
THEOREM LoggedCapsulesAreDurable == Spec => []LoggedIsDurable
<1>1. GateInv => LoggedIsDurable
  BY Types DEF GateInv, CountedOK, LoggedIsDurable
<1> QED
  BY <1>1, GateInductive, PTL
-----------------------------------------------------------------------------
\* The queue for the lock.

Waits(r) == \E i \in DOMAIN waiting : waiting[i] = r

\* Everyone in a call of the tracker holds the lock, in persist, or has one place in the
\* queue, and nobody else has; a crash leaves nobody there.
QueueInv ==
    /\ \A i \in DOMAIN waiting : at[waiting[i]] \in LockCalls /\ waiting[i] # holder
    /\ \A i, j \in DOMAIN waiting : waiting[i] = waiting[j] => i = j
    /\ \A r \in Requests : at[r] \in LockCalls => r = holder \/ Waits(r)
    /\ holder # NoRequest => at[holder] = "persist"
    /\ up \/ (holder = NoRequest /\ waiting = <<>>)

\* Whenever a handler is in a call of the tracker, the end of a persist or the next turn
\* in the queue is due.
NoLostWakeUp ==
    \A r \in Requests : at[r] \in LockCalls =>
        /\ up
        /\ \/ holder # NoRequest /\ at[holder] = "persist"
           \/ holder = NoRequest /\ waiting # <<>> /\ at[Head(waiting)] \in LockCalls

Stay == \A i \in DOMAIN waiting : i \in DOMAIN waiting' /\ waiting'[i] = waiting[i]
MoveUp ==
    /\ holder = NoRequest /\ waiting # <<>>
    /\ \A i \in DOMAIN waiting \ {1} : i - 1 \in DOMAIN waiting' /\ waiting'[i - 1] = waiting[i]

\* Those who wait keep their places, or all move up by one as the free lock goes to the first.
InOrder == up' => Stay \/ MoveUp
FirstComeFirstServed == [][InOrder]_vars

\* While a persist holds the lock, what it writes stays as it is.
Undisturbed == holder # NoRequest /\ holder' = holder => UNCHANGED <<memory, disk>>
PersistIsUndisturbed == [][Undisturbed]_vars

\* One call of the tracker by r, with `rest` behind it, as the queue sees it: r leaves, goes
\* to the end of the queue, or takes the lock.
Leaves(r, rest) == at'[r] \notin LockCalls /\ waiting' = rest /\ holder' = holder
Rejoins(r, rest) == at'[r] \in LockCalls /\ waiting' = Append(rest, r) /\ holder' = holder
Takes(r, rest) == at'[r] = "persist" /\ waiting' = rest /\ holder' = r

Turn(r, rest) ==
    /\ \A s \in Requests : s # r => at'[s] = at[s]
    /\ Leaves(r, rest) \/ Rejoins(r, rest) \/ Takes(r, rest)

LEMMA GoesTo ==
    ASSUME at \in [Requests -> Places], NEW r \in Requests, NEW place, Goes(r, place)
    PROVE  at'[r] = place /\ \A s \in Requests : s # r => at'[s] = at[s]
  BY DEF Goes

LEMMA CallsTakeTurns ==
    ASSUME at \in [Requests -> Places], NEW r \in Requests, NEW rest,
           \/ RunDedup(r, rest) \/ RunGet(r, rest) \/ RunApproval(r, rest) \/ RunRecord(r, rest)
           \/ RunPersist(r, rest)
    PROVE  Turn(r, rest)
<1>1. ASSUME RunPersist(r, rest)
      PROVE  Turn(r, rest)
  BY <1>1, GoesTo DEF RunPersist, Turn, Takes
<1>2. ASSUME NEW call \in LockCalls, Queue(r, call, rest), UNCHANGED holder
      PROVE  Turn(r, rest)
  BY <1>2, GoesTo DEF Queue, Turn, Rejoins
<1>3. ASSUME NEW place, place \notin LockCalls, Goes(r, place), waiting' = rest, UNCHANGED holder
      PROVE  Turn(r, rest)
  BY <1>3, GoesTo DEF Turn, Leaves
<1>4. {"record", "persist"} \subseteq LockCalls /\ "compile" \notin LockCalls
      /\ "pending" \notin LockCalls
  BY DEF LockCalls
<1>5. ASSUME RunRecord(r, rest)
      PROVE  Turn(r, rest)
  BY <1>1, <1>2, <1>4, <1>5 DEF RunRecord
<1>6. CASE RunDedup(r, rest)
  BY <1>3, <1>4, <1>6 DEF RunDedup
<1>7. CASE RunGet(r, rest)
  BY <1>1, <1>2, <1>3, <1>4, <1>7 DEF RunGet
<1>8. CASE RunApproval(r, rest)
  BY <1>2, <1>4, <1>5, <1>8 DEF RunApproval
<1> QED
  BY <1>1, <1>5, <1>6, <1>7, <1>8

LEMMA AppendFacts ==
    ASSUME NEW r \in Requests, NEW rest \in Seq(Requests)
    PROVE  /\ DOMAIN rest = 1..Len(rest) /\ Len(rest) \in Nat
           /\ Append(rest, r) \in Seq(Requests)
           /\ DOMAIN Append(rest, r) = 1..(Len(rest) + 1)
           /\ \A i \in 1..Len(rest) : Append(rest, r)[i] = rest[i]
           /\ Append(rest, r)[Len(rest) + 1] = r
  OBVIOUS

LEMMA TailFacts ==
    ASSUME waiting \in Seq(Requests), waiting # <<>>
    PROVE  /\ Tail(waiting) \in Seq(Requests) /\ Head(waiting) \in Requests
           /\ 1 \in DOMAIN waiting /\ waiting[1] = Head(waiting)
           /\ \A i \in DOMAIN Tail(waiting) :
                  i + 1 \in DOMAIN waiting /\ i + 1 # 1 /\ Tail(waiting)[i] = waiting[i + 1]
           /\ \A i \in DOMAIN waiting \ {1} :
                  i - 1 \in DOMAIN Tail(waiting) /\ Tail(waiting)[i - 1] = waiting[i]
  OBVIOUS

\* What a queue of those behind r must be for its turn to keep the invariant.
Behind(r, rest) ==
    /\ rest \in Seq(Requests) /\ r # holder
    /\ \A i \in DOMAIN rest : at[rest[i]] \in LockCalls /\ rest[i] # holder /\ rest[i] # r
    /\ \A i, j \in DOMAIN rest : rest[i] = rest[j] => i = j
    /\ \A s \in Requests : s # r /\ at[s] \in LockCalls =>
           s = holder \/ \E i \in DOMAIN rest : rest[i] = s
    /\ holder # NoRequest => at[holder] = "persist"

LEMMA TurnQueue ==
    ASSUME TypeOK, NEW r \in Requests, NEW rest, Behind(r, rest), Turn(r, rest), up',
           Takes(r, rest) => holder = NoRequest
    PROVE  QueueInv'
<1>1. /\ rest \in Seq(Requests) /\ r # NoRequest
      /\ \A i \in DOMAIN rest : rest[i] \in Requests
      /\ holder \in Requests \union {NoRequest}
  BY GateAssumption DEF Behind, TypeOK
<1>2. /\ \A i \in DOMAIN rest : at'[rest[i]] \in LockCalls
      /\ \A s \in Requests : s # r => at'[s] = at[s]
      /\ holder # NoRequest => at'[holder] = "persist"
  BY <1>1 DEF Behind, Turn
<1>3. CASE Leaves(r, rest)
  BY <1>1, <1>2, <1>3 DEF Leaves, Behind, QueueInv, Waits
<1>4. CASE Takes(r, rest)
  <2>1. holder = NoRequest /\ holder' = r /\ waiting' = rest /\ at'[r] = "persist"
    BY <1>4 DEF Takes
  <2>2. \A i \in DOMAIN rest : rest[i] # r
    BY DEF Behind
  <2>3. \A s \in Requests : at'[s] \in LockCalls => s = r \/ \E i \in DOMAIN rest : rest[i] = s
    BY <1>1, <1>2, <2>1, GateAssumption DEF Behind
  <2>4. \A i, j \in DOMAIN rest : rest[i] = rest[j] => i = j
    BY DEF Behind
  <2> QED
    BY <1>2, <2>1, <2>2, <2>3, <2>4 DEF QueueInv, Waits
<1>5. CASE Rejoins(r, rest)
  <2>1. waiting' = Append(rest, r) /\ holder' = holder /\ at'[r] \in LockCalls
    BY <1>5 DEF Rejoins
  <2>2. /\ DOMAIN waiting' = 1..(Len(rest) + 1) /\ Len(rest) \in Nat /\ DOMAIN rest = 1..Len(rest)
        /\ \A i \in DOMAIN rest : i \in DOMAIN waiting' /\ waiting'[i] = rest[i]
        /\ waiting'[Len(rest) + 1] = r /\ Len(rest) + 1 \in DOMAIN waiting'
        /\ \A i \in DOMAIN waiting' : i \in DOMAIN rest \/ i = Len(rest) + 1
    BY <1>1, <2>1, AppendFacts
  <2>3. \A i \in DOMAIN waiting' : at'[waiting'[i]] \in LockCalls /\ waiting'[i] # holder'
    BY <1>2, <2>1, <2>2 DEF Behind
  <2>4. \A i, j \in DOMAIN waiting' : waiting'[i] = waiting'[j] => i = j
    BY <2>2 DEF Behind
  <2>5. \A s \in Requests : at'[s] \in LockCalls => s = holder' \/ Waits(s)'
    BY <1>2, <2>1, <2>2 DEF Behind, Waits
  <2> QED
    BY <1>2, <2>1, <2>3, <2>4, <2>5 DEF QueueInv
<1> QED
  BY <1>3, <1>4, <1>5 DEF Turn

\* A step that neither waits nor holds, and leaves the queue alone.
LEMMA AsideQueue ==
    ASSUME TypeOK, QueueInv, UNCHANGED <<holder, waiting>>, up',
           \A s \in Requests : at'[s] = at[s] \/ (at[s] \notin LockCalls /\ at'[s] \notin LockCalls)
    PROVE  QueueInv'
<1>1. \A i \in DOMAIN waiting : waiting[i] \in Requests
  BY DEF TypeOK
<1>2. /\ \A i \in DOMAIN waiting : at'[waiting[i]] \in LockCalls
      /\ \A s \in Requests : at'[s] \in LockCalls => at[s] \in LockCalls
      /\ holder # NoRequest => at'[holder] = "persist"
  <2>1. "persist" \in LockCalls /\ holder \in Requests \union {NoRequest}
    BY DEF LockCalls, TypeOK
  <2> QED
    BY <1>1, <2>1 DEF QueueInv
<1> QED
  BY <1>2 DEF QueueInv, Waits
\* The three ways a handler asks for the lock.
LEMMA AskQueue ==
    ASSUME TypeOK, QueueInv, NEW r \in Requests, Arrive(r) \/ Compiled(r) \/ CountApproved(r)
    PROVE  QueueInv' /\ Stay /\ (holder # NoRequest => UNCHANGED memory)
<1>1. /\ at[r] \notin LockCalls /\ up /\ up' = up /\ at \in [Requests -> Places]
      /\ waiting \in Seq(Requests) /\ {"dedup", "get", "approval"} \subseteq LockCalls
  BY DEF Arrive, Compiled, CountApproved, Suspended, LockCalls, TypeOK
<1>2. Behind(r, waiting)
  <2>1. \A i \in DOMAIN waiting : waiting[i] # r
    BY <1>1 DEF QueueInv
  <2>2. r # holder
    BY <1>1, GateAssumption DEF QueueInv, LockCalls
  <2> QED
    BY <1>1, <2>1, <2>2 DEF QueueInv, Behind, Waits
<1>3. Turn(r, waiting) /\ (Takes(r, waiting) => holder = NoRequest)
      /\ (holder # NoRequest => UNCHANGED memory)
  <2>1. CASE Free
    <3>1. holder = NoRequest /\ waiting = <<>>
      BY <2>1 DEF Free
    <3>2. RunDedup(r, <<>>) \/ RunGet(r, <<>>) \/ RunApproval(r, <<>>)
      BY <2>1 DEF Arrive, Compiled, CountApproved
    <3> QED
      BY <1>1, <3>1, <3>2, CallsTakeTurns
  <2>2. CASE ~Free
    <3>1. PICK call \in LockCalls : Queue(r, call, waiting)
      BY <1>1, <2>2 DEF Arrive, Compiled, CountApproved
    <3>2. UNCHANGED <<holder, memory>>
      BY <2>2 DEF Arrive, Compiled, CountApproved
    <3>3. Turn(r, waiting)
      BY <1>1, <3>1, <3>2, GoesTo DEF Queue, Turn, Rejoins
    <3>4. ~Takes(r, waiting)
      BY <1>2, <3>2 DEF Takes, Behind
    <3> QED
      BY <3>2, <3>3, <3>4
  <2> QED
    BY <2>1, <2>2
<1>4. QueueInv'
  BY <1>1, <1>2, <1>3, TurnQueue
<1>5. Stay
  <2>1. waiting' = waiting \/ waiting' = Append(waiting, r)
    BY <1>3 DEF Turn, Leaves, Rejoins, Takes
  <2>2. \A i \in DOMAIN waiting :
            i \in DOMAIN Append(waiting, r) /\ Append(waiting, r)[i] = waiting[i]
    BY <1>1, AppendFacts
  <2> QED
    BY <2>1, <2>2 DEF Stay
<1> QED
  BY <1>3, <1>4, <1>5

LEMMA WakeQueue ==
    ASSUME TypeOK, QueueInv, Wake
    PROVE  QueueInv' /\ MoveUp
<1> DEFINE r == Head(waiting)
           rest == Tail(waiting)
<1>1. /\ up /\ up' = up /\ holder = NoRequest /\ waiting # <<>>
      /\ waiting \in Seq(Requests) /\ at \in [Requests -> Places]
  BY DEF Wake, Suspended, TypeOK
<1>2. /\ rest \in Seq(Requests) /\ r \in Requests /\ 1 \in DOMAIN waiting /\ waiting[1] = r
      /\ \A i \in DOMAIN rest : i + 1 \in DOMAIN waiting /\ i + 1 # 1 /\ rest[i] = waiting[i + 1]
      /\ \A i \in DOMAIN waiting \ {1} : i - 1 \in DOMAIN rest /\ rest[i - 1] = waiting[i]
  BY <1>1, TailFacts
<1>3. Turn(r, rest)
  <2>1. \/ RunDedup(r, rest) \/ RunGet(r, rest) \/ RunApproval(r, rest) \/ RunRecord(r, rest)
        \/ RunPersist(r, rest)
    BY DEF Wake
  <2> QED
    BY <1>1, <1>2, <2>1, CallsTakeTurns
<1>4. Behind(r, rest)
  <2>1. \A i \in DOMAIN rest : at[rest[i]] \in LockCalls /\ rest[i] # holder
    BY <1>2 DEF QueueInv
  <2>2. \A i \in DOMAIN rest : rest[i] # r
    BY <1>2 DEF QueueInv
  <2>3. \A i, j \in DOMAIN rest : rest[i] = rest[j] => i = j
    <3>1. DOMAIN rest \subseteq Int
      BY <1>2
    <3>2. \A i, j \in DOMAIN rest : rest[i] = rest[j] => i + 1 = j + 1
      BY <1>2 DEF QueueInv
    <3> HIDE DEF rest
    <3> QED
      BY <3>1, <3>2
  <2>4. \A s \in Requests : s # r /\ at[s] \in LockCalls => \E i \in DOMAIN rest : rest[i] = s
    <3>1. ASSUME NEW s \in Requests, s # r, at[s] \in LockCalls
          PROVE  \E i \in DOMAIN rest : rest[i] = s
      <4>1. PICK i \in DOMAIN waiting : waiting[i] = s
        BY <1>1, <3>1, GateAssumption DEF QueueInv, Waits
      <4>2. i # 1
        BY <1>2, <3>1, <4>1
      <4> QED
        BY <1>2, <4>1, <4>2
    <3> QED
      BY <3>1
  <2> HIDE DEF r, rest
  <2> QED
    BY <1>1, <1>2, <2>1, <2>2, <2>3, <2>4, GateAssumption DEF Behind
<1> HIDE DEF r, rest
<1>5. QueueInv'
  BY <1>1, <1>2, <1>3, <1>4, TurnQueue
<1>6. MoveUp
  <2>1. \A i \in DOMAIN rest : i \in DOMAIN waiting' /\ waiting'[i] = rest[i]
    <3>1. waiting' = rest \/ waiting' = Append(rest, r)
      BY <1>3 DEF Turn, Leaves, Rejoins, Takes
    <3>2. \A i \in DOMAIN rest : i \in DOMAIN Append(rest, r) /\ Append(rest, r)[i] = rest[i]
      BY <1>2, AppendFacts
    <3> QED
      BY <3>1, <3>2
  <2> QED
    BY <1>1, <1>2, <2>1 DEF MoveUp
<1> QED
  BY <1>5, <1>6

LEMMA QueueStep ==
    ASSUME TypeOK, QueueInv, [Next]_vars
    PROVE  QueueInv' /\ InOrder /\ Undisturbed
<1>1. /\ at \in [Requests -> Places] /\ holder \in Requests \union {NoRequest}
      /\ waiting \in Seq(Requests)
  BY DEF TypeOK
<1>2. UNCHANGED waiting => Stay
  BY DEF Stay
<1>3. ASSUME NEW r \in Requests, Arrive(r) \/ Compiled(r) \/ CountApproved(r)
      PROVE  QueueInv' /\ InOrder /\ Undisturbed
  <2>1. UNCHANGED disk
    BY <1>3 DEF Arrive, Compiled, CountApproved, Suspended, database
  <2> QED
    BY <1>3, <2>1, AskQueue DEF InOrder, Undisturbed
<1>4. CASE Wake
  BY <1>4, WakeQueue DEF Wake, InOrder, Undisturbed
<1>5. CASE PersistDone \/ PersistFails
  <2>1. /\ holder # NoRequest /\ holder' = NoRequest /\ waiting' = waiting /\ up /\ up' = up
        /\ \E place \in Places \ LockCalls : Goes(holder, place)
    BY <1>5 DEF PersistDone, PersistFails, AfterPersist, ReleasedOnError, Suspended, Places, LockCalls
  <2>2. PICK place \in Places \ LockCalls : Goes(holder, place)
    BY <2>1
  <2>3. /\ at'[holder] \notin LockCalls /\ holder \in Requests
        /\ \A s \in Requests : s # holder => at'[s] = at[s]
    BY <1>1, <2>1, <2>2, GoesTo
  <2>4. \A i \in DOMAIN waiting : waiting[i] \in Requests /\ waiting[i] # NoRequest
    BY <1>1, GateAssumption
  <2>5. QueueInv'
    BY <2>1, <2>3, <2>4 DEF QueueInv, Waits
  <2> QED
    BY <1>2, <2>1, <2>5 DEF InOrder, Undisturbed
<1>6. ASSUME NEW r \in Requests,
             RecordIssued(r) \/ LogIssued(r) \/ HumanApproves(r) \/ HandlerError(r)
      PROVE  QueueInv' /\ InOrder /\ Undisturbed
  <2>1. PICK place \in {"log", "end", "approved"} : Goes(r, place)
    BY <1>6 DEF RecordIssued, LogIssued, HumanApproves, HandlerError
  <2>2. /\ at[r] \notin LockCalls /\ place \notin LockCalls /\ up /\ up' = up
        /\ UNCHANGED <<holder, waiting, memory, disk>>
    BY <1>6, <2>1
    DEF RecordIssued, LogIssued, HumanApproves, HandlerError, LockCalls, database
  <2>3. at'[r] = place /\ \A s \in Requests : s # r => at'[s] = at[s]
    BY <1>1, <2>1, GoesTo
  <2>4. QueueInv'
    BY <2>2, <2>3, AsideQueue
  <2> QED
    BY <1>2, <2>2, <2>4 DEF InOrder, Undisturbed
<1>7. ASSUME NEW t \in Threads, ResetSession(t)
      PROVE  QueueInv' /\ InOrder /\ Undisturbed
  <2>1. UNCHANGED <<at, holder, waiting>> /\ up' = up /\ up /\ holder = NoRequest
    BY <1>7 DEF ResetSession
  <2>2. QueueInv'
    BY <2>1, AsideQueue
  <2> QED
    BY <1>2, <2>1, <2>2 DEF InOrder, Undisturbed
<1>8. CASE Crash
  <2>1. /\ ~up' /\ holder' = NoRequest /\ waiting' = <<>>
        /\ at' = [r \in Requests |-> AfterCrash(r)]
        /\ DOMAIN waiting' = {}
    BY <1>8 DEF Crash
  <2>2. \A r \in Requests : at'[r] \notin LockCalls
    BY <2>1 DEF AfterCrash, LockCalls
  <2>3. QueueInv'
    BY <2>1, <2>2 DEF QueueInv
  <2> QED
    BY <2>1, <2>3 DEF InOrder, Undisturbed
<1>9. CASE Restart
  <2>1. UNCHANGED <<at, holder, waiting>> /\ up' /\ ~up
    BY <1>9 DEF Restart
  <2>2. QueueInv'
    BY <2>1, AsideQueue
  <2> QED
    BY <1>2, <2>1, <2>2 DEF InOrder, Undisturbed, QueueInv
<1>10. CASE Tick \/ UNCHANGED vars
  <2>1. UNCHANGED <<at, holder, waiting, up, memory, disk>>
    BY <1>10 DEF Tick, vars, database, memory
  <2>2. QueueInv'
    BY <2>1 DEF QueueInv, Waits
  <2> QED
    BY <1>2, <2>1, <2>2 DEF InOrder, Undisturbed
<1> QED
  BY <1>3, <1>4, <1>5, <1>6, <1>7, <1>8, <1>9, <1>10 DEF Next, HandlerStep

LEMMA QueueInit == Init => QueueInv
  BY DEF Init, QueueInv, LockCalls

LEMMA QueueInductive == Spec => [](GateInv /\ QueueInv)
<1>1. Init => GateInv /\ QueueInv
  BY GateInit, QueueInit
<1>2. GateInv /\ QueueInv /\ [Next]_vars => (GateInv /\ QueueInv)'
  BY GateNext, QueueStep DEF GateInv
<1> QED
  BY <1>1, <1>2, PTL DEF Spec

\* The safety part of LockIsGranted: whatever fails, queues or crashes, no handler is ever
\* left in a call of the tracker with neither a persist to end nor a turn in the queue to
\* come (session.py, every method that takes self._lock).
THEOREM NoWakeUpIsLost == Spec => []NoLostWakeUp
<1>1. GateInv /\ QueueInv => NoLostWakeUp
  <2> SUFFICES ASSUME GateInv, QueueInv, NEW r \in Requests, at[r] \in LockCalls
               PROVE  /\ up
                      /\ \/ holder # NoRequest /\ at[holder] = "persist"
                         \/ holder = NoRequest /\ waiting # <<>> /\ at[Head(waiting)] \in LockCalls
    BY DEF NoLostWakeUp
  <2>1. CASE holder # NoRequest
    BY <2>1 DEF QueueInv
  <2>2. CASE holder = NoRequest
    <3>1. PICK i \in DOMAIN waiting : waiting[i] = r
      BY <2>2, GateAssumption DEF QueueInv, Waits
    <3>2. waiting # <<>> /\ waiting \in Seq(Requests)
      BY <3>1 DEF GateInv, TypeOK
    <3> QED
      BY <2>2, <3>2, TailFacts DEF QueueInv
  <2> QED
    BY <2>1, <2>2
<1> QED
  BY <1>1, QueueInductive, PTL

\* Handlers get the lock in the order they asked for it: nobody who waits is passed by, and
\* each turn brings all the others one place nearer.  The other part of LockIsGranted.
THEOREM LockIsFirstComeFirstServed == Spec => FirstComeFirstServed
<1>1. GateInv /\ QueueInv /\ [Next]_vars => [InOrder]_vars
  BY QueueStep DEF GateInv
<1> QED
  BY <1>1, QueueInductive, PTL DEF Spec, FirstComeFirstServed

\* What a persist reads of the history before its first await is what it commits after its
\* last: no other handler, reset or clock changes the tracker in between.
THEOREM PersistHasTheTracker == Spec => PersistIsUndisturbed
<1>1. GateInv /\ QueueInv /\ [Next]_vars => [Undisturbed]_vars
  BY QueueStep DEF GateInv
<1> QED
  BY <1>1, QueueInductive, PTL DEF Spec, PersistIsUndisturbed
=============================================================================
