-------------------------- MODULE Enforcement_proofs --------------------------
(***************************************************************************)
(* Proofs about Enforcement, for every set of capsules, calls and threads, *)
(* every assignment of grants, threads and servers, every lifetime and any *)
(* number of crashes.                                                      *)
(***************************************************************************)
EXTENDS Enforcement, TLAPS

-----------------------------------------------------------------------------
\* The operators on capsules and rows.

\* The latest row of a thread is one of its rows, or there is none.
LEMMA LatestType ==
    ASSUME NEW t \in Threads, issued[t] \in Seq(Capsules)
    PROVE  \/ Latest(t) = None
           \/ /\ Latest(t) \in Capsules
              /\ Len(issued[t]) \in DOMAIN issued[t]
              /\ Latest(t) = issued[t][Len(issued[t])]
  BY DEF Latest, Last

LEMMA RefreshedType ==
    ASSUME NEW old \in Capsules \union {None}, NEW new \in Capsules \union {None}
    PROVE  /\ Refreshed(old, new) \in {old, new}
           /\ Refreshed(old, new) \in Capsules \union {None}
           /\ Refreshed(old, new) # old => new # None /\ new \notin Unverifiable
  BY DEF Refreshed, Registers

\* Contains, on the rows of a thread.
LEMMA IssuedAlreadyType ==
    ASSUME NEW c \in Capsules, issued[ThreadOf[c]] \in Seq(Capsules)
    PROVE  IssuedAlready(c) <=> \E i \in DOMAIN issued[ThreadOf[c]] : issued[ThreadOf[c]][i] = c
  BY DEF IssuedAlready, Contains

-----------------------------------------------------------------------------
\* The inductive invariant.

Occurs(c, t) == \E i \in DOMAIN issued[t] : issued[t][i] = c

\* A row is kept for the thread of its capsule, and once.
IssuedOnce ==
    \A t \in Threads :
        /\ \A i \in DOMAIN issued[t] : ThreadOf[issued[t][i]] = t
        /\ \A i, j \in DOMAIN issued[t] : issued[t][i] = issued[t][j] => i = j

\* What is bound was recorded, and verified.
BoundWasIssued ==
    \A s \in Servers, t \in Threads :
        bound[s][t] # None => Occurs(bound[s][t], t) /\ bound[s][t] \notin Unverifiable

LoadedWasIssued == \A q \in Calls : loaded[q] # None => Occurs(loaded[q], ThreadOf[q])

\* From its SELECT to its binding a call holds the lock of its server's store:
\* what it read is not older than what is bound, and the newest, at the API server.
LockedWhileLoaded ==
    \A q \in Calls : at[q] = "loaded" =>
        /\ guard[ServerOf[q]] = q
        /\ ~Newer(ThreadOf[q], bound[ServerOf[q]][ThreadOf[q]], loaded[q])
        /\ ServerOf[q] = "api" /\ loaded[q] # None => loaded[q] = Latest(ThreadOf[q])

\* A call is answered under a capsule of its thread that verified, and goes on
\* from its check only if that capsule grants it.
UsesAGrant ==
    \A q \in Calls : using[q] # None =>
        /\ ThreadOf[using[q]] = ThreadOf[q]
        /\ using[q] \notin Unverifiable
        /\ at[q] # "log blocked" => q \in Grants[using[q]]

\* The attempt is on record from before the tool runs; until then a call has no
\* record, and until it ends no other one.
RecordedBy(q) ==
    /\ at[q] \in {"run", "log allowed", "log rejected", "log exception"} =>
           <<q, using[q], "attempt">> \in audit
    /\ at[q] = "log allowed" => <<q, using[q]>> \in effect
    /\ \A r \in audit : r[1] = q =>
           /\ at[q] \notin {"new", "loaded", "log blocked", "log attempt"}
           /\ at[q] # "end" => r[2] = using[q] /\ r[3] = "attempt"

RecordsFollowCalls == \A q \in Calls : RecordedBy(q)

LogInv == EffectIsLogged /\ EffectIsGranted /\ RecordsAgree /\ RecordsFollowCalls
BindInv == IssuedOnce /\ BoundWasIssued /\ LoadedWasIssued /\ LockedWhileLoaded /\ UsesAGrant
IInv == TypeOK /\ BindInv /\ LogInv

LEMMA InitInv == Init => IInv
<1> SUFFICES ASSUME Init PROVE IInv
  OBVIOUS
<1>1. TypeOK
  BY EnforcementAssumption
  DEF Init, TypeOK, RowsTypeOK, CallsTypeOK, LockTypeOK, LogTypeOK, Places
<1>2. BindInv
  BY DEF Init, BindInv, IssuedOnce, BoundWasIssued, LoadedWasIssued, LockedWhileLoaded, UsesAGrant
<1>3. LogInv
  BY DEF Init, LogInv, EffectIsLogged, EffectIsGranted, RecordsAgree, RecordsFollowCalls, RecordedBy
<1> QED
  BY <1>1, <1>2, <1>3 DEF IInv

-----------------------------------------------------------------------------
\* Types.

LEMMA GoesType ==
    ASSUME CallsTypeOK, NEW q \in Calls, NEW place \in Places, Goes(q, place)
    PROVE  /\ at' \in [Calls -> Places] /\ at'[q] = place
           /\ \A r \in Calls : r # q => at'[r] = at[r]
  BY DEF CallsTypeOK, Goes

LEMMA EndsType ==
    ASSUME CallsTypeOK, NEW q \in Calls, Ends(q)
    PROVE  /\ at' \in [Calls -> Places] /\ at'[q] = "end"
           /\ using' \in [Calls -> Capsules \union {None}] /\ using'[q] = None
           /\ \A r \in Calls : r # q => at'[r] = at[r] /\ using'[r] = using[r]
<1>1. "end" \in Places
  BY DEF Places
<1>2. Goes(q, "end") /\ using' = [using EXCEPT ![q] = None]
  BY DEF Ends
<1> QED
  BY <1>1, <1>2, GoesType DEF CallsTypeOK

\* What every Rebind keeps, whatever its call goes on to.
LEMMA RebindType ==
    ASSUME RowsTypeOK, CallsTypeOK, LockTypeOK, NEW q \in Calls, Rebind(q)
    PROVE  /\ at[q] = "loaded" /\ using[q] = None
           /\ guard' \in [Servers -> Calls \union {None}]
           /\ \A s \in Servers : guard'[s] # None =>
                  guard'[s] = guard[s] /\ guard'[s] # q
           /\ bound' \in [Servers -> [Threads -> Capsules \union {None}]]
           /\ bound'[ServerOf[q]][ThreadOf[q]] =
                  Refreshed(bound[ServerOf[q]][ThreadOf[q]], loaded[q])
           /\ \A s \in Servers, t \in Threads :
                  \/ bound'[s][t] = bound[s][t]
                  \/ /\ s = ServerOf[q] /\ t = ThreadOf[q]
                     /\ bound'[s][t] = loaded[q]
                     /\ loaded[q] # None /\ loaded[q] \notin Unverifiable
           /\ loaded' \in [Calls -> Capsules \union {None}]
           /\ loaded' = [loaded EXCEPT ![q] = None]
<1> DEFINE s == ServerOf[q]
           t == ThreadOf[q]
           new == Refreshed(bound[s][t], loaded[q])
<1>1. s \in Servers /\ t \in Threads
  BY EnforcementAssumption
<1>2. at[q] = "loaded" /\ using[q] = None
  BY DEF CallsTypeOK, Rebind
<1>3. loaded' = [loaded EXCEPT ![q] = None] /\ loaded' \in [Calls -> Capsules \union {None}]
  BY DEF CallsTypeOK, Rebind
<1>4. /\ guard' \in [Servers -> Calls \union {None}]
      /\ \A u \in Servers : guard'[u] # None => guard'[u] = guard[u] /\ guard'[u] # q
  BY <1>1 DEF LockTypeOK, Rebind, ReleasedBy
<1>5. bound[s][t] \in Capsules \union {None} /\ loaded[q] \in Capsules \union {None}
  BY <1>1 DEF RowsTypeOK, CallsTypeOK
<1>6. /\ new \in Capsules \union {None}
      /\ new = bound[s][t] \/ (new = loaded[q] /\ loaded[q] # None /\ loaded[q] \notin Unverifiable)
  BY <1>5 DEF Refreshed, Registers
<1>7. bound' = [bound EXCEPT ![s][t] = new]
  BY <1>1 DEF RowsTypeOK, Rebind
<1> HIDE DEF new, s, t
<1>8. /\ bound' \in [Servers -> [Threads -> Capsules \union {None}]]
      /\ bound'[s][t] = new
      /\ \A u \in Servers, v \in Threads : <<u, v>> # <<s, t>> => bound'[u][v] = bound[u][v]
  BY <1>1, <1>6, <1>7 DEF RowsTypeOK
<1> USE DEF s, t, new
<1> QED
  BY <1>2, <1>3, <1>4, <1>6, <1>8
LEMMA LoggedType ==
    ASSUME LogTypeOK, NEW q \in Calls, using[q] \in Capsules, NEW record \in Records,
           Logged(q, record), UNCHANGED effect
    PROVE  LogTypeOK'
  BY DEF LogTypeOK, Logged

LEMMA ActedType ==
    ASSUME LogTypeOK, NEW q \in Calls, using[q] \in Capsules,
           effect' \in {effect, effect \union {<<q, using[q]>>}}, UNCHANGED audit
    PROVE  LogTypeOK'
  BY DEF LogTypeOK

\* A lock that is not taken stays well held if its holder is still reading.
LEMMA LockKept ==
    ASSUME LockTypeOK, guard' \in [Servers -> Calls \union {None}],
           \A s \in Servers, r \in Calls :
               guard'[s] = r => guard[s] = r /\ (at[r] = "loaded" => at'[r] = "loaded")
    PROVE  LockTypeOK'
<1>1. ASSUME NEW s \in Servers, guard'[s] # None
      PROVE  at'[guard'[s]] = "loaded" /\ ServerOf[guard'[s]] = s
  <2>1. PICK r \in Calls : guard'[s] = r
    BY <1>1
  <2>2. guard[s] = r /\ r # None
    BY <1>1, <2>1
  <2>3. at[r] = "loaded" /\ ServerOf[r] = s
    BY <2>2 DEF LockTypeOK
  <2> QED
    BY <2>1, <2>2, <2>3
<1> QED
  BY <1>1 DEF LockTypeOK

\* Every step keeps the types, one action at a time.
LEMMA TypeStep == TypeOK /\ [Next]_vars => TypeOK'
<1> SUFFICES ASSUME RowsTypeOK, CallsTypeOK, LockTypeOK, LogTypeOK, [Next]_vars
             PROVE  RowsTypeOK' /\ CallsTypeOK' /\ LockTypeOK' /\ LogTypeOK'
  BY DEF TypeOK
<1> DEFINE Goal == RowsTypeOK' /\ CallsTypeOK' /\ LockTypeOK' /\ LogTypeOK'
<1>1. ASSUME NEW q \in Calls, Load(q)
      PROVE  Goal
  <2>1. Latest(ThreadOf[q]) \in Capsules \union {None}
    BY EnforcementAssumption, LatestType DEF RowsTypeOK
  <2>2. Goes(q, "loaded") /\ "loaded" \in Places /\ at[q] = "new"
    BY <1>1 DEF Load, Places
  <2>3. at' \in [Calls -> Places] /\ at'[q] = "loaded" /\ \A r \in Calls : r # q => at'[r] = at[r]
    BY <2>2, GoesType
  <2>4. loaded' \in [Calls -> Capsules \union {None}]
    BY <1>1, <2>1 DEF Load, CallsTypeOK
  <2>5. guard' \in [Servers -> Calls \union {None}]
    BY <1>1, EnforcementAssumption DEF Load, LockTypeOK
  <2>6. guard' = [guard EXCEPT ![ServerOf[q]] = q]
    BY <1>1 DEF Load
  <2>7. LockTypeOK'
    BY <2>2, <2>3, <2>5, <2>6, EnforcementAssumption DEF LockTypeOK
  <2>8. CallsTypeOK'
    BY <1>1, <2>2, <2>3, <2>4 DEF CallsTypeOK, Load
  <2> QED
    BY <1>1, <2>7, <2>8 DEF RowsTypeOK, LogTypeOK, Load
<1>2. ASSUME NEW q \in Calls, ListTools(q) \/ CheckNoCapsule(q)
      PROVE  Goal
  <2>1. Rebind(q) /\ Ends(q)
    BY <1>2 DEF ListTools, CheckNoCapsule
  <2>2. LockTypeOK'
    BY <2>1, RebindType, EndsType DEF LockTypeOK
  <2>3. CallsTypeOK'
    BY <2>1, RebindType, EndsType DEF CallsTypeOK
  <2> QED
    BY <1>2, <2>1, <2>2, <2>3, RebindType DEF RowsTypeOK, LogTypeOK, ListTools, CheckNoCapsule
<1>3. ASSUME NEW q \in Calls, CheckCall(q)
      PROVE  Goal
  <2> DEFINE c == Refreshed(bound[ServerOf[q]][ThreadOf[q]], loaded[q])
  <2>1. Rebind(q) /\ c # None /\ using' = [using EXCEPT ![q] = c]
    BY <1>3 DEF CheckCall
  <2>2. PICK place \in {"log blocked", "log attempt"} : Goes(q, place)
    BY <1>3 DEF CheckCall
  <2>3. /\ at[q] = "loaded" /\ using[q] = None
        /\ guard' \in [Servers -> Calls \union {None}]
        /\ \A s \in Servers : guard'[s] # None => guard'[s] = guard[s] /\ guard'[s] # q
        /\ loaded' \in [Calls -> Capsules \union {None}]
    BY <2>1, RebindType
  <2>4. c \in Capsules
    <3>1. ServerOf[q] \in Servers /\ ThreadOf[q] \in Threads
      BY EnforcementAssumption
    <3>2. bound[ServerOf[q]][ThreadOf[q]] \in Capsules \union {None}
      BY <3>1 DEF RowsTypeOK
    <3>3. loaded[q] \in Capsules \union {None}
      BY DEF CallsTypeOK
    <3> QED
      BY <2>1, <3>2, <3>3 DEF Refreshed
  <2> HIDE DEF c
  <2>5. /\ at' \in [Calls -> Places] /\ at'[q] = place
        /\ \A r \in Calls : r # q => at'[r] = at[r]
    BY <2>2, GoesType DEF Places
  <2>6. LockTypeOK'
    <3>1. ASSUME NEW s \in Servers, NEW r \in Calls, guard'[s] = r
          PROVE  guard[s] = r /\ (at[r] = "loaded" => at'[r] = "loaded")
      <4>1. r # None
        BY EnforcementAssumption
      <4>2. guard[s] = r /\ r # q
        BY <2>3, <3>1, <4>1
      <4> QED
        BY <2>5, <4>2
    <3>2. \A s \in Servers, r \in Calls :
              guard'[s] = r => guard[s] = r /\ (at[r] = "loaded" => at'[r] = "loaded")
      BY <3>1
    <3> QED
      BY <2>3, <3>2, LockKept
  <2>7. CallsTypeOK'
    <3>1. using' \in [Calls -> Capsules \union {None}]
      BY <2>1, <2>4 DEF CallsTypeOK
    <3>2. \A r \in Calls : at'[r] \in {"new", "loaded", "end"} <=> using'[r] = None
      BY <2>1, <2>4, <2>5, EnforcementAssumption DEF CallsTypeOK
    <3> QED
      BY <2>3, <2>5, <3>1, <3>2 DEF CallsTypeOK
  <2> QED
    BY <1>3, <2>1, <2>6, <2>7, RebindType DEF RowsTypeOK, LogTypeOK, CheckCall
<1>4. ASSUME NEW q \in Calls, LogBlocked(q) \/ LogAttempt(q) \/ LogResult(q)
      PROVE  Goal
  <2>1. using[q] \in Capsules /\ at[q] \notin {"new", "loaded", "end"}
    BY <1>4 DEF CallsTypeOK, LogBlocked, LogAttempt, LogResult
  <2>2. LogTypeOK'
    <3>1. UNCHANGED effect /\ \E record \in Records : Logged(q, record)
      BY <1>4 DEF LogBlocked, LogAttempt, LogResult, Records
    <3> QED
      BY <2>1, <3>1, LoggedType
  <2>3. /\ CallUnchanged
        /\ Ends(q) \/ (Goes(q, "run") /\ using' = using)
    BY <1>4 DEF LogBlocked, LogAttempt, LogResult
  <2>4. /\ CallsTypeOK'
        /\ \A r \in Calls : at[r] = "loaded" => at'[r] = "loaded"
    BY <2>1, <2>3, EndsType, GoesType DEF CallsTypeOK, CallUnchanged, Places
  <2> QED
    BY <2>2, <2>3, <2>4 DEF RowsTypeOK, LockTypeOK, CallUnchanged
<1>5. ASSUME NEW q \in Calls, Run(q)
      PROVE  Goal
  <2>1. using[q] \in Capsules /\ at[q] = "run"
    BY <1>5 DEF CallsTypeOK, Run
  <2>2. LogTypeOK'
    <3>1. UNCHANGED audit /\ effect' \in {effect, effect \union {<<q, using[q]>>}}
      BY <1>5 DEF Run
    <3> QED
      BY <2>1, <3>1, ActedType
  <2>3. PICK place \in {"log allowed", "log rejected", "log exception"} : Goes(q, place)
    BY <1>5 DEF Run
  <2>4. CallUnchanged /\ using' = using
    BY <1>5 DEF Run
  <2>5. /\ CallsTypeOK'
        /\ \A r \in Calls : at[r] = "loaded" => at'[r] = "loaded"
    BY <2>1, <2>3, <2>4, GoesType DEF CallsTypeOK, CallUnchanged, Places
  <2> QED
    BY <2>2, <2>4, <2>5 DEF RowsTypeOK, LockTypeOK, CallUnchanged
<1>6. ASSUME NEW q \in Calls, LogFails(q)
      PROVE  Goal
  <2>1. /\ CallUnchanged /\ UNCHANGED <<effect, audit>> /\ at[q] \notin {"new", "loaded", "end"}
        /\ Ends(q) \/ (Goes(q, "log exception") /\ using' = using)
    BY <1>6 DEF LogFails, AfterFailedLog
  <2>2. /\ CallsTypeOK'
        /\ \A r \in Calls : at[r] = "loaded" => at'[r] = "loaded"
    <3>1. CASE Ends(q)
      BY <2>1, <3>1, EndsType DEF CallsTypeOK, CallUnchanged
    <3>2. CASE Goes(q, "log exception") /\ using' = using
      BY <2>1, <3>2, GoesType DEF CallsTypeOK, CallUnchanged, Places
    <3> QED
      BY <2>1, <3>1, <3>2
  <2>3. RowsTypeOK' /\ LockTypeOK'
    BY <2>1, <2>2, LockKept DEF RowsTypeOK, LockTypeOK, CallUnchanged
  <2> QED
    BY <2>1, <2>2, <2>3 DEF LogTypeOK
<1>7. ASSUME NEW c \in Capsules, RecordIssued(c)
      PROVE  Goal
  <2>1. ThreadOf[c] \in Threads
    BY EnforcementAssumption
  <2>2. issued' \in [Threads -> Seq(Capsules)] /\ age' \in [Capsules -> 0..Life]
    BY <1>7, <2>1, EnforcementAssumption DEF RowsTypeOK, RecordIssued
  <2> QED
    BY <1>7, <2>2 DEF RowsTypeOK, CallsTypeOK, LockTypeOK, LogTypeOK, RecordIssued
<1>8. ASSUME NEW s \in Servers, Crash(s)
      PROVE  Goal
  <2>1. CallsTypeOK'
    <3>1. /\ at' \in [Calls -> Places]
          /\ loaded' \in [Calls -> Capsules \union {None}]
          /\ using' \in [Calls -> Capsules \union {None}]
      BY <1>8 DEF CallsTypeOK, Crash, Places
    <3>2. \A r \in Calls : at'[r] \in {"new", "loaded", "end"} <=> using'[r] = None
      BY <1>8 DEF CallsTypeOK, Crash
    <3> QED
      BY <3>1, <3>2 DEF CallsTypeOK
  <2>2. LockTypeOK'
    <3>1. \A r \in Calls : ServerOf[r] # s => at'[r] = at[r]
      BY <1>8 DEF Crash
    <3>2. guard' = [guard EXCEPT ![s] = None]
      BY <1>8 DEF Crash
    <3> QED
      BY <3>1, <3>2 DEF LockTypeOK
  <2>3. RowsTypeOK'
    BY <1>8, EnforcementAssumption DEF RowsTypeOK, Crash
  <2> QED
    BY <1>8, <2>1, <2>2, <2>3 DEF LogTypeOK, Crash
<1>9. ASSUME NEW t \in Threads, StartStdio(t)
      PROVE  Goal
  <2>1. Refreshed(None, Latest(t)) \in Capsules \union {None}
    BY LatestType DEF RowsTypeOK, Refreshed
  <2>2. bound' \in [Servers -> [Threads -> Capsules \union {None}]]
    BY <1>9, <2>1 DEF RowsTypeOK, StartStdio, Servers
  <2> QED
    BY <1>9, <2>2 DEF RowsTypeOK, CallsTypeOK, LockTypeOK, LogTypeOK, StartStdio
<1>10. CASE Tick
  <2>1. age' \in [Capsules -> 0..Life]
    BY <1>10, EnforcementAssumption DEF RowsTypeOK, Tick
  <2> QED
    BY <1>10, <2>1 DEF RowsTypeOK, CallsTypeOK, LockTypeOK, LogTypeOK, Tick
<1>11. CASE UNCHANGED vars
  BY <1>11 DEF RowsTypeOK, CallsTypeOK, LockTypeOK, LogTypeOK, vars
<1> QED
  BY <1>1, <1>2, <1>3, <1>4, <1>5, <1>6, <1>7, <1>8, <1>9, <1>10, <1>11 DEF Next, CallStep
-----------------------------------------------------------------------------
\* Binding.

\* The row of a new capsule is the last of its thread; the others stay.
LEMMA RecordRows ==
    ASSUME RowsTypeOK, NEW c \in Capsules, RecordIssued(c), NEW t \in Threads
    PROVE  /\ \A i \in DOMAIN issued[t] : i \in DOMAIN issued'[t] /\ issued'[t][i] = issued[t][i]
           /\ \A i \in DOMAIN issued'[t] :
                  \/ i \in DOMAIN issued[t]
                  \/ /\ t = ThreadOf[c] /\ issued'[t][i] = c /\ i = Len(issued[t]) + 1
                     /\ \A j \in DOMAIN issued[t] : issued[t][j] # c
<1>1. issued[t] \in Seq(Capsules) /\ ThreadOf[c] \in Threads
  BY EnforcementAssumption DEF RowsTypeOK
<1>2. CASE t = ThreadOf[c]
  <2>1. issued'[t] = Append(issued[t], c)
    BY <1>1, <1>2 DEF RecordIssued, RowsTypeOK
  <2>2. \A j \in DOMAIN issued[t] : issued[t][j] # c
    BY <1>1, <1>2, IssuedAlreadyType DEF RecordIssued
  <2> QED
    BY <1>1, <1>2, <2>1, <2>2
<1>3. CASE t # ThreadOf[c]
  <2>1. issued'[t] = issued[t]
    BY <1>3 DEF RecordIssued, RowsTypeOK
  <2> QED
    BY <2>1
<1> QED
  BY <1>2, <1>3

\* Nothing recorded is newer than the latest row, and no capsule than itself.
LEMMA NewerThanLatest ==
    ASSUME RowsTypeOK, IssuedOnce, NEW t \in Threads, NEW c
    PROVE  /\ ~Newer(t, c, Latest(t))
           /\ ~Newer(t, c, c)
           /\ ~Newer(t, c, None)
           /\ ~Newer(t, None, c)
<1>1. issued[t] \in Seq(Capsules) /\ None \notin Capsules
  BY EnforcementAssumption DEF RowsTypeOK
<1>2. ~Newer(t, c, c) /\ ~Newer(t, c, None) /\ ~Newer(t, None, c)
  BY <1>1 DEF Newer, IssuedOnce
<1>3. CASE Latest(t) = None
  BY <1>2, <1>3
<1>4. CASE Latest(t) = issued[t][Len(issued[t])] /\ Len(issued[t]) \in DOMAIN issued[t]
  BY <1>1, <1>4 DEF Newer, IssuedOnce
<1> QED
  BY <1>1, <1>3, <1>4, LatestType

RowsInv == IssuedOnce /\ BoundWasIssued /\ LoadedWasIssued /\ LockedWhileLoaded

\* A step that leaves rows, bindings, locks and reads alone.
LEMMA RowsKept ==
    ASSUME RowsInv, UNCHANGED <<issued, bound, guard, loaded>>,
           \A q \in Calls : at'[q] = "loaded" => at[q] = "loaded"
    PROVE  RowsInv'
  BY DEF RowsInv, IssuedOnce, BoundWasIssued, LoadedWasIssued, LockedWhileLoaded,
         Occurs, Newer, Latest

LEMMA LoadRows ==
    ASSUME TypeOK, RowsInv, NEW q \in Calls, Load(q)
    PROVE  RowsInv'
<1> DEFINE s == ServerOf[q]
           t == ThreadOf[q]
<1>1. s \in Servers /\ t \in Threads /\ q # None /\ None \notin Capsules
  BY EnforcementAssumption
<1>2. /\ UNCHANGED <<issued, bound>> /\ guard[s] = None /\ guard' = [guard EXCEPT ![s] = q]
      /\ \A r \in Calls : r # q => at'[r] = at[r] /\ loaded'[r] = loaded[r]
      /\ loaded'[q] = Latest(t) \/ loaded'[q] = None
  BY DEF TypeOK, CallsTypeOK, Load, LockFree, Goes
<1>3. IssuedOnce' /\ BoundWasIssued'
  BY <1>2 DEF RowsInv, IssuedOnce, BoundWasIssued, Occurs
<1>4. Latest(t) # None => Occurs(Latest(t), t)
  BY <1>1, LatestType DEF TypeOK, RowsTypeOK, Occurs
<1>5. LoadedWasIssued'
  BY <1>2, <1>4 DEF RowsInv, LoadedWasIssued, Occurs
<1>6. ~Newer(t, bound[s][t], Latest(t)) /\ ~Newer(t, bound[s][t], None)
  BY <1>1, NewerThanLatest DEF TypeOK, RowsInv
<1>7. ASSUME NEW r \in Calls, at'[r] = "loaded"
      PROVE  /\ guard'[ServerOf[r]] = r
             /\ ~Newer(ThreadOf[r], bound[ServerOf[r]][ThreadOf[r]], loaded'[r])
             /\ ServerOf[r] = "api" /\ loaded'[r] # None => loaded'[r] = Latest(ThreadOf[r])
  <2>1. CASE r = q
    BY <1>1, <1>2, <1>6, <2>1 DEF TypeOK, LockTypeOK
  <2>2. CASE r # q
    <3>1. guard[ServerOf[r]] = r
      BY <1>2, <1>7, <2>2 DEF RowsInv, LockedWhileLoaded
    <3>2. ServerOf[r] # s /\ r # None /\ ServerOf[r] \in Servers
      BY <1>2, <3>1, EnforcementAssumption
    <3> QED
      BY <1>2, <1>7, <2>2, <3>1, <3>2 DEF RowsInv, LockedWhileLoaded, TypeOK, LockTypeOK
  <2> QED
    BY <2>1, <2>2
<1>8. LockedWhileLoaded'
  BY <1>2, <1>7 DEF LockedWhileLoaded, Newer, Latest
<1> QED
  BY <1>3, <1>5, <1>8 DEF RowsInv

LEMMA RebindRows ==
    ASSUME TypeOK, RowsInv, NEW q \in Calls, Rebind(q), UNCHANGED issued,
           \A r \in Calls : at'[r] = "loaded" => r # q /\ at[r] = "loaded"
    PROVE  RowsInv'
<1>1. /\ guard' \in [Servers -> Calls \union {None}]
      /\ \A s \in Servers, t \in Threads :
             \/ bound'[s][t] = bound[s][t]
             \/ /\ s = ServerOf[q] /\ t = ThreadOf[q]
                /\ bound'[s][t] = loaded[q]
                /\ loaded[q] # None /\ loaded[q] \notin Unverifiable
      /\ loaded' = [loaded EXCEPT ![q] = None]
      /\ at[q] = "loaded"
  BY RebindType DEF TypeOK
<1>2. IssuedOnce' /\ BoundWasIssued'
  BY <1>1 DEF RowsInv, IssuedOnce, BoundWasIssued, LoadedWasIssued, Occurs
<1>3. \A r \in Calls : r # q => loaded'[r] = loaded[r]
  BY <1>1 DEF TypeOK, CallsTypeOK
<1>4. loaded'[q] = None
  BY <1>1 DEF TypeOK, CallsTypeOK
<1>5. LoadedWasIssued'
  BY <1>3, <1>4 DEF RowsInv, LoadedWasIssued, Occurs
<1>6. ASSUME NEW r \in Calls, at'[r] = "loaded"
      PROVE  /\ guard'[ServerOf[r]] = r
             /\ ~Newer(ThreadOf[r], bound'[ServerOf[r]][ThreadOf[r]], loaded'[r])
             /\ ServerOf[r] = "api" /\ loaded'[r] # None => loaded'[r] = Latest(ThreadOf[r])
  <2>1. r # q /\ guard[ServerOf[r]] = r /\ guard[ServerOf[q]] = q
    BY <1>1, <1>6 DEF RowsInv, LockedWhileLoaded
  <2>2. /\ ServerOf[r] # ServerOf[q] /\ ServerOf[r] \in Servers /\ ServerOf[q] \in Servers
        /\ ThreadOf[r] \in Threads
    BY <2>1, EnforcementAssumption
  <2>3. guard'[ServerOf[r]] = r
    BY <2>1, <2>2 DEF Rebind, ReleasedBy, TypeOK, LockTypeOK
  <2>4. bound'[ServerOf[r]][ThreadOf[r]] = bound[ServerOf[r]][ThreadOf[r]]
    BY <1>1, <2>2
  <2> QED
    BY <1>3, <1>6, <2>1, <2>3, <2>4 DEF RowsInv, LockedWhileLoaded
<1>7. LockedWhileLoaded'
  BY <1>6 DEF LockedWhileLoaded, Newer, Latest
<1> QED
  BY <1>2, <1>5, <1>7 DEF RowsInv
LEMMA RecordIssuedRows ==
    ASSUME TypeOK, RowsInv, NEW c \in Capsules, RecordIssued(c)
    PROVE  RowsInv'
<1> USE DEF TypeOK
<1>1. /\ UNCHANGED <<bound, guard, at, loaded>>
      /\ ThreadOf[c] \in Threads /\ guard["api"] = None /\ None \notin Capsules
  BY EnforcementAssumption DEF RecordIssued, LockFree
<1>2. IssuedOnce'
  <2>1. ASSUME NEW t \in Threads, NEW i \in DOMAIN issued'[t]
        PROVE  /\ ThreadOf[issued'[t][i]] = t
               /\ \A j \in DOMAIN issued'[t] : issued'[t][i] = issued'[t][j] => i = j
    BY RecordRows DEF RowsInv, IssuedOnce
  <2> QED
    BY <2>1 DEF IssuedOnce
<1>3. \A t \in Threads : \A x :
          (\E i \in DOMAIN issued[t] : issued[t][i] = x)
              => \E i \in DOMAIN issued'[t] : issued'[t][i] = x
  BY RecordRows
<1>4. BoundWasIssued' /\ LoadedWasIssued'
  <2>1. ASSUME NEW s \in Servers, NEW t \in Threads, bound[s][t] # None
        PROVE  /\ \E i \in DOMAIN issued'[t] : issued'[t][i] = bound[s][t]
               /\ bound[s][t] \notin Unverifiable
    BY <1>3, <2>1 DEF RowsInv, BoundWasIssued, Occurs
  <2>2. ASSUME NEW q \in Calls, loaded[q] # None
        PROVE  \E i \in DOMAIN issued'[ThreadOf[q]] : issued'[ThreadOf[q]][i] = loaded[q]
    <3>1. /\ ThreadOf[q] \in Threads
          /\ \E i \in DOMAIN issued[ThreadOf[q]] : issued[ThreadOf[q]][i] = loaded[q]
      BY <2>2, EnforcementAssumption DEF RowsInv, LoadedWasIssued, Occurs
    <3> QED
      BY <3>1, <1>3
  <2> QED
    BY <1>1, <2>1, <2>2 DEF BoundWasIssued, LoadedWasIssued, Occurs
<1>5. LockedWhileLoaded'
  <2>1. ASSUME NEW q \in Calls, at[q] = "loaded"
        PROVE  /\ ~\E i, j \in DOMAIN issued'[ThreadOf[q]] :
                      /\ i > j
                      /\ issued'[ThreadOf[q]][i] = bound[ServerOf[q]][ThreadOf[q]]
                      /\ issued'[ThreadOf[q]][j] = loaded[q]
               /\ ServerOf[q] # "api"
    <3> DEFINE s == ServerOf[q]
               t == ThreadOf[q]
    <3>1. s \in Servers /\ t \in Threads /\ q # None
      BY EnforcementAssumption
    <3>2. s # "api"
      BY <1>1, <2>1, <3>1 DEF RowsInv, LockedWhileLoaded
    <3>3. ~Newer(t, bound[s][t], loaded[q])
      BY <2>1 DEF RowsInv, LockedWhileLoaded
    <3>4. bound[s][t] # None => \E i \in DOMAIN issued[t] : issued[t][i] = bound[s][t]
      BY <3>1 DEF RowsInv, BoundWasIssued, Occurs
    <3>5. loaded[q] # None => \E i \in DOMAIN issued[t] : issued[t][i] = loaded[q]
      BY DEF RowsInv, LoadedWasIssued, Occurs
    <3>6. ASSUME NEW i \in DOMAIN issued'[t], NEW j \in DOMAIN issued'[t], i > j,
                 issued'[t][i] = bound[s][t], issued'[t][j] = loaded[q]
          PROVE  FALSE
      <4>1. issued'[t] \in Seq(Capsules)
        BY <3>1, TypeStep DEF Next, RowsTypeOK
      <4>2. issued'[t][i] # None /\ issued'[t][j] # None
        BY <1>1, <4>1
      <4>3. /\ i \in DOMAIN issued[t] /\ issued'[t][i] = issued[t][i]
            /\ j \in DOMAIN issued[t] /\ issued'[t][j] = issued[t][j]
        BY <3>1, <3>4, <3>5, <3>6, <4>2, RecordRows
      <4> QED
        BY <3>3, <3>6, <4>3 DEF Newer
    <3> QED
      BY <3>2, <3>6
  <2> QED
    BY <1>1, <2>1 DEF RowsInv, LockedWhileLoaded, Newer
<1> QED
  BY <1>2, <1>4, <1>5 DEF RowsInv

LEMMA CrashRows ==
    ASSUME TypeOK, RowsInv, NEW s \in Servers, Crash(s)
    PROVE  RowsInv'
<1>1. /\ issued' = issued
      /\ \A u \in Servers, t \in Threads :
             bound'[u][t] = IF u = s THEN None ELSE bound[u][t]
      /\ \A u \in Servers : u # s => guard'[u] = guard[u]
      /\ \A q \in Calls : loaded'[q] = IF ServerOf[q] = s THEN None ELSE loaded[q]
      /\ \A q \in Calls : at'[q] = "loaded" => at[q] = "loaded" /\ ServerOf[q] # s
  BY DEF TypeOK, RowsTypeOK, LockTypeOK, CallsTypeOK, Crash
<1>2. IssuedOnce' /\ BoundWasIssued' /\ LoadedWasIssued'
  BY <1>1 DEF RowsInv, IssuedOnce, BoundWasIssued, LoadedWasIssued, Occurs
<1>3. \A q \in Calls : ServerOf[q] \in Servers /\ ThreadOf[q] \in Threads
  BY EnforcementAssumption
<1>4. LockedWhileLoaded'
  BY <1>1, <1>3 DEF RowsInv, LockedWhileLoaded, Newer, Latest
<1> QED
  BY <1>2, <1>4 DEF RowsInv

\* No call reads while a stdio server starts, so only the API server's may hold its lock.
LEMMA StartStdioRows ==
    ASSUME TypeOK, RowsInv, NEW u \in Threads, StartStdio(u)
    PROVE  RowsInv'
<1>1. /\ UNCHANGED <<issued, guard, at, loaded>>
      /\ bound' = [bound EXCEPT !["stdio"][u] = Refreshed(None, Latest(u))]
      /\ \A q \in Calls : at[q] = "loaded" => ServerOf[q] # "stdio"
  BY DEF StartStdio, Idle
<1>2. \A t \in Threads : bound'["api"][t] = bound["api"][t]
  BY <1>1 DEF TypeOK, RowsTypeOK, Servers
<1>3. \A t \in Threads : t # u => bound'["stdio"][t] = bound["stdio"][t]
  BY <1>1 DEF TypeOK, RowsTypeOK, Servers
<1>4. \/ bound'["stdio"][u] = None
      \/ bound'["stdio"][u] = Latest(u) /\ Latest(u) # None /\ Latest(u) \notin Unverifiable
  BY <1>1 DEF TypeOK, RowsTypeOK, Servers, Refreshed, Registers
<1>5. Latest(u) # None => Occurs(Latest(u), u)
  BY LatestType DEF TypeOK, RowsTypeOK, Occurs
<1>6. BoundWasIssued'
  <2>1. ASSUME NEW t \in Threads, bound'["stdio"][t] # None
        PROVE  Occurs(bound'["stdio"][t], t) /\ bound'["stdio"][t] \notin Unverifiable
    BY <1>3, <1>4, <1>5, <2>1 DEF RowsInv, BoundWasIssued, Occurs, Servers
  <2>2. ASSUME NEW t \in Threads, bound'["api"][t] # None
        PROVE  Occurs(bound'["api"][t], t) /\ bound'["api"][t] \notin Unverifiable
    BY <1>2, <2>2 DEF RowsInv, BoundWasIssued, Occurs, Servers
  <2> QED
    BY <1>1, <2>1, <2>2 DEF BoundWasIssued, Occurs, Servers
<1>7. \A q \in Calls : at[q] = "loaded" => ServerOf[q] = "api" /\ ThreadOf[q] \in Threads
  BY <1>1, EnforcementAssumption DEF Servers
<1>8. LockedWhileLoaded'
  BY <1>1, <1>2, <1>7 DEF RowsInv, LockedWhileLoaded, Newer, Latest
<1> QED
  BY <1>1, <1>6, <1>8 DEF RowsInv, IssuedOnce, LoadedWasIssued, Occurs
LEMMA RowsStep == TypeOK /\ RowsInv /\ [Next]_vars => RowsInv'
<1> SUFFICES ASSUME TypeOK, RowsInv, [Next]_vars
             PROVE  RowsInv'
  OBVIOUS
<1>1. ASSUME NEW q \in Calls, Load(q)
      PROVE  RowsInv'
  BY <1>1, LoadRows
<1>2. ASSUME NEW q \in Calls, ListTools(q) \/ CheckNoCapsule(q) \/ CheckCall(q)
      PROVE  RowsInv'
  <2>1. Rebind(q) /\ UNCHANGED issued /\ \E place \in Places \ {"loaded"} : Goes(q, place)
    BY <1>2 DEF ListTools, CheckNoCapsule, CheckCall, Ends, Places
  <2>2. \A r \in Calls : at'[r] = "loaded" => r # q /\ at[r] = "loaded"
    BY <2>1, GoesType DEF TypeOK
  <2> QED
    BY <2>1, <2>2, RebindRows
<1>3. ASSUME NEW q \in Calls,
             LogBlocked(q) \/ LogAttempt(q) \/ Run(q) \/ LogResult(q) \/ LogFails(q)
      PROVE  RowsInv'
  <2>1. CallUnchanged
    BY <1>3 DEF LogBlocked, LogAttempt, Run, LogResult, LogFails
  <2>2. \E place \in Places \ {"loaded"} : Goes(q, place)
    BY <1>3 DEF LogBlocked, LogAttempt, Run, LogResult, LogFails, Ends, AfterFailedLog, Places
  <2>3. \A r \in Calls : at'[r] = "loaded" => at[r] = "loaded"
    BY <2>2, GoesType DEF TypeOK
  <2> QED
    BY <2>1, <2>3, RowsKept DEF CallUnchanged
<1>4. ASSUME NEW c \in Capsules, RecordIssued(c)
      PROVE  RowsInv'
  BY <1>4, RecordIssuedRows
<1>5. ASSUME NEW s \in Servers, Crash(s)
      PROVE  RowsInv'
  BY <1>5, CrashRows
<1>6. ASSUME NEW t \in Threads, StartStdio(t)
      PROVE  RowsInv'
  BY <1>6, StartStdioRows
<1>7. CASE Tick \/ UNCHANGED vars
  BY <1>7, RowsKept DEF Tick, vars
<1> QED
  BY <1>1, <1>2, <1>3, <1>4, <1>5, <1>6, <1>7 DEF Next, CallStep

\* A capsule that a call is checked against is one of its thread, and verified.
LEMMA CheckedAgainst ==
    ASSUME TypeOK, RowsInv, NEW q \in Calls, CheckCall(q)
    PROVE  /\ using' = [using EXCEPT ![q] = bound'[ServerOf[q]][ThreadOf[q]]]
           /\ using'[q] \in Capsules
           /\ ThreadOf[using'[q]] = ThreadOf[q]
           /\ using'[q] \notin Unverifiable
           /\ at'[q] = "log blocked" \/ (at'[q] = "log attempt" /\ q \in Grants[using'[q]])
           /\ at'[q] = "log attempt" => age[using'[q]] < Life
           /\ \A r \in Calls : r # q => at'[r] = at[r] /\ using'[r] = using[r]
<1> DEFINE s == ServerOf[q]
           t == ThreadOf[q]
           c == Refreshed(bound[s][t], loaded[q])
<1>1. s \in Servers /\ t \in Threads
  BY EnforcementAssumption
<1>2. Rebind(q) /\ c # None /\ using' = [using EXCEPT ![q] = c]
  BY DEF CheckCall
<1>3. at' = [at EXCEPT ![q] = IF Expired(c) \/ q \notin Grants[c] THEN "log blocked" ELSE "log attempt"]
  BY DEF CheckCall, Goes
<1>4. bound'[s][t] = c
  BY <1>2, RebindType DEF TypeOK
<1>5. c = bound[s][t] \/ (c = loaded[q] /\ loaded[q] \notin Unverifiable)
  BY DEF Refreshed, Registers
<1>6. /\ c \notin Unverifiable
      /\ \E i \in DOMAIN issued[t] : issued[t][i] = c
  BY <1>1, <1>2, <1>5 DEF RowsInv, BoundWasIssued, LoadedWasIssued, Occurs
<1>7. c \in Capsules /\ ThreadOf[c] = t
  BY <1>1, <1>6 DEF TypeOK, RowsTypeOK, RowsInv, IssuedOnce
<1>8. Expired(c) <=> age[c] >= Life
  BY DEF Expired
<1> HIDE DEF c
<1>9. using'[q] = c /\ \A r \in Calls : r # q => using'[r] = using[r]
  BY <1>2 DEF TypeOK, CallsTypeOK
<1>10. /\ at'[q] = "log blocked" \/ (at'[q] = "log attempt" /\ q \in Grants[c] /\ ~Expired(c))
       /\ \A r \in Calls : r # q => at'[r] = at[r]
  BY <1>3 DEF TypeOK, CallsTypeOK
<1>11. age[c] \in Int /\ Life \in Int
  BY <1>7, EnforcementAssumption DEF TypeOK, RowsTypeOK
<1>12. ~Expired(c) => age[c] < Life
  BY <1>8, <1>11
<1> QED
  BY <1>2, <1>4, <1>6, <1>7, <1>9, <1>10, <1>12

LEMMA GrantStep == TypeOK /\ RowsInv /\ UsesAGrant /\ [Next]_vars => UsesAGrant'
<1> SUFFICES ASSUME TypeOK, RowsInv, UsesAGrant, [Next]_vars
             PROVE  UsesAGrant'
  OBVIOUS
<1>1. ASSUME NEW q \in Calls, Load(q)
      PROVE  UsesAGrant'
  BY <1>1 DEF TypeOK, CallsTypeOK, Load, Goes, UsesAGrant
<1>2. ASSUME NEW q \in Calls, CheckCall(q)
      PROVE  UsesAGrant'
  BY <1>2, CheckedAgainst DEF UsesAGrant
<1>3. ASSUME NEW q \in Calls,
             \/ ListTools(q) \/ CheckNoCapsule(q)
             \/ LogBlocked(q) \/ LogAttempt(q) \/ Run(q) \/ LogResult(q) \/ LogFails(q)
      PROVE  UsesAGrant'
  <2>1. \/ Ends(q)
        \/ /\ at[q] # "log blocked" /\ using' = using
           /\ \E place \in Places : Goes(q, place)
    BY <1>3 DEF ListTools, CheckNoCapsule, LogBlocked, LogAttempt, Run, LogResult, LogFails,
                AfterFailedLog, Places
  <2>2. CASE Ends(q)
    BY <2>2, EndsType DEF UsesAGrant, TypeOK
  <2>3. CASE at[q] # "log blocked" /\ using' = using /\ \E place \in Places : Goes(q, place)
    <3>1. \A r \in Calls : r # q => at'[r] = at[r]
      BY <2>3, GoesType DEF TypeOK
    <3> QED
      BY <2>3, <3>1 DEF UsesAGrant
  <2> QED
    BY <2>1, <2>2, <2>3
<1>4. ASSUME NEW s \in Servers, Crash(s)
      PROVE  UsesAGrant'
  <2>1. \A q \in Calls : \/ using'[q] = None
                         \/ using'[q] = using[q] /\ at'[q] = at[q]
    BY <1>4 DEF Crash
  <2> QED
    BY <2>1 DEF UsesAGrant
<1>5. CASE \/ \E c \in Capsules : RecordIssued(c)
           \/ \E t \in Threads : StartStdio(t)
           \/ Tick
           \/ UNCHANGED vars
  BY <1>5 DEF RecordIssued, StartStdio, Tick, vars, UsesAGrant
<1> QED
  BY <1>1, <1>2, <1>3, <1>4, <1>5 DEF Next, CallStep
-----------------------------------------------------------------------------
\* The audit log.

\* The steps of a call leave the records of the others as they are.
LEMMA OthersRecorded ==
    ASSUME NEW q \in Calls, NEW r \in Calls, r # q, RecordedBy(r),
           at'[r] = at[r], using'[r] = using[r],
           audit \subseteq audit', effect \subseteq effect',
           \A x \in audit' : x \in audit \/ x[1] = q
    PROVE  RecordedBy(r)'
  BY DEF RecordedBy

\* A step that logs nothing and runs no tool.
LEMMA NothingLogged ==
    ASSUME LogInv, UNCHANGED <<effect, audit>>,
           \A q \in Calls :
               \/ at'[q] = at[q] /\ using'[q] = using[q]
               \/ at'[q] = "end"
               \/ at[q] \in {"new", "loaded"} /\ at'[q] \in {"loaded", "log blocked", "log attempt"}
               \/ /\ at[q] \in {"log allowed", "log rejected"} /\ at'[q] = "log exception"
                  /\ using'[q] = using[q]
    PROVE  LogInv'
<1>1. EffectIsLogged' /\ EffectIsGranted' /\ RecordsAgree'
  BY DEF LogInv, EffectIsLogged, EffectIsGranted, RecordsAgree
<1>2. ASSUME NEW q \in Calls
      PROVE  RecordedBy(q)'
  <2>1. RecordedBy(q)
    BY DEF LogInv, RecordsFollowCalls
  <2>2. CASE at'[q] = at[q] /\ using'[q] = using[q]
    BY <2>1, <2>2 DEF RecordedBy
  <2>3. CASE at'[q] = "end"
    BY <2>1, <2>3 DEF RecordedBy
  <2>4. CASE at[q] \in {"new", "loaded"} /\ at'[q] \in {"loaded", "log blocked", "log attempt"}
    BY <2>1, <2>4 DEF RecordedBy
  <2>5. CASE /\ at[q] \in {"log allowed", "log rejected"} /\ at'[q] = "log exception"
             /\ using'[q] = using[q]
    BY <2>1, <2>5 DEF RecordedBy
  <2> QED
    BY <2>2, <2>3, <2>4, <2>5
<1> QED
  BY <1>1, <1>2 DEF LogInv, RecordsFollowCalls

\* A record that agrees with those of its call.
LEMMA OneMoreRecord ==
    ASSUME LogInv, NEW q \in Calls, NEW kind \in Records,
           Logged(q, kind), UNCHANGED effect,
           \A r \in audit : r[1] = q => r[2] = using[q] /\ r[3] # "blocked" /\ kind # "blocked",
           kind = "allowed" => <<q, using[q]>> \in effect
    PROVE  EffectIsLogged' /\ EffectIsGranted' /\ RecordsAgree'
<1> DEFINE new == <<q, using[q], kind>>
<1>1. audit' = audit \union {new} /\ new[1] = q /\ new[2] = using[q] /\ new[3] = kind
  BY DEF Logged
<1>2. EffectIsLogged' /\ EffectIsGranted'
  BY <1>1 DEF LogInv, EffectIsLogged, EffectIsGranted
<1> HIDE DEF new
<1>3. ASSUME NEW r \in audit', NEW x \in audit', r[1] = x[1]
      PROVE  r[2] = x[2] /\ (r[3] = "blocked" => x[3] = "blocked")
  BY <1>1, <1>3 DEF LogInv, RecordsAgree
<1>4. \A r \in audit' : r[3] = "allowed" => <<r[1], r[2]>> \in effect'
  BY <1>1 DEF LogInv, RecordsAgree
<1> QED
  BY <1>2, <1>3, <1>4 DEF RecordsAgree

LEMMA LogStep == TypeOK /\ RowsInv /\ UsesAGrant /\ LogInv /\ [Next]_vars => LogInv'
<1> SUFFICES ASSUME TypeOK, RowsInv, UsesAGrant, LogInv, [Next]_vars
             PROVE  LogInv'
  OBVIOUS
<1>1. ASSUME NEW q \in Calls, Load(q)
      PROVE  LogInv'
  <2>1. /\ UNCHANGED <<effect, audit, using>> /\ at[q] = "new" /\ at'[q] = "loaded"
        /\ \A r \in Calls : r # q => at'[r] = at[r]
    BY <1>1 DEF TypeOK, CallsTypeOK, Load, Goes
  <2> QED
    BY <2>1, NothingLogged
<1>2. ASSUME NEW q \in Calls, ListTools(q) \/ CheckNoCapsule(q)
      PROVE  LogInv'
  <2>1. Ends(q) /\ UNCHANGED <<effect, audit>>
    BY <1>2 DEF ListTools, CheckNoCapsule
  <2> QED
    BY <2>1, EndsType, NothingLogged DEF TypeOK
<1>3. ASSUME NEW q \in Calls, CheckCall(q)
      PROVE  LogInv'
  <2>1. UNCHANGED <<effect, audit>> /\ at[q] = "loaded"
    BY <1>3 DEF CheckCall, Rebind
  <2> QED
    BY <1>3, <2>1, CheckedAgainst, NothingLogged
<1>4. ASSUME NEW q \in Calls, LogBlocked(q) \/ LogAttempt(q) \/ LogResult(q)
      PROVE  LogInv'
  <2>1. RecordedBy(q)
    BY DEF LogInv, RecordsFollowCalls
  <2>2. UNCHANGED effect
    BY <1>4 DEF LogBlocked, LogAttempt, LogResult
  <2>3. PICK kind \in Records :
            /\ Logged(q, kind)
            /\ \/ at[q] = "log blocked" /\ kind = "blocked" /\ Ends(q)
               \/ at[q] = "log attempt" /\ kind = "attempt" /\ Goes(q, "run") /\ using' = using
               \/ at[q] = "log allowed" /\ kind = "allowed" /\ Ends(q)
               \/ at[q] \in {"log rejected", "log exception"}
                  /\ kind \in {"rejected", "exception"} /\ Ends(q)
    BY <1>4 DEF LogBlocked, LogAttempt, LogResult, Records
  <2>4. EffectIsLogged' /\ EffectIsGranted' /\ RecordsAgree'
    <3>1. \A r \in audit : r[1] = q => r[2] = using[q] /\ r[3] # "blocked" /\ kind # "blocked"
      BY <2>1, <2>3 DEF RecordedBy
    <3>2. kind = "allowed" => <<q, using[q]>> \in effect
      BY <2>1, <2>3 DEF RecordedBy
    <3> QED
      BY <2>2, <2>3, <3>1, <3>2, OneMoreRecord
  <2>5. \A r \in Calls : r # q => at'[r] = at[r] /\ using'[r] = using[r]
    BY <2>3, EndsType, GoesType DEF TypeOK, Places
  <2>6. audit' = audit \union {<<q, using[q], kind>>}
    BY <2>3 DEF Logged
  <2>7. ASSUME NEW r \in Calls, r # q
        PROVE  RecordedBy(r)'
    <3>1. RecordedBy(r)
      BY DEF LogInv, RecordsFollowCalls
    <3> QED
      BY <2>2, <2>5, <2>6, <2>7, <3>1, OthersRecorded
  <2>8. RecordedBy(q)'
    <3>1. CASE Ends(q)
      BY <3>1, EndsType DEF TypeOK, RecordedBy
    <3>2. CASE at[q] = "log attempt" /\ kind = "attempt" /\ Goes(q, "run") /\ using' = using
      <4>1. at'[q] = "run"
        BY <3>2, GoesType DEF TypeOK, Places
      <4>2. \A r \in audit : r[1] # q
        BY <2>1, <3>2 DEF RecordedBy
      <4> DEFINE new == <<q, using[q], "attempt">>
      <4>3. new[2] = using'[q] /\ new[3] = "attempt" /\ new \in audit'
        BY <2>6, <3>2
      <4>4. \A r \in audit' : r[1] = q => r = new
        BY <2>6, <3>2, <4>2
      <4>5. \A r \in audit' : r[1] = q => r[2] = using'[q] /\ r[3] = "attempt"
        BY <4>3, <4>4
      <4> QED
        BY <3>2, <4>1, <4>3, <4>5 DEF RecordedBy
    <3> QED
      BY <2>3, <3>1, <3>2
  <2> QED
    BY <2>4, <2>7, <2>8 DEF LogInv, RecordsFollowCalls
<1>5. ASSUME NEW q \in Calls, Run(q)
      PROVE  LogInv'
  <2> DEFINE done == effect \union {<<q, using[q]>>}
  <2>1. RecordedBy(q) /\ at[q] = "run" /\ using[q] # None
    BY <1>5 DEF LogInv, RecordsFollowCalls, Run, TypeOK, CallsTypeOK
  <2>2. /\ UNCHANGED <<using, audit>>
        /\ \/ effect' = done /\ Goes(q, "log allowed")
           \/ effect' \in {effect, done} /\ Goes(q, "log rejected")
           \/ effect' \in {effect, done} /\ Goes(q, "log exception")
    BY <1>5 DEF Run
  <2>3. /\ \A r \in Calls : r # q => at'[r] = at[r]
        /\ at'[q] \in {"log allowed", "log rejected", "log exception"}
        /\ at'[q] = "log allowed" => effect' = done
        /\ effect' \in {effect, done}
    <3>1. \A place \in {"log allowed", "log rejected", "log exception"} : Goes(q, place) =>
              at'[q] = place /\ \A r \in Calls : r # q => at'[r] = at[r]
      BY GoesType DEF TypeOK, Places
    <3> QED
      BY <2>2, <3>1
  <2>4. <<q, using[q], "attempt">> \in audit
    BY <2>1 DEF RecordedBy
  <2>5. ThreadOf[using[q]] = ThreadOf[q] /\ using[q] \notin Unverifiable /\ q \in Grants[using[q]]
    BY <2>1 DEF UsesAGrant
  <2>6. EffectIsLogged' /\ EffectIsGranted' /\ RecordsAgree'
    <3>1. EffectIsLogged /\ EffectIsGranted /\ RecordsAgree
      BY DEF LogInv
    <3>2. CASE effect' = effect
      BY <2>2, <3>1, <3>2 DEF EffectIsLogged, EffectIsGranted, RecordsAgree
    <3>3. CASE effect' = done
      <4> DEFINE new == <<q, using[q]>>
      <4>1. new[1] = q /\ new[2] = using[q] /\ effect' = effect \union {new}
        BY <3>3
      <4>2. EffectIsLogged'
        BY <2>2, <2>4, <3>1, <4>1 DEF EffectIsLogged
      <4>3. EffectIsGranted'
        BY <2>5, <3>1, <3>3 DEF EffectIsGranted
      <4>4. RecordsAgree'
        BY <2>2, <3>1, <3>3 DEF RecordsAgree
      <4> QED
        BY <4>2, <4>3, <4>4
    <3> QED
      BY <2>3, <3>2, <3>3
  <2>7. ASSUME NEW r \in Calls, r # q
        PROVE  RecordedBy(r)'
    <3>1. RecordedBy(r)
      BY DEF LogInv, RecordsFollowCalls
    <3> QED
      BY <2>2, <2>3, <2>7, <3>1, OthersRecorded
  <2>8. RecordedBy(q)'
    BY <2>1, <2>2, <2>3, <2>4 DEF RecordedBy
  <2> QED
    BY <2>6, <2>7, <2>8 DEF LogInv, RecordsFollowCalls
<1>6. ASSUME NEW q \in Calls, LogFails(q)
      PROVE  LogInv'
  <2>1. /\ UNCHANGED <<effect, audit>>
        /\ \/ Ends(q)
           \/ /\ at[q] \in {"log allowed", "log rejected"}
              /\ Goes(q, "log exception") /\ using' = using
    BY <1>6 DEF LogFails, AfterFailedLog
  <2> QED
    BY <2>1, EndsType, GoesType, NothingLogged DEF TypeOK, Places
<1>7. ASSUME NEW s \in Servers, Crash(s)
      PROVE  LogInv'
  <2>1. /\ UNCHANGED <<effect, audit>>
        /\ \A q \in Calls : \/ at'[q] = "end"
                            \/ at'[q] = at[q] /\ (at[q] = "new" \/ using'[q] = using[q])
    BY <1>7 DEF Crash
  <2>2. \A q \in Calls : at[q] = "new" /\ at'[q] = "new" => using'[q] = using[q]
    BY <1>7 DEF Crash, TypeOK, CallsTypeOK
  <2> QED
    BY <2>1, <2>2, NothingLogged
<1>8. CASE \/ \E c \in Capsules : RecordIssued(c)
           \/ \E t \in Threads : StartStdio(t)
           \/ Tick
           \/ UNCHANGED vars
  <2>1. UNCHANGED <<at, using, effect, audit>>
    BY <1>8 DEF RecordIssued, StartStdio, Tick, vars
  <2> QED
    BY <2>1, NothingLogged
<1> QED
  BY <1>1, <1>2, <1>3, <1>4, <1>5, <1>6, <1>7, <1>8 DEF Next, CallStep

-----------------------------------------------------------------------------
\* The theorems.

LEMMA IInvStep == IInv /\ [Next]_vars => IInv'
<1> SUFFICES ASSUME TypeOK, RowsInv, UsesAGrant, LogInv, [Next]_vars
             PROVE  TypeOK' /\ RowsInv' /\ UsesAGrant' /\ LogInv'
  BY DEF IInv, BindInv, RowsInv
<1> QED
  BY TypeStep, RowsStep, GrantStep, LogStep

\* The invariant all the others rest on: rows, bindings, calls and the audit log stay in step,
\* whatever calls, reloads, restarts and failing writes interleave.
THEOREM Inductive == Spec => []IInv
  BY InitInv, IInvStep, PTL DEF Spec

\* Calls, bindings, locks, effects and records stay what they should be, at any
\* moment of any calls to both kinds of server.
THEOREM TypeCorrect == Spec => []TypeOK
<1>1. IInv => TypeOK
  BY DEF IInv
<1> QED
  BY <1>1, Inductive, PTL

\* Whatever crashes and whichever write of the log fails, what a tool did to the
\* workspace is preceded by the record of its attempt under the capsule used.
THEOREM EffectsAreLogged == Spec => []EffectIsLogged
<1>1. IInv => EffectIsLogged
  BY DEF IInv, LogInv
<1> QED
  BY <1>1, Inductive, PTL

\* No tool acts without a capsule of its own thread that verified and grants the call.
THEOREM EffectsAreGranted == Spec => []EffectIsGranted
<1>1. IInv => EffectIsGranted
  BY DEF IInv, LogInv
<1> QED
  BY <1>1, Inductive, PTL

\* The audit records of a call agree with one another and with what its tool did.
THEOREM RecordsAlwaysAgree == Spec => []RecordsAgree
<1>1. IInv => RecordsAgree
  BY DEF IInv, LogInv
<1> QED
  BY <1>1, Inductive, PTL

\* What a step may do to what is bound: a binding is kept, dropped by a crash,
\* or replaced by what a call that holds the lock read, or a starting server.
LEMMA BindingSteps ==
    ASSUME IInv, [Next]_vars, NEW s \in Servers, NEW t \in Threads
    PROVE  ~Newer(t, bound[s][t], bound'[s][t])
<1>1. TypeOK /\ RowsInv /\ IssuedOnce /\ RowsTypeOK
  BY DEF IInv, BindInv, RowsInv, TypeOK
<1>2. CASE bound'[s][t] = bound[s][t]
  BY <1>1, <1>2, NewerThanLatest
<1>3. CASE bound'[s][t] = None
  BY <1>1, <1>3, NewerThanLatest
<1>4. ASSUME NEW q \in Calls, Rebind(q)
      PROVE  ~Newer(t, bound[s][t], bound'[s][t])
  <2>1. \/ bound'[s][t] = bound[s][t]
        \/ s = ServerOf[q] /\ t = ThreadOf[q] /\ bound'[s][t] = loaded[q]
    BY <1>1, <1>4, RebindType DEF TypeOK
  <2>2. at[q] = "loaded"
    BY <1>4 DEF Rebind
  <2> QED
    BY <1>1, <1>2, <2>1, <2>2 DEF RowsInv, LockedWhileLoaded
<1>5. ASSUME NEW u \in Threads, StartStdio(u)
      PROVE  ~Newer(t, bound[s][t], bound'[s][t])
  <2>1. /\ bound["stdio"] = [v \in Threads |-> None]
        /\ bound' = [bound EXCEPT !["stdio"][u] = Refreshed(None, Latest(u))]
    BY <1>5 DEF StartStdio
  <2>2. bound'[s][t] = bound[s][t] \/ bound[s][t] = None
    BY <1>1, <2>1 DEF RowsTypeOK, Servers
  <2> QED
    BY <1>1, <1>2, <2>2, NewerThanLatest
<1>6. ASSUME NEW u \in Servers, Crash(u)
      PROVE  bound'[s][t] \in {bound[s][t], None}
  BY <1>1, <1>6 DEF Crash, RowsTypeOK
<1>7. CASE UNCHANGED bound
  BY <1>2, <1>7
<1>8. \/ UNCHANGED bound
      \/ \E q \in Calls : Rebind(q)
      \/ \E u \in Threads : StartStdio(u)
      \/ \E u \in Servers : Crash(u)
  BY DEF Next, CallStep, vars, Load, ListTools, CheckNoCapsule, CheckCall, LogBlocked, LogAttempt,
         Run, LogResult, LogFails, CallUnchanged, RecordIssued, Tick
<1> QED
  BY <1>2, <1>3, <1>4, <1>5, <1>6, <1>7, <1>8

\* Hot reload never puts an older capsule of a thread back in place of a newer
\* one, whatever refreshes, new capsules and restarts interleave.
THEOREM BindingOnlyAdvances == Spec => BindingNeverRegresses
<1>1. IInv /\ [Next]_vars =>
          [\A s \in Servers, t \in Threads : ~Newer(t, bound[s][t], bound'[s][t])]_vars
  BY BindingSteps
<1> QED
  BY <1>1, Inductive, PTL DEF Spec, BindingNeverRegresses

\* A call goes on under a capsule that has not expired and, at the API server
\* whose store was read, under the newest recorded for its thread.
LEMMA AdmittingSteps ==
    ASSUME IInv, [Next]_vars, NEW q \in Calls, at[q] = "loaded", at'[q] = "log attempt"
    PROVE  LET newest == Latest(ThreadOf[q]) IN
           /\ age[using'[q]] < Life
           /\ ServerOf[q] = "api" /\ loaded[q] # None /\ Registers(newest) => using'[q] = newest
<1>1. TypeOK /\ RowsInv
  BY DEF IInv, BindInv, RowsInv
<1>2. CheckCall(q)
  <2>1. ASSUME NEW r \in Calls, CallStep(r)
        PROVE  CheckCall(q)
    <3>1. CASE r = q
      <4>1. ~Ends(q)
        BY <1>1, EndsType DEF TypeOK
      <4>2. ~Goes(q, "loaded")
        BY <1>1, GoesType DEF TypeOK, Places
      <4> QED
        BY <2>1, <3>1, <4>1, <4>2 DEF CallStep, Load, ListTools, CheckNoCapsule, LogBlocked,
               LogAttempt, Run, LogResult, LogFails
    <3>2. CASE r # q
      <4>1. \E place \in Places : Goes(r, place)
        BY <2>1 DEF CallStep, Load, ListTools, CheckNoCapsule, CheckCall, LogBlocked, LogAttempt,
               Run, LogResult, LogFails, AfterFailedLog, Ends, Places
      <4>2. at'[q] = at[q]
        BY <1>1, <3>2, <4>1, GoesType DEF TypeOK
      <4> QED
        BY <4>2
    <3> QED
      BY <3>1, <3>2
  <2>2. ASSUME NEW s \in Servers, Crash(s)
        PROVE  at'[q] \in {at[q], "end"}
    BY <2>2 DEF Crash
  <2>3. CASE \/ \E c \in Capsules : RecordIssued(c)
             \/ \E t \in Threads : StartStdio(t)
             \/ Tick
             \/ UNCHANGED vars
    BY <2>3 DEF RecordIssued, StartStdio, Tick, vars
  <2> QED
    BY <2>1, <2>2, <2>3 DEF Next
<1>3. age[using'[q]] < Life
  BY <1>1, <1>2, CheckedAgainst
<1>4. ASSUME ServerOf[q] = "api", loaded[q] # None, Registers(Latest(ThreadOf[q]))
      PROVE  using'[q] = Latest(ThreadOf[q])
  <2>1. loaded[q] = Latest(ThreadOf[q])
    BY <1>1, <1>4 DEF RowsInv, LockedWhileLoaded
  <2>2. ~Expired(loaded[q]) /\ loaded[q] \notin Unverifiable
    BY <1>4, <2>1 DEF Registers, Expired
  <2>3. Refreshed(bound[ServerOf[q]][ThreadOf[q]], loaded[q]) = loaded[q]
    BY <1>4, <2>2 DEF Refreshed, Registers
  <2>4. /\ using' = [using EXCEPT ![q] = bound'[ServerOf[q]][ThreadOf[q]]]
        /\ bound'[ServerOf[q]][ThreadOf[q]] = loaded[q]
    BY <1>1, <1>2, <2>3, CheckedAgainst, RebindType DEF TypeOK, CheckCall
  <2> QED
    BY <1>1, <2>1, <2>4 DEF TypeOK, CallsTypeOK
<1> QED
  BY <1>3, <1>4

\* A call gets past the checks only on a capsule that has not expired and, at the API
\* server, on the newest one recorded: the hot reload is never behind the store.
THEOREM AdmitsByNewest == Spec => AdmittedByNewest
<1>1. IInv /\ [Next]_vars =>
          [\A q \in Calls : at[q] = "loaded" /\ at'[q] = "log attempt" =>
              LET newest == Latest(ThreadOf[q]) IN
              /\ age[using'[q]] < Life
              /\ ServerOf[q] = "api" /\ loaded[q] # None /\ Registers(newest)
                     => using'[q] = newest]_vars
  BY AdmittingSteps
<1> QED
  BY <1>1, Inductive, PTL DEF Spec, AdmittedByNewest
-----------------------------------------------------------------------------
\* The reference monitor.

\* Until its tool runs a call has done nothing, and tools/list never gets past its binding.
BeforeTool == {"new", "loaded", "log blocked", "log attempt", "run"}
ActsOnce == \A q \in Calls : at[q] \in BeforeTool => \A e \in effect : e[1] # q
ListsOnlyBind == \A q \in Lists : at[q] \in {"new", "loaded", "end"}

MonitorInv == IInv /\ ActsOnce /\ ListsOnlyBind

\* Where a step of call q takes it, and which of its steps touch log or workspace.
LEMMA StepOfCall ==
    ASSUME CallsTypeOK, NEW q \in Calls, CallStep(q)
    PROVE  /\ \/ at[q] = "new" /\ at'[q] = "loaded"
              \/ at[q] = "loaded" /\ at'[q] = "end"
              \/ at[q] = "loaded" /\ q \notin Lists /\ at'[q] \in {"log blocked", "log attempt"}
              \/ at[q] \notin {"new", "loaded", "end"} /\ at'[q] \notin BeforeTool
              \/ at[q] = "log attempt" /\ at'[q] = "run"
           /\ \A r \in Calls : r # q => at'[r] = at[r]
           /\ effect' = effect \/ Run(q)
<1>1. CASE Load(q)
  BY <1>1 DEF CallsTypeOK, Load, Goes
<1>2. CASE ListTools(q) \/ CheckNoCapsule(q)
  BY <1>2, EndsType DEF ListTools, CheckNoCapsule, Rebind
<1>3. CASE CheckCall(q)
  <2>1. /\ at[q] = "loaded" /\ q \notin Lists /\ effect' = effect
        /\ \E place \in {"log blocked", "log attempt"} : Goes(q, place)
    BY <1>3 DEF CheckCall, Rebind
  <2> QED
    BY <2>1, GoesType DEF Places
<1>4. CASE LogBlocked(q) \/ LogResult(q)
  <2>1. at[q] \notin {"new", "loaded", "end"} /\ effect' = effect /\ Ends(q)
    BY <1>4 DEF LogBlocked, LogResult
  <2> QED
    BY <2>1, EndsType DEF BeforeTool
<1>5. CASE LogAttempt(q)
  BY <1>5, GoesType DEF LogAttempt, Places
<1>6. CASE Run(q)
  <2>1. at[q] = "run" /\ \E place \in {"log allowed", "log rejected", "log exception"} : Goes(q, place)
    BY <1>6 DEF Run
  <2> QED
    BY <1>6, <2>1, GoesType DEF Places, BeforeTool
<1>7. CASE LogFails(q)
  <2>1. /\ at[q] \notin {"new", "loaded", "end"} /\ effect' = effect
        /\ Ends(q) \/ Goes(q, "log exception")
    BY <1>7 DEF LogFails, AfterFailedLog
  <2> QED
    BY <2>1, EndsType, GoesType DEF Places, BeforeTool
<1> QED
  BY <1>1, <1>2, <1>3, <1>4, <1>5, <1>6, <1>7 DEF CallStep

\* The steps that are not a call's.
LEMMA StepOfOthers ==
    ASSUME [Next]_vars, ~ \E q \in Calls : CallStep(q)
    PROVE  /\ UNCHANGED <<effect, audit>>
           /\ \A q \in Calls : at'[q] \in {at[q], "end"}
<1>1. \/ \E s \in Servers : Crash(s)
      \/ /\ UNCHANGED <<at, effect, audit>>
  BY DEF Next, RecordIssued, StartStdio, Tick, vars
<1>2. ASSUME NEW s \in Servers, Crash(s)
      PROVE  /\ UNCHANGED <<effect, audit>>
             /\ \A q \in Calls : at'[q] \in {at[q], "end"}
  BY <1>2 DEF Crash
<1> QED
  BY <1>1, <1>2

LEMMA MonitorInvStep == MonitorInv /\ [Next]_vars => MonitorInv'
<1> SUFFICES ASSUME MonitorInv, [Next]_vars
             PROVE  ActsOnce' /\ ListsOnlyBind'
  BY IInvStep DEF MonitorInv
<1>1. CallsTypeOK /\ ActsOnce /\ ListsOnlyBind
  BY DEF MonitorInv, IInv, TypeOK
<1>2. \A q \in Lists : q \in Calls
  BY EnforcementAssumption
<1>3. ASSUME NEW q \in Calls, CallStep(q)
      PROVE  ActsOnce' /\ ListsOnlyBind'
  <2>1. ListsOnlyBind'
    BY <1>1, <1>2, <1>3, StepOfCall DEF ListsOnlyBind
  <2>2. \A r \in Calls : at'[r] \in BeforeTool => at[r] \in BeforeTool
    <3>1. at'[q] \in BeforeTool => at[q] \in BeforeTool
      BY <1>1, <1>3, StepOfCall DEF BeforeTool
    <3>2. \A r \in Calls : r # q => at'[r] = at[r]
      BY <1>1, <1>3, StepOfCall
    <3> QED
      BY <3>1, <3>2
  <2>3. CASE effect' = effect
    BY <1>1, <2>1, <2>2, <2>3 DEF ActsOnce
  <2>4. CASE Run(q)
    <3>1. effect' \subseteq effect \union {<<q, using[q]>>}
      BY <2>4 DEF Run
    <3>2. \A e \in effect' : e \in effect \/ e[1] = q
      BY <3>1
    <3>3. at'[q] \notin BeforeTool
      <4>1. \E place \in {"log allowed", "log rejected", "log exception"} : Goes(q, place)
        BY <2>4 DEF Run
      <4> QED
        BY <1>1, <4>1, GoesType DEF Places, BeforeTool
    <3>4. ASSUME NEW r \in Calls, at'[r] \in BeforeTool, NEW e \in effect'
          PROVE  e[1] # r
      BY <1>1, <2>2, <3>2, <3>3, <3>4 DEF ActsOnce
    <3> QED
      BY <2>1, <3>4 DEF ActsOnce
  <2> QED
    BY <1>1, <1>3, <2>1, <2>3, <2>4, StepOfCall
<1>4. CASE ~ \E q \in Calls : CallStep(q)
  BY <1>1, <1>2, <1>4, StepOfOthers DEF ActsOnce, ListsOnlyBind, BeforeTool
<1> QED
  BY <1>3, <1>4

LEMMA MonitorInvHolds == Spec => []MonitorInv
<1>1. Init => ActsOnce /\ ListsOnlyBind
  BY EnforcementAssumption DEF Init, ActsOnce, ListsOnlyBind
<1> QED
  BY <1>1, InitInv, MonitorInvStep, PTL DEF Spec, MonitorInv
\* The trail of a call, by where it is.
LEMMA TrailByPlace ==
    ASSUME TypeOK, NEW q \in Calls, RecordedBy(q)
    PROVE  /\ at[q] \in {"log blocked", "log attempt"} => Monitor!Trail(q) = {}
           /\ at[q] \in {"run", "log allowed", "log rejected", "log exception"} =>
                  Monitor!Trail(q) = {<<q, using[q], "attempt">>}
<1>1. \A r \in audit : r = <<r[1], r[2], r[3]>>
  BY DEF TypeOK, LogTypeOK
<1>2. CASE at[q] \in {"log blocked", "log attempt"}
  BY <1>2 DEF RecordedBy, Monitor!Trail
<1>3. CASE at[q] \in {"run", "log allowed", "log rejected", "log exception"}
  <2> DEFINE attempt == <<q, using[q], "attempt">>
  <2>1. attempt \in audit /\ attempt[1] = q
    BY <1>3 DEF RecordedBy
  <2>2. \A r \in audit : r[1] = q => r[2] = using[q] /\ r[3] = "attempt"
    BY <1>3 DEF RecordedBy
  <2>3. \A r \in audit : r[1] = q => r = attempt
    BY <1>1, <2>2
  <2> HIDE DEF attempt
  <2>4. Monitor!Trail(q) = {attempt}
    BY <2>1, <2>3 DEF Monitor!Trail
  <2> QED
    BY <1>3, <2>4 DEF attempt
<1> QED
  BY <1>2, <1>3

\* A call past its check is answered under a capsule of its thread, and goes on to its
\* attempt only under one that covers it.
LEMMA UsedCapsule ==
    ASSUME MonitorInv, NEW q \in Calls, at[q] \notin {"new", "loaded", "end"}
    PROVE  /\ q \in Calls \ Lists
           /\ using[q] \in Capsules
           /\ <<q, using[q]>> \in OfItsThread
           /\ at[q] # "log blocked" => <<q, using[q]>> \in Granted
<1>1. q \notin Lists
  BY DEF MonitorInv, ListsOnlyBind
<1>2. using[q] # None /\ using[q] \in Capsules
  BY DEF MonitorInv, IInv, TypeOK, CallsTypeOK
<1>3. /\ ThreadOf[using[q]] = ThreadOf[q] /\ using[q] \notin Unverifiable
      /\ at[q] # "log blocked" => q \in Grants[using[q]]
  BY <1>2 DEF MonitorInv, IInv, BindInv, UsesAGrant
<1>4. <<q, using[q]>> \in OfItsThread
  BY <1>2, <1>3 DEF OfItsThread
<1> QED
  BY <1>1, <1>2, <1>3, <1>4 DEF Granted

\* The steps of a call are steps of the monitor, or leave log and workspace alone.
LEMMA CallStepIsMonitored ==
    ASSUME MonitorInv, NEW q \in Calls, CallStep(q)
    PROVE  Monitor!MonitorNext \/ UNCHANGED <<effect, audit>>
<1> DEFINE c == using[q]
<1>1. TypeOK /\ RecordedBy(q)
  BY DEF MonitorInv, IInv, LogInv, RecordsFollowCalls
<1>2. CASE Load(q) \/ ListTools(q) \/ CheckNoCapsule(q) \/ CheckCall(q) \/ LogFails(q)
  BY <1>2 DEF Load, ListTools, CheckNoCapsule, CheckCall, LogFails
<1>3. CASE LogBlocked(q)
  <2>1. at[q] = "log blocked" /\ effect' = effect /\ audit' = audit \union {<<q, c, "blocked">>}
    BY <1>3 DEF LogBlocked, Logged
  <2>2. Monitor!Block(q, c)
    BY <1>1, <2>1, TrailByPlace, UsedCapsule DEF Monitor!Block
  <2> QED
    BY <2>1, <2>2, UsedCapsule DEF Monitor!MonitorNext
<1>4. CASE LogAttempt(q)
  <2>1. at[q] = "log attempt" /\ effect' = effect /\ audit' = audit \union {<<q, c, "attempt">>}
    BY <1>4 DEF LogAttempt, Logged
  <2>2. Monitor!Attempt(q, c)
    BY <1>1, <2>1, TrailByPlace, UsedCapsule DEF Monitor!Attempt
  <2> QED
    BY <2>1, <2>2, UsedCapsule DEF Monitor!MonitorNext
<1>5. CASE Run(q)
  <2>1. /\ at[q] = "run" /\ audit' = audit
        /\ effect' = effect \/ effect' = effect \union {<<q, c>>}
    BY <1>5 DEF Run
  <2>2. \A e \in effect : e[1] # q
    BY <2>1 DEF MonitorInv, ActsOnce, BeforeTool
  <2>3. effect' = effect \union {<<q, c>>} => Monitor!Act(q, c)
    BY <1>1, <2>1, <2>2, TrailByPlace DEF Monitor!Act, Monitor!UnderWay, Monitor!HasActed
  <2> QED
    BY <2>1, <2>3, UsedCapsule DEF Monitor!MonitorNext
<1>6. CASE LogResult(q)
  <2>1. PICK result \in {"allowed", "rejected", "exception"} :
            /\ at[q] \in {"log allowed", "log rejected", "log exception"}
            /\ result = "allowed" => at[q] = "log allowed"
            /\ effect' = effect /\ audit' = audit \union {<<q, c, result>>}
    BY <1>6 DEF LogResult, Logged
  <2>2. result = "allowed" => <<q, c>> \in effect
    BY <1>1, <2>1 DEF RecordedBy
  <2>3. Monitor!Conclude(q, c, result)
    BY <1>1, <2>1, <2>2, TrailByPlace DEF Monitor!Conclude, Monitor!UnderWay
  <2> QED
    BY <2>1, <2>3, UsedCapsule DEF Monitor!MonitorNext
<1> QED
  BY <1>2, <1>3, <1>4, <1>5, <1>6 DEF CallStep

\* Enforcement is a reference monitor: the trail every call leaves, and what its tool does
\* between two entries of it, are those of ReferenceMonitor, for any number of calls,
\* capsules and crashes.  RecordsAgree and EffectIsLogged speak of any one moment; this
\* speaks of the order.
THEOREM EnforcesAsMonitor == Spec => ImplementsMonitor
<1>1. Init => Monitor!MonitorInit
  BY DEF Init, Monitor!MonitorInit
<1>2. MonitorInv /\ [Next]_vars => [Monitor!MonitorNext]_<<effect, audit>>
  BY CallStepIsMonitored, StepOfOthers
<1> QED
  BY <1>1, <1>2, MonitorInvHolds, PTL DEF Spec, ImplementsMonitor, Monitor!MonitorSpec
=============================================================================
