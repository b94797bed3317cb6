------------------------ MODULE SharedDatabase_proofs -------------------------
(***************************************************************************)
(* Proofs about SharedDatabase, for every set of tasks and any number of   *)
(* crashes.                                                                *)
(***************************************************************************)
EXTENDS SharedDatabase, TLAPS

-----------------------------------------------------------------------------
\* The inductive invariant.

Members(q) == {q[i] : i \in DOMAIN q}
Distinct(q) == \A i, j \in DOMAIN q : q[i] = q[j] => i = j

Calls == StoreCalls \union {"persist", "log", "get_events", "mcp_init_db", "mcp_latest", "mcp_log"}

\* The rows a call writes, and the call that writes a row.
Names(c) == Members(Statements(c))
Owner(s) == CASE s \in {"approved", "capsule"} -> "record_issued_and_resolve"
              [] s \in {"history", "tools"} -> "persist"
              [] OTHER -> s
AllNames == Calls \union {"approved", "capsule", "history", "tools"}

CallsOf(t) == Members(Script[kind[t]])
Later(t) == Members(Tail(todo[t]))

\* A task makes calls of its script, each once, and a sweep purges last.
TaskOK(t) ==
    /\ kind[t] = "none" => todo[t] = <<>> /\ answer[t] = "none"
    /\ kind[t] # "none" => Distinct(todo[t]) /\ Members(todo[t]) \subseteq CallsOf(t)
    /\ kind[t] = "sweep" /\ Running(t) => todo[t][Len(todo[t])] = "purge"
    /\ stage[t] # "outside" => Running(t)
    /\ stage[t] = "missed" => Call(t) \in Conditional
    /\ stage[t] = "inside" => Members(left[t]) \subseteq Names(Call(t)) /\ Distinct(left[t])

\* A guarded call has its connection's lock.
HasLock(t) == Running(t) /\ stage[t] # "outside" /\ Guarded(Call(t)) => guard[Conn(t)] = t

\* The rows the present call has written, and whether it is halfway.
Written(t) == IF stage[t] = "inside" THEN Names(Call(t)) \ Members(left[t]) ELSE {}
Halfway(t) == Running(t) /\ stage[t] = "inside" /\ left[t] # <<>>

InFile(t, s) == <<t, s>> \in committed
InJournal(t, s) == <<t, s>> \in journal

\* A row is one its task has got to.
RowsAreWritten(t) ==
    \A s : InFile(t, s) \/ InJournal(t, s) =>
        /\ kind[t] # "none" /\ Owner(s) \in CallsOf(t)
        /\ Running(t) => /\ Owner(s) \notin Later(t)
                         /\ Owner(s) = Call(t) => s \in Written(t)

\* What the present call has written is kept: if it is halfway, by its transaction.
WrittenIsKept(t) ==
    Running(t) => \A s \in Written(t) :
        /\ InFile(t, s) \/ (InJournal(t, s) /\ tx[Conn(t)] = "writing")
        /\ Halfway(t) => ~InFile(t, s)

\* The rows of a call are together, but for a call halfway.
RowsTogether(t) ==
    \A c \in Calls : \A r, s \in Names(c) :
        /\ InFile(t, r) <=> InFile(t, s)
        /\ (Halfway(t) /\ c = Call(t)) \/ (InJournal(t, r) <=> InJournal(t, s))

\* The calls that a request has behind it are committed.
PastIsCommitted(t) ==
    Running(t) /\ kind[t] # "sweep" =>
        \A c \in CallsOf(t) \ Members(todo[t]) : \A s \in Names(c) : InFile(t, s)

\* What an answered request has written is committed.
OkIsCommitted(t) ==
    answer[t] = "ok" /\ kind[t] # "sweep" =>
        \A c \in CallsOf(t) : \A s \in Names(c) : InFile(t, s)

RowsOK(t) ==
    /\ RowsAreWritten(t) /\ WrittenIsKept(t) /\ RowsTogether(t)
    /\ PastIsCommitted(t) /\ OkIsCommitted(t)

Shape ==
    /\ kind \in [Tasks -> Kinds \union {"none"}]
    /\ todo \in [Tasks -> Seq(Calls)]
    /\ stage \in [Tasks -> {"outside", "inside", "missed"}]
    /\ left \in [Tasks -> Seq(AllNames)]
    /\ answer \in [Tasks -> {"none", "ok", "error"}]
    /\ guard \in [Connections -> Tasks \union {NoTask}]
    /\ tx \in [Connections -> Transactions]
    /\ crashes \in 0..MaxCrashes

LeftOK(t) == Len(left[t]) <= 2 /\ (left[t] # <<>> => stage[t] = "inside")

\* Whoever has a lock is inside a call of its connection.
GuardOK ==
    \A c \in Connections : guard[c] # NoTask =>
        Running(guard[c]) /\ stage[guard[c]] # "outside" /\ Conn(guard[c]) = c

\* One connection writes, and only its rows are uncommitted.
OneWriter == \A c, d \in Connections : tx[c] = "writing" /\ tx[d] = "writing" => c = d
FileOK ==
    /\ OneWriter
    /\ journal # {} => \E c \in Connections : tx[c] = "writing"
    /\ journal \intersect committed = {}

TaskInv(t) == TaskOK(t) /\ LeftOK(t) /\ HasLock(t)

DatabaseInv ==
    /\ Shape /\ GuardOK /\ FileOK
    /\ \A t \in Tasks : TaskInv(t) /\ RowsOK(t)

-----------------------------------------------------------------------------
\* Sequences without repetition.

LEMMA HeadAndTail ==
    ASSUME NEW S, NEW q \in Seq(S), q # <<>>
    PROVE  /\ Head(q) \in S /\ Tail(q) \in Seq(S)
           /\ Members(q) = {Head(q)} \union Members(Tail(q))
           /\ Distinct(q) => Distinct(Tail(q)) /\ Head(q) \notin Members(Tail(q))
           /\ Tail(q) # <<>> => Tail(q)[Len(Tail(q))] = q[Len(q)]
           /\ q[Len(q)] = Head(q) \/ q[Len(q)] \in Members(Tail(q))
           /\ Len(Tail(q)) = Len(q) - 1 /\ Len(q) \in Nat \ {0}
<1>1. Len(q) \in Nat \ {0} /\ Len(Tail(q)) = Len(q) - 1 /\ Tail(q) \in Seq(S)
      /\ Head(q) = q[1] /\ \A i \in 1..Len(Tail(q)) : Tail(q)[i] = q[i + 1]
  OBVIOUS
<1>2. DOMAIN q = 1..Len(q) /\ DOMAIN Tail(q) = 1..(Len(q) - 1)
  BY <1>1
<1>3. Members(q) = {Head(q)} \union Members(Tail(q))
  <2>1. ASSUME NEW i \in 1..Len(q)
        PROVE  q[i] = Head(q) \/ q[i] \in Members(Tail(q))
    <3>1. i = 1 \/ (i - 1 \in 1..(Len(q) - 1) /\ Tail(q)[i - 1] = q[i])
      BY <1>1
    <3> QED
      BY <1>1, <1>2, <3>1 DEF Members
  <2>2. ASSUME NEW i \in 1..(Len(q) - 1)
        PROVE  Tail(q)[i] \in Members(q)
    <3>1. i + 1 \in 1..Len(q) /\ Tail(q)[i] = q[i + 1]
      BY <1>1
    <3> QED
      BY <1>2, <3>1 DEF Members
  <2>3. Head(q) \in Members(q)
    BY <1>1, <1>2 DEF Members
  <2> QED
    BY <1>2, <2>1, <2>2, <2>3 DEF Members
<1>4. ASSUME Distinct(q)
      PROVE  Distinct(Tail(q)) /\ Head(q) \notin Members(Tail(q))
  <2>1. \A i \in 1..(Len(q) - 1) : i + 1 \in 1..Len(q) /\ i + 1 # 1 /\ Tail(q)[i] = q[i + 1]
    BY <1>1
  <2>2. 1 \in 1..Len(q)
    BY <1>1
  <2>3. \A i \in 1..(Len(q) - 1) : Tail(q)[i] # Head(q)
    BY <1>1, <1>2, <1>4, <2>1, <2>2 DEF Distinct
  <2>4. \A i, j \in 1..(Len(q) - 1) : Tail(q)[i] = Tail(q)[j] => i = j
    BY <1>1, <1>2, <1>4, <2>1 DEF Distinct
  <2> QED
    BY <1>2, <2>3, <2>4 DEF Distinct, Members
<1>5. Tail(q) # <<>> => Tail(q)[Len(Tail(q))] = q[Len(q)]
  BY <1>1
<1>6. q[Len(q)] \in Members(q)
  BY <1>1, <1>2 DEF Members
<1> QED
  BY <1>1, <1>3, <1>4, <1>5, <1>6

LEMMA Empty == Members(<<>>) = {} /\ Distinct(<<>>)
  BY DEF Members, Distinct

LEMMA OneMember == \A x : Members(<<x>>) = {x} /\ Distinct(<<x>>) /\ Len(<<x>>) = 1
  BY DEF Members, Distinct

LEMMA TwoMembers == \A x, y : /\ Members(<<x, y>>) = {x, y} /\ Len(<<x, y>>) = 2
                              /\ x # y => Distinct(<<x, y>>)
<1> TAKE x, y
<1>1. DOMAIN <<x, y>> = {1, 2}
  OBVIOUS
<1> QED
  BY <1>1 DEF Members, Distinct

-----------------------------------------------------------------------------
\* Scripts, calls and rows.

LEMMA KindsAre ==
    Kinds = {"denied", "pending", "issued", "approve", "reject", "view", "sweep", "mcp"}
  BY DEF Kinds, Script

LEMMA ScriptCalls ==
    ASSUME NEW k \in Kinds
    PROVE  /\ Script[k] \in Seq(Calls) /\ Script[k] # <<>> /\ Distinct(Script[k])
           /\ Len(Script[k]) \in Nat /\ Len(Script[k]) <= 5
           /\ Members(Script[k]) \subseteq Calls
           /\ \A c \in Members(Script[k]) : Connection(c) \in ConnectionsOf(Process(k))
           /\ k = "sweep" => /\ Script[k][Len(Script[k])] = "purge"
                             /\ "purge" \in Members(Script[k])
<1>1. CASE k = "denied"
  BY <1>1 DEF Script, Calls, Distinct, Members, Connection, ConnectionsOf, Process, StoreCalls
<1>2. CASE k = "pending"
  BY <1>2 DEF Script, Calls, Distinct, Members, Connection, ConnectionsOf, Process, StoreCalls
<1>3. CASE k = "issued"
  BY <1>3 DEF Script, Calls, Distinct, Members, Connection, ConnectionsOf, Process, StoreCalls
<1>4. CASE k = "approve"
  BY <1>4 DEF Script, Calls, Distinct, Members, Connection, ConnectionsOf, Process, StoreCalls
<1>5. CASE k = "reject"
  BY <1>5 DEF Script, Calls, Distinct, Members, Connection, ConnectionsOf, Process, StoreCalls
<1>6. CASE k = "view"
  BY <1>6 DEF Script, Calls, Distinct, Members, Connection, ConnectionsOf, Process, StoreCalls
<1>7. CASE k = "sweep"
  BY <1>7 DEF Script, Calls, Distinct, Members, Connection, ConnectionsOf, Process, StoreCalls
<1>8. CASE k = "mcp"
  BY <1>8 DEF Script, Calls, Distinct, Members, Connection, ConnectionsOf, Process, StoreCalls
<1> QED
  BY <1>1, <1>2, <1>3, <1>4, <1>5, <1>6, <1>7, <1>8, KindsAre

LEMMA PurgeIsOfSweep ==
    ASSUME NEW k \in Kinds, "purge" \in Members(Script[k])
    PROVE  k = "sweep"
  BY KindsAre DEF Script, Members

LEMMA CallConnections ==
    ASSUME NEW c \in Calls
    PROVE  /\ Connection(c) \in Connections
           /\ Connection(c) \in {"store", "tracker"} => Guarded(c)
           /\ c \in Conditional \union {"purge"} => Connection(c) = "store"
  BY DEF Calls, StoreCalls, Connection, Connections, Guarded, Conditional

LEMMA ProcessConnections ==
    \A p, q \in {"server", "mcp"} :
        /\ ConnectionsOf(p) \subseteq Connections
        /\ p # q => ConnectionsOf(p) \intersect ConnectionsOf(q) = {}
  BY DEF ConnectionsOf, Connections

LEMMA CallStatements ==
    ASSUME NEW c \in Calls
    PROVE  /\ Statements(c) \in Seq(AllNames) /\ Distinct(Statements(c))
           /\ Len(Statements(c)) <= 2
           /\ \A s \in Names(c) : Owner(s) = c /\ s \in AllNames
           /\ \A r, s \in Names(c) : r # s => Connection(c) \in {"store", "tracker"}
           /\ Statements(c) = <<>> => Names(c) = {}
<1>1. CASE c \in {"get_pending", "get_events", "select_open", "mcp_latest"}
  <2>1. Statements(c) = <<>>
    BY <1>1 DEF Statements
  <2> QED
    BY <2>1, Empty DEF Names
<1>2. CASE c = "record_issued_and_resolve"
  <2>1. Statements(c) = <<"approved", "capsule">>
    BY <1>2 DEF Statements
  <2>2. Names(c) = {"approved", "capsule"} /\ Distinct(Statements(c)) /\ Len(Statements(c)) = 2
    BY <2>1, TwoMembers DEF Names
  <2>3. Statements(c) # <<>> /\ Statements(c) \in Seq(AllNames)
    BY <2>1 DEF AllNames
  <2>4. Connection(c) = "store" /\ Owner("approved") = c /\ Owner("capsule") = c
    BY <1>2 DEF Connection, StoreCalls, Owner
  <2> QED
    BY <2>2, <2>3, <2>4 DEF AllNames
<1>3. CASE c = "persist"
  <2>1. Statements(c) = <<"history", "tools">>
    BY <1>3 DEF Statements
  <2>2. Names(c) = {"history", "tools"} /\ Distinct(Statements(c)) /\ Len(Statements(c)) = 2
    BY <2>1, TwoMembers DEF Names
  <2>3. Statements(c) # <<>> /\ Statements(c) \in Seq(AllNames)
    BY <2>1 DEF AllNames
  <2>4. Connection(c) = "tracker" /\ Owner("history") = c /\ Owner("tools") = c
    BY <1>3 DEF Connection, StoreCalls, Owner
  <2> QED
    BY <2>2, <2>3, <2>4 DEF AllNames
<1>4. CASE c \notin {"get_pending", "get_events", "select_open", "mcp_latest",
                     "record_issued_and_resolve", "persist"}
  <2>1. Statements(c) = <<c>>
    BY <1>4 DEF Statements
  <2>2. Names(c) = {c} /\ Distinct(Statements(c)) /\ Len(Statements(c)) = 1
    BY <2>1, OneMember DEF Names
  <2>3. Statements(c) # <<>> /\ Statements(c) \in Seq(AllNames)
    BY <2>1 DEF AllNames
  <2>4. Owner(c) = c
    BY DEF Owner, Calls, StoreCalls
  <2> QED
    BY <2>2, <2>3, <2>4 DEF AllNames
<1> QED
  BY <1>1, <1>2, <1>3, <1>4
-----------------------------------------------------------------------------
\* What a task is at, before the step.

LEMMA TaskFacts ==
    ASSUME DatabaseInv, NEW t \in Tasks
    PROVE  /\ todo[t] \in Seq(Calls) /\ left[t] \in Seq(AllNames)
           /\ kind[t] \in Kinds \union {"none"}
           /\ stage[t] \in {"outside", "inside", "missed"}
           /\ TaskOK(t) /\ LeftOK(t) /\ HasLock(t) /\ RowsOK(t)
           /\ kind[t] # "none" => CallsOf(t) \subseteq Calls
  BY ScriptCalls DEF DatabaseInv, Shape, TaskInv, CallsOf

LEMMA RunningFacts ==
    ASSUME DatabaseInv, NEW t \in Tasks, Running(t)
    PROVE  /\ kind[t] \in Kinds /\ Call(t) \in Calls /\ Conn(t) \in Connections
           /\ Call(t) \in CallsOf(t) /\ CallsOf(t) \subseteq Calls
           /\ Conn(t) \in ConnectionsOf(Process(kind[t]))
           /\ Later(t) \subseteq CallsOf(t)
           /\ Call(t) \notin Later(t) /\ Members(todo[t]) = {Call(t)} \union Later(t)
           /\ Distinct(Tail(todo[t])) /\ Tail(todo[t]) \in Seq(Calls)
           /\ kind[t] = "sweep" => Call(t) = "purge" \/ "purge" \in Later(t)
           /\ kind[t] = "sweep" /\ Tail(todo[t]) # <<>> =>
                  Tail(todo[t])[Len(Tail(todo[t]))] = "purge"
<1>1. todo[t] \in Seq(Calls) /\ todo[t] # <<>> /\ kind[t] # "none" /\ kind[t] \in Kinds
      /\ TaskOK(t)
  BY TaskFacts DEF Running, TaskOK
<1>2. Members(todo[t]) \subseteq CallsOf(t) /\ Distinct(todo[t])
      /\ (kind[t] = "sweep" => todo[t][Len(todo[t])] = "purge")
  BY <1>1 DEF TaskOK, Running
<1>3. /\ Call(t) \in Calls /\ Tail(todo[t]) \in Seq(Calls)
      /\ Members(todo[t]) = {Call(t)} \union Later(t)
      /\ Distinct(Tail(todo[t])) /\ Call(t) \notin Later(t)
      /\ Tail(todo[t]) # <<>> => Tail(todo[t])[Len(Tail(todo[t]))] = todo[t][Len(todo[t])]
      /\ todo[t][Len(todo[t])] = Call(t) \/ todo[t][Len(todo[t])] \in Later(t)
  BY <1>1, <1>2, HeadAndTail DEF Call, Later
<1>4. \A c \in CallsOf(t) : c \in Calls /\ Connection(c) \in ConnectionsOf(Process(kind[t]))
  BY <1>1, ScriptCalls DEF CallsOf
<1>5. Call(t) \in CallsOf(t)
  BY <1>2, <1>3
<1> QED
  BY <1>1, <1>2, <1>3, <1>4, <1>5, CallConnections DEF Conn

\* A call halfway that has written something writes two rows, so it has the lock of
\* its connection.
LEMMA HalfwayIsGuarded ==
    ASSUME DatabaseInv, NEW t \in Tasks, Running(t), Halfway(t), NEW s \in Written(t)
    PROVE  /\ Conn(t) \in {"store", "tracker"} /\ guard[Conn(t)] = t
           /\ InJournal(t, s) /\ tx[Conn(t)] = "writing" /\ ~InFile(t, s)
<1>1. stage[t] = "inside" /\ left[t] # <<>> /\ left[t] \in Seq(AllNames)
      /\ TaskOK(t) /\ HasLock(t) /\ RowsOK(t)
  BY TaskFacts DEF Halfway
<1>2. Head(left[t]) \in Members(left[t])
  BY <1>1, HeadAndTail
<1>3. Members(left[t]) \subseteq Names(Call(t)) /\ s \in Names(Call(t)) \ Members(left[t])
  BY <1>1 DEF TaskOK, Written
<1>4. Connection(Call(t)) \in {"store", "tracker"}
  BY <1>2, <1>3, RunningFacts, CallStatements
<1>5. Guarded(Call(t)) /\ Conn(t) \in {"store", "tracker"}
  BY <1>4, RunningFacts, CallConnections DEF Conn
<1>6. guard[Conn(t)] = t
  BY <1>1, <1>5 DEF HasLock
<1>7. InJournal(t, s) /\ tx[Conn(t)] = "writing" /\ ~InFile(t, s)
  BY <1>1 DEF RowsOK, WrittenIsKept
<1> QED
  BY <1>5, <1>6, <1>7

\* Unless a call is halfway and has written something, the rows of every call are
\* together.
LEMMA TornFree ==
    ASSUME DatabaseInv, NEW t \in Tasks, Halfway(t) => Written(t) = {}
    PROVE  \A c \in Calls : \A r, s \in Names(c) :
               /\ InFile(t, r) <=> InFile(t, s)
               /\ InJournal(t, r) <=> InJournal(t, s)
<1> SUFFICES ASSUME NEW c \in Calls, NEW r \in Names(c), NEW s \in Names(c)
             PROVE  (InFile(t, r) <=> InFile(t, s)) /\ (InJournal(t, r) <=> InJournal(t, s))
  OBVIOUS
<1>1. RowsAreWritten(t) /\ RowsTogether(t)
  BY TaskFacts DEF RowsOK
<1>2. Owner(r) = c /\ Owner(s) = c
  BY CallStatements
<1>3. CASE Halfway(t) /\ c = Call(t)
  BY <1>1, <1>2, <1>3 DEF RowsAreWritten, Halfway
<1>4. CASE ~(Halfway(t) /\ c = Call(t))
  BY <1>1, <1>4 DEF RowsTogether
<1> QED
  BY <1>3, <1>4

-----------------------------------------------------------------------------
\* A task that the step does not touch.

Same(u) ==
    /\ kind'[u] = kind[u] /\ todo'[u] = todo[u] /\ stage'[u] = stage[u]
    /\ left'[u] = left[u] /\ answer'[u] = answer[u]

LEMMA SameTask ==
    ASSUME NEW u, Same(u)
    PROVE  /\ Running(u)' <=> Running(u)
           /\ Halfway(u)' <=> Halfway(u)
           /\ Call(u)' = Call(u) /\ Conn(u)' = Conn(u) /\ CallsOf(u)' = CallsOf(u)
           /\ Later(u)' = Later(u) /\ Written(u)' = Written(u)
           /\ TaskOK(u)' <=> TaskOK(u)
           /\ LeftOK(u)' <=> LeftOK(u)
<1>1. /\ Running(u)' <=> Running(u)
      /\ Call(u)' = Call(u) /\ CallsOf(u)' = CallsOf(u) /\ Later(u)' = Later(u)
  BY DEF Same, Running, Call, CallsOf, Later
<1>2. Conn(u)' = Conn(u) /\ (Halfway(u)' <=> Halfway(u)) /\ Written(u)' = Written(u)
  BY <1>1 DEF Same, Conn, Halfway, Written
<1>3. (TaskOK(u)' <=> TaskOK(u)) /\ (LeftOK(u)' <=> LeftOK(u))
  BY <1>1 DEF Same, TaskOK, LeftOK
<1> QED
  BY <1>1, <1>2, <1>3

\* What a step may do to the rows of a task: nothing, commit them, or lose those of a
\* transaction that was not the task's.
RowsKept(u) ==
    /\ \A s : (InFile(u, s)' <=> InFile(u, s)) /\ (InJournal(u, s)' <=> InJournal(u, s))
    /\ Running(u) /\ tx[Conn(u)] = "writing" => tx'[Conn(u)] = "writing"

RowsCommitted(u) ==
    /\ \A s : (InFile(u, s)' <=> InFile(u, s) \/ InJournal(u, s)) /\ ~InJournal(u, s)'
    /\ Running(u) /\ Halfway(u) => Written(u) = {}

RowsLost(u) ==
    /\ \A s : (InFile(u, s)' <=> InFile(u, s)) /\ ~InJournal(u, s)'
    /\ Running(u) => tx[Conn(u)] # "writing"

LEMMA SameRows ==
    ASSUME DatabaseInv, NEW u \in Tasks, Same(u),
           RowsKept(u) \/ RowsCommitted(u) \/ RowsLost(u)
    PROVE  RowsOK(u)'
<1>0. RowsAreWritten(u) /\ WrittenIsKept(u) /\ RowsTogether(u)
      /\ PastIsCommitted(u) /\ OkIsCommitted(u)
  BY TaskFacts DEF RowsOK
<1>1. /\ Running(u)' <=> Running(u)
      /\ Halfway(u)' <=> Halfway(u)
      /\ Call(u)' = Call(u) /\ Conn(u)' = Conn(u) /\ CallsOf(u)' = CallsOf(u)
      /\ Later(u)' = Later(u) /\ Written(u)' = Written(u)
      /\ kind'[u] = kind[u] /\ todo'[u] = todo[u] /\ answer'[u] = answer[u]
  BY SameTask DEF Same
<1>2. \A s : InFile(u, s)' \/ InJournal(u, s)' => InFile(u, s) \/ InJournal(u, s)
  BY DEF RowsKept, RowsCommitted, RowsLost
<1>3. \A s : InFile(u, s) => InFile(u, s)'
  BY DEF RowsKept, RowsCommitted, RowsLost
<1>4. RowsAreWritten(u)'
  BY <1>0, <1>1, <1>2 DEF RowsAreWritten
<1>5. PastIsCommitted(u)' /\ OkIsCommitted(u)'
  BY <1>0, <1>1, <1>3 DEF PastIsCommitted, OkIsCommitted
<1>6. WrittenIsKept(u)'
  <2> SUFFICES ASSUME Running(u), NEW s \in Written(u)
               PROVE  /\ InFile(u, s)' \/ (InJournal(u, s)' /\ tx'[Conn(u)] = "writing")
                      /\ Halfway(u) => ~InFile(u, s)'
    BY <1>1 DEF WrittenIsKept
  <2>1. /\ InFile(u, s) \/ (InJournal(u, s) /\ tx[Conn(u)] = "writing")
        /\ Halfway(u) => ~InFile(u, s)
    BY <1>0 DEF WrittenIsKept
  <2> QED
    BY <2>1 DEF RowsKept, RowsCommitted, RowsLost
<1>7. RowsTogether(u)'
  <2> SUFFICES ASSUME NEW c \in Calls, NEW r \in Names(c), NEW s \in Names(c)
               PROVE  /\ InFile(u, r)' <=> InFile(u, s)'
                      /\ (Halfway(u) /\ c = Call(u)) \/ (InJournal(u, r)' <=> InJournal(u, s)')
    BY <1>1 DEF RowsTogether
  <2>1. /\ InFile(u, r) <=> InFile(u, s)
        /\ (Halfway(u) /\ c = Call(u)) \/ (InJournal(u, r) <=> InJournal(u, s))
    BY <1>0 DEF RowsTogether
  <2>2. CASE RowsKept(u) \/ RowsLost(u)
    BY <2>1, <2>2 DEF RowsKept, RowsLost
  <2>3. CASE RowsCommitted(u)
    <3>1. Halfway(u) => Written(u) = {}
      BY <2>3 DEF RowsCommitted, Halfway
    <3>2. InJournal(u, r) <=> InJournal(u, s)
      BY <3>1, TornFree
    <3> QED
      BY <2>1, <2>3, <3>2 DEF RowsCommitted
  <2> QED
    BY <2>2, <2>3
<1> QED
  BY <1>4, <1>5, <1>6, <1>7 DEF RowsOK
-----------------------------------------------------------------------------
\* What a step does to the file and to the other tasks.

\* No transaction gets or loses the write lock, no row moves.
QuietFile ==
    /\ UNCHANGED <<journal, committed>>
    /\ tx' \in [Connections -> Transactions]
    /\ \A c \in Connections : tx'[c] = "writing" <=> tx[c] = "writing"

LEMMA QuietKeeps ==
    ASSUME DatabaseInv, QuietFile
    PROVE  FileOK' /\ \A u \in Tasks : RowsKept(u)
<1>1. FileOK'
  BY DEF DatabaseInv, FileOK, OneWriter, QuietFile
<1>2. ASSUME NEW u \in Tasks
      PROVE  RowsKept(u)
  BY RunningFacts DEF RowsKept, QuietFile, InFile, InJournal
<1> QED
  BY <1>1, <1>2

LEMMA SelectedIsQuiet ==
    ASSUME DatabaseInv, NEW c \in Connections, Selected(c) \/ Failed(c) \/ UNCHANGED tx,
           UNCHANGED <<journal, committed>>
    PROVE  QuietFile
<1>1. tx \in [Connections -> Transactions]
  BY DEF DatabaseInv, Shape
<1>2. tx' \in [Connections -> Transactions]
  BY <1>1 DEF Selected, Failed, Transactions
<1>3. \A d \in Connections : tx'[d] = "writing" <=> tx[d] = "writing"
  BY <1>1 DEF Selected, Failed
<1> QED
  BY <1>2, <1>3 DEF QuietFile

\* A statement that gets the write lock.
LEMMA WroteFile ==
    ASSUME DatabaseInv, NEW c \in Connections, NEW rows, Writable(c), Wrote(c, rows),
           rows \intersect committed = {}
    PROVE  /\ FileOK' /\ tx' \in [Connections -> Transactions]
           /\ tx' = [tx EXCEPT ![c] = "writing"]
<1>1. tx \in [Connections -> Transactions] /\ FileOK
  BY DEF DatabaseInv, Shape
<1>2. tx' = [tx EXCEPT ![c] = "writing"] /\ journal' = journal \union rows
      /\ committed' = committed
  BY DEF Wrote
<1>3. tx' \in [Connections -> Transactions]
  BY <1>1, <1>2 DEF Transactions
<1>4. \A d \in Connections : tx[d] = "writing" => d = c
  BY DEF Writable, LockedElsewhere
<1>5. \A d \in Connections : tx'[d] = "writing" <=> d = c
  BY <1>1, <1>2, <1>4
<1>6. OneWriter'
  BY <1>5 DEF OneWriter
<1>7. journal' \intersect committed' = {}
  BY <1>1, <1>2 DEF FileOK
<1> QED
  BY <1>2, <1>3, <1>5, <1>6, <1>7 DEF FileOK

\* A commit by a task that is not halfway moves every row there is into the file, or
\* none, and finds no other task halfway on the connection.
CommittedAll ==
    \A u \in Tasks : \A s : (InFile(u, s)' <=> InFile(u, s) \/ InJournal(u, s)) /\ ~InJournal(u, s)'

LEMMA CommitFile ==
    ASSUME DatabaseInv, NEW t \in Tasks, Running(t), stage[t] # "outside", ~Halfway(t),
           Committed(Conn(t))
    PROVE  /\ FileOK' /\ tx' \in [Connections -> Transactions]
           /\ \A u \in Tasks \ {t} : RowsKept(u) \/ RowsCommitted(u)
           /\ QuietFile \/ (tx[Conn(t)] = "writing" /\ CommittedAll)
           /\ tx[Conn(t)] # "writing" => QuietFile
<1>1. tx \in [Connections -> Transactions] /\ FileOK /\ Conn(t) \in Connections
  BY RunningFacts DEF DatabaseInv, Shape
<1>2. CASE tx[Conn(t)] # "writing"
  <2>1. tx' = [tx EXCEPT ![Conn(t)] = "none"] /\ UNCHANGED <<journal, committed>>
    BY <1>2 DEF Committed
  <2>2. tx' \in [Connections -> Transactions]
    BY <1>1, <2>1 DEF Transactions
  <2>3. \A d \in Connections : tx'[d] = "writing" <=> tx[d] = "writing"
    BY <1>1, <1>2, <2>1
  <2>4. QuietFile
    BY <2>1, <2>2, <2>3 DEF QuietFile
  <2> QED
    BY <2>2, <2>4, QuietKeeps
<1>3. CASE tx[Conn(t)] = "writing"
  <2>1. /\ committed' = committed \union journal
        /\ journal' = {}
        /\ tx' = [d \in Connections |-> IF d = Conn(t) THEN "none"
                                        ELSE IF tx[d] = "reading" THEN "stale" ELSE tx[d]]
    BY <1>3 DEF Committed
  <2>2. tx' \in [Connections -> Transactions]
    BY <1>1, <2>1 DEF Transactions
  <2>3. OneWriter'
    BY <1>1, <2>1 DEF FileOK, OneWriter
  <2>4. FileOK'
    BY <2>1, <2>3 DEF FileOK
  <2>5. CommittedAll
    BY <2>1 DEF CommittedAll, InFile, InJournal
  <2>6. ASSUME NEW u \in Tasks \ {t}
        PROVE  RowsCommitted(u)
    <3>1. ASSUME Running(u), Halfway(u), NEW s \in Written(u)
          PROVE  FALSE
      <4>1. Conn(u) \in {"store", "tracker"} /\ guard[Conn(u)] = u /\ tx[Conn(u)] = "writing"
        BY <3>1, HalfwayIsGuarded
      <4>2. Conn(u) = Conn(t)
        BY <1>1, <1>3, <3>1, <4>1, RunningFacts DEF FileOK, OneWriter
      <4>3. Guarded(Call(t))
        BY <4>1, <4>2, RunningFacts, CallConnections DEF Conn
      <4>4. guard[Conn(t)] = t
        BY <4>3, TaskFacts DEF HasLock
      <4> QED
        BY <4>1, <4>2, <4>4
    <3> QED
      BY <2>5, <3>1 DEF CommittedAll, RowsCommitted
  <2> QED
    BY <1>3, <2>2, <2>4, <2>5, <2>6
<1> QED
  BY <1>2, <1>3

\* The other tasks keep their invariants when the step leaves them alone, and their
\* locks.
LEMMA OthersInv ==
    ASSUME DatabaseInv, NEW t \in Tasks,
           \A u \in Tasks \ {t} : Same(u) /\ (RowsKept(u) \/ RowsCommitted(u) \/ RowsLost(u)),
           \A c \in Connections : guard[c] \notin {t, NoTask} => guard'[c] = guard[c]
    PROVE  \A u \in Tasks \ {t} : TaskInv(u)' /\ RowsOK(u)'
<1> SUFFICES ASSUME NEW u \in Tasks \ {t}
             PROVE  TaskInv(u)' /\ RowsOK(u)'
  OBVIOUS
<1>1. RowsOK(u)'
  BY SameRows
<1>2. TaskOK(u)' /\ LeftOK(u)'
  BY TaskFacts, SameTask
<1>3. HasLock(u)'
  <2> SUFFICES ASSUME Running(u), stage[u] # "outside", Guarded(Call(u))
               PROVE  guard'[Conn(u)] = u
    BY SameTask DEF HasLock, Same
  <2>1. guard[Conn(u)] = u /\ Conn(u) \in Connections
    BY TaskFacts, RunningFacts DEF HasLock
  <2> QED
    BY <2>1, DatabaseAssumption
<1> QED
  BY <1>1, <1>2, <1>3 DEF TaskInv

-----------------------------------------------------------------------------
\* The end of a call.

\* What the task may have to do next: no more, or calls of its script that it has not
\* made.
GoesOn(t, next) ==
    /\ next \in Seq(Calls)
    /\ next # <<>> => /\ Distinct(next) /\ Members(next) \subseteq Later(t)
                      /\ kind[t] = "sweep" => next[Len(next)] = "purge"

Left(t, next, how) ==
    /\ kind'[t] = kind[t] /\ todo'[t] = next /\ stage'[t] = "outside" /\ left'[t] = <<>>
    /\ answer'[t] = IF next = <<>> THEN how ELSE answer[t]

LEMMA TailIsNext ==
    ASSUME DatabaseInv, NEW t \in Tasks, Running(t)
    PROVE  GoesOn(t, Tail(todo[t])) /\ GoesOn(t, <<>>)
  BY RunningFacts DEF GoesOn, Later

LEMMA LeaveTask ==
    ASSUME DatabaseInv, NEW t \in Tasks, Running(t), NEW next, GoesOn(t, next),
           NEW how \in {"ok", "error"}, Leave(t, next, how)
    PROVE  /\ kind' \in [Tasks -> Kinds \union {"none"}]
           /\ todo' \in [Tasks -> Seq(Calls)]
           /\ stage' \in [Tasks -> {"outside", "inside", "missed"}]
           /\ left' \in [Tasks -> Seq(AllNames)]
           /\ answer' \in [Tasks -> {"none", "ok", "error"}]
           /\ guard' \in [Connections -> Tasks \union {NoTask}]
           /\ UNCHANGED crashes
           /\ Left(t, next, how) /\ \A u \in Tasks \ {t} : Same(u)
           /\ GuardOK' /\ TaskInv(t)'
           /\ \A c \in Connections : guard[c] \notin {t, NoTask} => guard'[c] = guard[c]
<1>1. Shape /\ GuardOK /\ next \in Seq(Calls) /\ Conn(t) \in Connections
  BY RunningFacts DEF DatabaseInv, GoesOn
<1>2. /\ kind' = kind /\ crashes' = crashes
      /\ todo' = [todo EXCEPT ![t] = next]
      /\ answer' = [answer EXCEPT ![t] = IF next = <<>> THEN how ELSE @]
      /\ stage' = [stage EXCEPT ![t] = "outside"]
      /\ left' = [left EXCEPT ![t] = <<>>]
      /\ guard' = [guard EXCEPT ![Conn(t)] = IF @ = t THEN NoTask ELSE @]
  BY DEF Leave, Unlocked
<1>3. /\ kind' \in [Tasks -> Kinds \union {"none"}]
      /\ todo' \in [Tasks -> Seq(Calls)]
      /\ stage' \in [Tasks -> {"outside", "inside", "missed"}]
  BY <1>1, <1>2 DEF Shape
<1>4. /\ left' \in [Tasks -> Seq(AllNames)]
      /\ answer' \in [Tasks -> {"none", "ok", "error"}]
  <2>1. <<>> \in Seq(AllNames)
    OBVIOUS
  <2> QED
    BY <1>1, <1>2, <2>1 DEF Shape
<1>5. guard' \in [Connections -> Tasks \union {NoTask}]
  BY <1>1, <1>2 DEF Shape
<1>6. Left(t, next, how) /\ \A u \in Tasks \ {t} : Same(u)
  BY <1>1, <1>2 DEF Shape, Left, Same
<1>7. \A c \in Connections : guard[c] \notin {t, NoTask} => guard'[c] = guard[c]
  BY <1>1, <1>2 DEF Shape
<1>8. GuardOK'
  <2> SUFFICES ASSUME NEW c \in Connections, guard'[c] # NoTask
               PROVE  (Running(guard[c]) /\ stage[guard[c]] # "outside" /\ Conn(guard[c]) = c)'
    BY DEF GuardOK
  <2>1. guard'[c] = guard[c] /\ guard[c] # t
    <3>1. guard[c] = t => c = Conn(t)
      BY <1>1, DatabaseAssumption DEF GuardOK
    <3> QED
      BY <1>1, <1>2, <3>1 DEF Shape
  <2> DEFINE u == guard[c]
  <2>2. u \in Tasks \ {t} /\ Running(u) /\ stage[u] # "outside" /\ Conn(u) = c
    BY <1>1, <2>1 DEF GuardOK, Shape
  <2>3. Same(u)
    BY <1>6, <2>2
  <2>4. todo'[u] = todo[u] /\ stage'[u] = stage[u]
    BY <2>3 DEF Same
  <2> QED
    BY <2>1, <2>2, <2>4 DEF Running, Conn, Call
<1>9. TaskInv(t)'
  <2>1. kind'[t] = kind[t] /\ todo'[t] = next /\ stage'[t] = "outside" /\ left'[t] = <<>>
    BY <1>6 DEF Left
  <2>2. kind[t] # "none" /\ Later(t) \subseteq CallsOf(t)
    BY RunningFacts, KindsAre
  <2>3. Distinct(next) /\ Members(next) \subseteq CallsOf(t)
        /\ (kind[t] = "sweep" /\ next # <<>> => next[Len(next)] = "purge")
    BY <2>2, Empty DEF GoesOn
  <2>4. CallsOf(t)' = CallsOf(t)
    BY <2>1 DEF CallsOf
  <2>5. TaskOK(t)'
    BY <2>1, <2>2, <2>3, <2>4 DEF TaskOK, Running
  <2>6. LeftOK(t)' /\ HasLock(t)'
    BY <2>1 DEF LeftOK, HasLock
  <2> QED
    BY <2>5, <2>6 DEF TaskInv
<1> QED
  BY <1>2, <1>3, <1>4, <1>5, <1>6, <1>7, <1>8, <1>9

LEMMA LeaveRows ==
    ASSUME DatabaseInv, NEW t \in Tasks, Running(t), NEW next, GoesOn(t, next), NEW how,
           Left(t, next, how),
           \A s : InFile(t, s)' \/ InJournal(t, s)' => InFile(t, s) \/ InJournal(t, s),
           \A s : InFile(t, s) => InFile(t, s)',
           \A c \in Calls : \A r, s \in Names(c) :
               (InFile(t, r)' <=> InFile(t, s)') /\ (InJournal(t, r)' <=> InJournal(t, s)'),
           kind[t] # "sweep" /\ (next # <<>> \/ how = "ok") =>
               next = Tail(todo[t]) /\ \A s \in Names(Call(t)) : InFile(t, s)'
    PROVE  RowsOK(t)'
<1>1. kind'[t] = kind[t] /\ todo'[t] = next /\ stage'[t] = "outside"
      /\ answer'[t] = IF next = <<>> THEN how ELSE answer[t]
  BY DEF Left
<1>2. RowsAreWritten(t) /\ PastIsCommitted(t) /\ OkIsCommitted(t)
  BY TaskFacts DEF RowsOK
<1>3. CallsOf(t)' = CallsOf(t) /\ Written(t)' = {}
  BY <1>1 DEF CallsOf, Written
<1>4. kind[t] # "none" /\ Members(todo[t]) = {Call(t)} \union Later(t)
  BY RunningFacts, KindsAre
<1>5. Running(t)' <=> next # <<>>
  BY <1>1 DEF Running
<1>6. RowsAreWritten(t)'
  <2> SUFFICES ASSUME NEW s, InFile(t, s)' \/ InJournal(t, s)'
               PROVE  /\ Owner(s) \in CallsOf(t)
                      /\ next # <<>> => Owner(s) \notin Later(t)' /\ Owner(s) # Call(t)'
    BY <1>1, <1>3, <1>4, <1>5 DEF RowsAreWritten
  <2>1. Owner(s) \in CallsOf(t) /\ Owner(s) \notin Later(t)
    BY <1>2 DEF RowsAreWritten
  <2>2. ASSUME next # <<>>
        PROVE  Later(t)' \subseteq Later(t) /\ Call(t)' \in Later(t)
    <3>1. next \in Seq(Calls) /\ Members(next) \subseteq Later(t)
      BY <2>2 DEF GoesOn
    <3>2. Members(next) = {Head(next)} \union Members(Tail(next))
      BY <2>2, <3>1, HeadAndTail
    <3>3. Later(t)' = Members(Tail(next)) /\ Call(t)' = Head(next)
      BY <1>1 DEF Later, Call
    <3> QED
      BY <3>1, <3>2, <3>3
  <2> QED
    BY <2>1, <2>2
<1>7. WrittenIsKept(t)' /\ RowsTogether(t)'
  BY <1>3 DEF WrittenIsKept, RowsTogether
<1>8. ASSUME kind[t] # "sweep", next # <<>> \/ how = "ok"
      PROVE  \A c \in CallsOf(t) \ Members(next) : \A s \in Names(c) : InFile(t, s)'
  <2>1. next = Tail(todo[t]) /\ \A s \in Names(Call(t)) : InFile(t, s)'
    BY <1>8
  <2>2. Members(next) = Later(t)
    BY <2>1 DEF Later
  <2>3. \A c \in CallsOf(t) \ Members(todo[t]) : \A s \in Names(c) : InFile(t, s)
    BY <1>2, <1>8 DEF PastIsCommitted
  <2> QED
    BY <1>4, <2>1, <2>2, <2>3
<1>9. PastIsCommitted(t)'
  BY <1>1, <1>3, <1>5, <1>8 DEF PastIsCommitted
<1>10. OkIsCommitted(t)'
  <2>1. CASE next = <<>>
    BY <1>1, <1>3, <1>8, <2>1, Empty DEF OkIsCommitted
  <2>2. CASE next # <<>>
    BY <1>1, <1>2, <1>3, <2>2 DEF OkIsCommitted
  <2> QED
    BY <2>1, <2>2
<1> QED
  BY <1>6, <1>7, <1>9, <1>10 DEF RowsOK
LEMMA LeaveInv ==
    ASSUME DatabaseInv, NEW t \in Tasks, Running(t), NEW next, GoesOn(t, next),
           NEW how \in {"ok", "error"}, Leave(t, next, how),
           FileOK', tx' \in [Connections -> Transactions],
           \A u \in Tasks \ {t} : RowsKept(u) \/ RowsCommitted(u),
           \A s : InFile(t, s)' \/ InJournal(t, s)' => InFile(t, s) \/ InJournal(t, s),
           \A s : InFile(t, s) => InFile(t, s)',
           \A c \in Calls : \A r, s \in Names(c) :
               (InFile(t, r)' <=> InFile(t, s)') /\ (InJournal(t, r)' <=> InJournal(t, s)'),
           kind[t] # "sweep" /\ (next # <<>> \/ how = "ok") =>
               next = Tail(todo[t]) /\ \A s \in Names(Call(t)) : InFile(t, s)'
    PROVE  DatabaseInv'
<1>1. /\ kind' \in [Tasks -> Kinds \union {"none"}]
      /\ todo' \in [Tasks -> Seq(Calls)]
      /\ stage' \in [Tasks -> {"outside", "inside", "missed"}]
      /\ left' \in [Tasks -> Seq(AllNames)]
      /\ answer' \in [Tasks -> {"none", "ok", "error"}]
      /\ guard' \in [Connections -> Tasks \union {NoTask}]
      /\ UNCHANGED crashes
      /\ Left(t, next, how) /\ \A u \in Tasks \ {t} : Same(u)
      /\ GuardOK' /\ TaskInv(t)'
      /\ \A c \in Connections : guard[c] \notin {t, NoTask} => guard'[c] = guard[c]
  BY LeaveTask
<1>2. Shape'
  BY <1>1 DEF DatabaseInv, Shape
<1>3. RowsOK(t)'
  BY <1>1, LeaveRows
<1>4. \A u \in Tasks \ {t} : TaskInv(u)' /\ RowsOK(u)'
  BY <1>1, OthersInv
<1> QED
  BY <1>1, <1>2, <1>3, <1>4 DEF DatabaseInv

\* A call that is left with no row moved.
LEMMA LeaveQuietly ==
    ASSUME DatabaseInv, NEW t \in Tasks, Running(t), NEW next, GoesOn(t, next),
           NEW how \in {"ok", "error"}, Leave(t, next, how), FileOK',
           tx' \in [Connections -> Transactions], \A u \in Tasks : RowsKept(u),
           Halfway(t) => Written(t) = {},
           kind[t] # "sweep" /\ (next # <<>> \/ how = "ok") =>
               next = Tail(todo[t]) /\ \A s \in Names(Call(t)) : InFile(t, s)
    PROVE  DatabaseInv'
<1>1. \A s : (InFile(t, s)' <=> InFile(t, s)) /\ (InJournal(t, s)' <=> InJournal(t, s))
  BY DEF RowsKept
<1>2. \A c \in Calls : \A r, s \in Names(c) :
          (InFile(t, r)' <=> InFile(t, s)') /\ (InJournal(t, r)' <=> InJournal(t, s)')
  BY <1>1, TornFree
<1> QED
  BY <1>1, <1>2, LeaveInv

\* A call that commits.
LEMMA LeaveCommitting ==
    ASSUME DatabaseInv, NEW t \in Tasks, Running(t), stage[t] # "outside", ~Halfway(t),
           Committed(Conn(t)), NEW next, GoesOn(t, next),
           NEW how \in {"ok", "error"}, Leave(t, next, how),
           kind[t] # "sweep" /\ (next # <<>> \/ how = "ok") =>
               next = Tail(todo[t]) /\ Names(Call(t)) \subseteq Written(t)
    PROVE  DatabaseInv'
<1>1. /\ FileOK' /\ tx' \in [Connections -> Transactions]
      /\ \A u \in Tasks \ {t} : RowsKept(u) \/ RowsCommitted(u)
      /\ QuietFile \/ (tx[Conn(t)] = "writing" /\ CommittedAll)
      /\ tx[Conn(t)] # "writing" => QuietFile
  BY CommitFile
<1>2. \A s \in Written(t) :
          InFile(t, s) \/ (InJournal(t, s) /\ tx[Conn(t)] = "writing")
  BY TaskFacts DEF RowsOK, WrittenIsKept
<1>3. CASE tx[Conn(t)] # "writing"
  <2>1. \A u \in Tasks : RowsKept(u)
    BY <1>1, <1>3, QuietKeeps
  <2>2. kind[t] # "sweep" /\ (next # <<>> \/ how = "ok") =>
            next = Tail(todo[t]) /\ \A s \in Names(Call(t)) : InFile(t, s)
    BY <1>2, <1>3
  <2> QED
    BY <1>1, <2>1, <2>2, LeaveQuietly
<1>4. CASE tx[Conn(t)] = "writing" /\ CommittedAll
  <2>1. \A s : (InFile(t, s)' <=> InFile(t, s) \/ InJournal(t, s)) /\ ~InJournal(t, s)'
    BY <1>4 DEF CommittedAll
  <2>2. \A c \in Calls : \A r, s \in Names(c) :
            (InFile(t, r)' <=> InFile(t, s)') /\ (InJournal(t, r)' <=> InJournal(t, s)')
    BY <2>1, TornFree
  <2>3. kind[t] # "sweep" /\ (next # <<>> \/ how = "ok") =>
            next = Tail(todo[t]) /\ \A s \in Names(Call(t)) : InFile(t, s)'
    BY <1>2, <2>1
  <2> QED
    BY <1>1, <2>1, <2>2, <2>3, LeaveInv
<1>5. CASE QuietFile /\ tx[Conn(t)] = "writing"
  \* Excluded: such a commit ends the transaction.
  <2>1. tx'[Conn(t)] = "none"
    BY <1>5, RunningFacts DEF Committed
  <2> QED
    BY <1>5, <2>1, RunningFacts DEF QuietFile
<1> QED
  BY <1>1, <1>3, <1>4, <1>5

-----------------------------------------------------------------------------
\* The steps.

\* A call that queries, that is denied the write lock or that finds no row has written
\* nothing.
LEMMA NothingWritten ==
    ASSUME DatabaseInv, NEW t \in Tasks, Query(t) \/ ExecuteFails(t) \/ ExecuteMiss(t)
    PROVE  Written(t) = {}
<1>1. Running(t) /\ stage[t] = "inside"
  BY DEF Query, ExecuteFails, ExecuteMiss, Executing
<1>2. CASE Query(t) /\ Statements(Call(t)) = <<>>
  BY <1>1, <1>2, RunningFacts, CallStatements DEF Written
<1>3. CASE Query(t) /\ Call(t) = "purge" /\ left[t] # <<>>
  <2>1. left[t] \in Seq(AllNames) /\ Members(left[t]) \subseteq Names("purge")
    BY <1>1, <1>3, TaskFacts DEF TaskOK
  <2>2. Head(left[t]) \in Members(left[t])
    BY <1>3, <2>1, HeadAndTail
  <2>3. Names("purge") = {"purge"}
    BY OneMember DEF Names, Statements
  <2> QED
    BY <1>3, <2>1, <2>2, <2>3 DEF Written
<1>4. CASE ExecuteFails(t)
  <2>1. Halfway(t) /\ ~Writable(Conn(t))
    BY <1>1, <1>4 DEF ExecuteFails, Executing, TimesOut, Halfway
  <2>2. ASSUME NEW s \in Written(t)
        PROVE  FALSE
    <3>1. tx[Conn(t)] = "writing" /\ Conn(t) \in Connections /\ OneWriter
      BY <1>1, <2>1, <2>2, HalfwayIsGuarded, RunningFacts DEF DatabaseInv, FileOK
    <3> QED
      BY <2>1, <3>1 DEF Writable, LockedElsewhere, OneWriter
  <2> QED
    BY <2>2
<1>5. CASE ExecuteMiss(t)
  BY <1>1, <1>5 DEF ExecuteMiss, Written, Names
<1> QED
  BY <1>2, <1>3, <1>4, <1>5 DEF Query

LEMMA QueryInv ==
    ASSUME DatabaseInv, NEW t \in Tasks, Query(t)
    PROVE  DatabaseInv'
<1>1. /\ Running(t) /\ stage[t] = "inside"
      /\ Statements(Call(t)) = <<>> \/ (Call(t) = "purge" /\ left[t] # <<>>)
      /\ Selected(Conn(t)) /\ UNCHANGED <<journal, committed>>
      /\ Leave(t, Tail(todo[t]), "ok")
  BY DEF Query
<1>2. FileOK' /\ tx' \in [Connections -> Transactions] /\ \A u \in Tasks : RowsKept(u)
  BY <1>1, RunningFacts, SelectedIsQuiet, QuietKeeps DEF QuietFile
<1>3. CASE Statements(Call(t)) = <<>>
  <2>1. Names(Call(t)) = {}
    BY <1>1, <1>3, RunningFacts, CallStatements
  <2>2. Written(t) = {}
    BY NothingWritten
  <2> QED
    BY <1>1, <1>2, <2>1, <2>2, TailIsNext, LeaveQuietly
<1>4. CASE Call(t) = "purge" /\ left[t] # <<>>
  <2>1. kind[t] = "sweep"
    <3>1. kind[t] \in Kinds /\ "purge" \in Members(Script[kind[t]])
      BY <1>1, <1>4, RunningFacts DEF CallsOf
    <3> QED
      BY <3>1, PurgeIsOfSweep
  <2>2. Written(t) = {}
    BY NothingWritten
  <2> QED
    BY <1>1, <1>2, <2>1, <2>2, TailIsNext, LeaveQuietly
<1> QED
  BY <1>1, <1>3, <1>4

LEMMA ExecuteFailsInv ==
    ASSUME DatabaseInv, NEW t \in Tasks, ExecuteFails(t)
    PROVE  DatabaseInv'
<1> DEFINE next == IF kind[t] = "sweep" /\ Call(t) = "log" THEN Tail(todo[t]) ELSE <<>>
<1>1. /\ Running(t) /\ stage[t] = "inside" /\ left[t] # <<>>
      /\ ~Writable(Conn(t)) /\ Failed(Conn(t)) /\ UNCHANGED <<journal, committed>>
      /\ Leave(t, next, "error")
  BY DEF ExecuteFails, Executing, TimesOut
<1>2. FileOK' /\ tx' \in [Connections -> Transactions] /\ \A u \in Tasks : RowsKept(u)
  BY <1>1, RunningFacts, SelectedIsQuiet, QuietKeeps DEF QuietFile
<1>3. Written(t) = {}
  BY NothingWritten
<1>4. GoesOn(t, next) /\ (kind[t] # "sweep" => next = <<>>)
  BY <1>1, TailIsNext
<1> HIDE DEF next
<1> QED
  BY <1>1, <1>2, <1>3, <1>4, LeaveQuietly

LEMMA CommitInv ==
    ASSUME DatabaseInv, NEW t \in Tasks, Commit(t)
    PROVE  DatabaseInv'
<1>1. /\ Running(t) /\ stage[t] = "inside" /\ left[t] = <<>> /\ Committed(Conn(t))
      /\ Leave(t, Tail(todo[t]), "ok")
  BY DEF Commit, Executed
<1>2. ~Halfway(t) /\ Names(Call(t)) \subseteq Written(t)
  BY <1>1, Empty DEF Halfway, Written
<1> QED
  BY <1>1, <1>2, TailIsNext, LeaveCommitting

LEMMA MissGoesOn ==
    ASSUME DatabaseInv, NEW t \in Tasks, CommitMiss(t)
    PROVE  GoesOn(t, IF kind[t] = "sweep" THEN <<"purge">> ELSE <<>>)
<1>1. Running(t) /\ stage[t] = "missed"
  BY DEF CommitMiss
<1>2. CASE kind[t] = "sweep"
  <2>1. "purge" \in Later(t)
    BY <1>1, <1>2, RunningFacts, TaskFacts DEF TaskOK, Conditional
  <2>2. <<"purge">> \in Seq(Calls) /\ <<"purge">>[Len(<<"purge">>)] = "purge"
    BY DEF Calls, StoreCalls
  <2> QED
    BY <1>2, <2>1, <2>2, OneMember DEF GoesOn
<1>3. CASE kind[t] # "sweep"
  BY <1>1, <1>3, TailIsNext
<1> QED
  BY <1>2, <1>3

LEMMA CommitMissInv ==
    ASSUME DatabaseInv, NEW t \in Tasks, CommitMiss(t)
    PROVE  DatabaseInv'
<1> DEFINE next == IF kind[t] = "sweep" THEN <<"purge">> ELSE <<>>
<1>1. /\ Running(t) /\ stage[t] = "missed" /\ Committed(Conn(t))
      /\ Leave(t, next, "error")
  BY DEF CommitMiss
<1>2. ~Halfway(t)
  BY <1>1 DEF Halfway
<1>3. GoesOn(t, next)
  BY MissGoesOn
<1>4. kind[t] # "sweep" => next = <<>>
  OBVIOUS
<1> HIDE DEF next
<1> QED
  BY <1>1, <1>2, <1>3, <1>4, LeaveCommitting
LEMMA BeginInv ==
    ASSUME DatabaseInv, NEW t \in Tasks, NEW k \in Kinds, Begin(t, k)
    PROVE  DatabaseInv'
<1>1. /\ kind[t] = "none" /\ kind' = [kind EXCEPT ![t] = k]
      /\ todo' = [todo EXCEPT ![t] = Script[k]]
      /\ UNCHANGED <<stage, left, answer, guard, tx, journal, committed, crashes>>
  BY DEF Begin
<1>2. Shape /\ GuardOK /\ FileOK /\ k # "none"
  BY KindsAre DEF DatabaseInv
<1>3. TaskOK(t) /\ LeftOK(t) /\ RowsAreWritten(t) /\ kind[t] = "none"
  BY <1>1, TaskFacts DEF RowsOK
<1>4. ~Running(t) /\ stage[t] = "outside" /\ left[t] = <<>> /\ answer[t] = "none"
  BY <1>2, <1>3 DEF TaskOK, LeftOK, Running, Shape
<1>5. Shape'
  BY <1>1, <1>2, ScriptCalls DEF Shape
<1>6. \A u \in Tasks \ {t} : Same(u)
  BY <1>1, <1>2 DEF Shape, Same
<1>7. QuietFile
  BY <1>1, <1>2 DEF QuietFile, Shape
<1>8. FileOK' /\ \A u \in Tasks : RowsKept(u)
  BY <1>7, QuietKeeps
<1>9. GuardOK'
  <2> SUFFICES ASSUME NEW c \in Connections, guard[c] # NoTask
               PROVE  (Running(guard[c]) /\ stage[guard[c]] # "outside" /\ Conn(guard[c]) = c)'
    BY <1>1 DEF GuardOK
  <2> DEFINE u == guard[c]
  <2>1. u \in Tasks \ {t} /\ Running(u) /\ stage[u] # "outside" /\ Conn(u) = c
    BY <1>2, <1>4 DEF GuardOK, Shape
  <2>2. Same(u) /\ guard' = guard
    BY <1>1, <1>6, <2>1
  <2>3. todo'[u] = todo[u] /\ stage'[u] = stage[u]
    BY <2>2 DEF Same
  <2> QED
    BY <2>1, <2>2, <2>3 DEF Running, Conn, Call
<1>10. kind'[t] = k /\ todo'[t] = Script[k] /\ stage'[t] = "outside" /\ left'[t] = <<>>
       /\ answer'[t] = "none"
  BY <1>1, <1>2, <1>4 DEF Shape
<1>11. TaskInv(t)'
  <2>1. CallsOf(t)' = Members(Script[k])
    BY <1>10 DEF CallsOf
  <2>2. TaskOK(t)'
    BY <1>2, <1>10, <2>1, ScriptCalls DEF TaskOK, Running
  <2> QED
    BY <1>10, <2>2 DEF TaskInv, LeftOK, HasLock
<1>12. RowsOK(t)'
  <2>1. \A s : ~InFile(t, s)' /\ ~InJournal(t, s)'
    BY <1>3, <1>8 DEF RowsKept, RowsAreWritten
  <2>2. Written(t)' = {} /\ CallsOf(t)' = Members(todo'[t])
    BY <1>10 DEF Written, CallsOf
  <2> QED
    BY <1>10, <2>1, <2>2
    DEF RowsOK, RowsAreWritten, WrittenIsKept, RowsTogether, PastIsCommitted, OkIsCommitted
<1>13. \A c \in Connections : guard[c] \notin {t, NoTask} => guard'[c] = guard[c]
  BY <1>1
<1>14. \A u \in Tasks \ {t} : TaskInv(u)' /\ RowsOK(u)'
  BY <1>6, <1>8, <1>13, OthersInv
<1> QED
  BY <1>5, <1>8, <1>9, <1>11, <1>12, <1>14 DEF DatabaseInv

\* A step of a task inside its call: it stays in the call.
LEMMA InsideInv ==
    ASSUME DatabaseInv, NEW t \in Tasks, Running(t), UNCHANGED <<kind, todo, answer, crashes>>,
           NEW st \in {"inside", "missed"}, stage' = [stage EXCEPT ![t] = st],
           NEW q \in Seq(AllNames), left' = [left EXCEPT ![t] = q], Len(q) <= 2,
           q # <<>> => st = "inside",
           st = "missed" => Call(t) \in Conditional,
           st = "inside" => Members(q) \subseteq Names(Call(t)) /\ Distinct(q),
           FileOK', tx' \in [Connections -> Transactions],
           \A u \in Tasks \ {t} : RowsKept(u),
           guard' \in [Connections -> Tasks \union {NoTask}],
           \A c \in Connections : c # Conn(t) => guard'[c] = guard[c],
           guard'[Conn(t)] # NoTask =>
               guard'[Conn(t)] = t \/ guard'[Conn(t)] = guard[Conn(t)],
           guard[Conn(t)] \notin {t, NoTask} => guard'[Conn(t)] = guard[Conn(t)],
           Guarded(Call(t)) => guard'[Conn(t)] = t,
           RowsOK(t)'
    PROVE  DatabaseInv'
<1>1. Shape /\ GuardOK /\ TaskOK(t) /\ Conn(t) \in Connections
  BY TaskFacts, RunningFacts DEF DatabaseInv
<1>2. Shape'
  BY <1>1 DEF Shape
<1>3. \A u \in Tasks \ {t} : Same(u)
  BY <1>1 DEF Shape, Same
<1>4. kind'[t] = kind[t] /\ todo'[t] = todo[t] /\ stage'[t] = st /\ left'[t] = q
      /\ answer'[t] = answer[t]
  BY <1>1 DEF Shape
<1>5. Running(t)' /\ Call(t)' = Call(t) /\ Conn(t)' = Conn(t) /\ CallsOf(t)' = CallsOf(t)
  BY <1>4 DEF Running, Call, Conn, CallsOf
<1>6. TaskInv(t)'
  <2>1. TaskOK(t)'
    BY <1>1, <1>4, <1>5 DEF TaskOK, Running
  <2>2. LeftOK(t)' /\ HasLock(t)'
    BY <1>4, <1>5 DEF LeftOK, HasLock
  <2> QED
    BY <2>1, <2>2 DEF TaskInv
<1>7. GuardOK'
  <2> SUFFICES ASSUME NEW c \in Connections, guard'[c] # NoTask
               PROVE  (Running(guard[c]) /\ stage[guard[c]] # "outside" /\ Conn(guard[c]) = c)'
    BY DEF GuardOK
  <2>1. CASE guard'[c] = t
    <3>1. c = Conn(t)
      BY <1>1, <2>1, DatabaseAssumption DEF GuardOK
    <3> QED
      BY <1>4, <1>5, <2>1, <3>1
  <2>2. CASE guard'[c] # t
    <3> DEFINE u == guard[c]
    <3>1. guard'[c] = u
      BY <2>2
    <3>2. u \in Tasks \ {t} /\ Running(u) /\ stage[u] # "outside" /\ Conn(u) = c
      BY <1>1, <2>2, <3>1 DEF GuardOK, Shape
    <3>3. todo'[u] = todo[u] /\ stage'[u] = stage[u]
      BY <1>3, <3>2 DEF Same
    <3> QED
      BY <3>1, <3>2, <3>3 DEF Running, Conn, Call
  <2> QED
    BY <2>1, <2>2
<1>8. \A c \in Connections : guard[c] \notin {t, NoTask} => guard'[c] = guard[c]
  OBVIOUS
<1>9. \A u \in Tasks \ {t} : TaskInv(u)' /\ RowsOK(u)'
  BY <1>3, <1>8, OthersInv
<1> QED
  BY <1>2, <1>6, <1>7, <1>9 DEF DatabaseInv

LEMMA EnterInv ==
    ASSUME DatabaseInv, NEW t \in Tasks, Enter(t)
    PROVE  DatabaseInv'
<1>1. /\ Running(t) /\ stage[t] = "outside"
      /\ IF Guarded(Call(t))
         THEN guard[Conn(t)] = NoTask /\ guard' = [guard EXCEPT ![Conn(t)] = t]
         ELSE UNCHANGED guard
      /\ stage' = [stage EXCEPT ![t] = "inside"]
      /\ left' = [left EXCEPT ![t] = Statements(Call(t))]
      /\ Selected(Conn(t)) \/ UNCHANGED tx
      /\ UNCHANGED <<kind, todo, answer, journal, committed, crashes>>
  BY DEF Enter
<1>2. Shape /\ Conn(t) \in Connections /\ Call(t) \in Calls
  BY <1>1, RunningFacts DEF DatabaseInv
<1>3. QuietFile
  BY <1>1, <1>2, SelectedIsQuiet
<1>4. FileOK' /\ tx' \in [Connections -> Transactions] /\ \A u \in Tasks : RowsKept(u)
  BY <1>3, QuietKeeps DEF QuietFile
<1>5. /\ guard' \in [Connections -> Tasks \union {NoTask}]
      /\ \A c \in Connections : c # Conn(t) => guard'[c] = guard[c]
      /\ guard'[Conn(t)] # NoTask =>
             guard'[Conn(t)] = t \/ guard'[Conn(t)] = guard[Conn(t)]
      /\ guard[Conn(t)] \notin {t, NoTask} => guard'[Conn(t)] = guard[Conn(t)]
      /\ Guarded(Call(t)) => guard'[Conn(t)] = t
  BY <1>1, <1>2 DEF Shape
<1>6. RowsOK(t)'
  <2>1. kind'[t] = kind[t] /\ todo'[t] = todo[t] /\ stage'[t] = "inside"
        /\ left'[t] = Statements(Call(t)) /\ answer'[t] = answer[t]
    BY <1>1, <1>2 DEF Shape
  <2>2. Running(t)' /\ Call(t)' = Call(t) /\ CallsOf(t)' = CallsOf(t) /\ Later(t)' = Later(t)
    BY <1>1, <2>1 DEF Running, Call, CallsOf, Later
  <2>3. Written(t)' = {} /\ Written(t) = {}
    BY <1>1, <2>1, <2>2 DEF Written, Names
  <2>4. \A s : (InFile(t, s)' <=> InFile(t, s)) /\ (InJournal(t, s)' <=> InJournal(t, s))
    BY <1>4 DEF RowsKept
  <2>5. RowsAreWritten(t) /\ PastIsCommitted(t) /\ OkIsCommitted(t)
    BY TaskFacts DEF RowsOK
  <2>6. RowsAreWritten(t)'
    BY <1>1, <2>1, <2>2, <2>3, <2>4, <2>5 DEF RowsAreWritten
  <2>7. WrittenIsKept(t)'
    BY <2>3 DEF WrittenIsKept
  <2>8. RowsTogether(t)'
    BY <2>3, <2>4, TornFree DEF RowsTogether
  <2>9. PastIsCommitted(t)' /\ OkIsCommitted(t)'
    BY <1>1, <2>1, <2>2, <2>4, <2>5 DEF PastIsCommitted, OkIsCommitted
  <2> QED
    BY <2>6, <2>7, <2>8, <2>9 DEF RowsOK
<1>7. Statements(Call(t)) \in Seq(AllNames) /\ Len(Statements(Call(t))) <= 2
      /\ Distinct(Statements(Call(t))) /\ Members(Statements(Call(t))) \subseteq Names(Call(t))
  BY <1>2, CallStatements DEF Names
<1> QED
  BY <1>1, <1>4, <1>5, <1>6, <1>7, InsideInv

\* The row a statement writes was not there, and is the present call's.
LEMMA ExecuteInv ==
    ASSUME DatabaseInv, NEW t \in Tasks, Execute(t)
    PROVE  DatabaseInv'
<1> DEFINE row == Head(left[t])
           q == Tail(left[t])
<1>1. /\ Running(t) /\ stage[t] = "inside" /\ left[t] # <<>> /\ Writable(Conn(t))
      /\ Wrote(Conn(t), {<<t, row>>})
      /\ left' = [left EXCEPT ![t] = Tail(@)]
      /\ UNCHANGED <<kind, todo, stage, answer, guard, crashes>>
  BY DEF Execute, Executing
<1>2. /\ Shape /\ TaskOK(t) /\ LeftOK(t) /\ HasLock(t) /\ Conn(t) \in Connections
      /\ Call(t) \in Calls /\ left[t] \in Seq(AllNames)
      /\ RowsAreWritten(t) /\ WrittenIsKept(t) /\ RowsTogether(t)
      /\ PastIsCommitted(t) /\ OkIsCommitted(t)
  BY <1>1, RunningFacts, TaskFacts DEF DatabaseInv, RowsOK
<1>3. Members(left[t]) \subseteq Names(Call(t)) /\ Distinct(left[t])
  BY <1>1, <1>2 DEF TaskOK
<1>4. /\ q \in Seq(AllNames) /\ Len(q) <= 2 /\ Distinct(q)
      /\ Members(left[t]) = {row} \union Members(q) /\ row \notin Members(q)
  <2>1. /\ q \in Seq(AllNames) /\ Distinct(q)
        /\ Members(left[t]) = {row} \union Members(q) /\ row \notin Members(q)
        /\ Len(q) = Len(left[t]) - 1 /\ Len(left[t]) \in Nat
    BY <1>1, <1>2, <1>3, HeadAndTail
  <2>2. Len(left[t]) <= 2
    BY <1>2 DEF LeftOK
  <2> QED
    BY <2>1, <2>2
<1>5. row \in Names(Call(t)) /\ row \notin Written(t) /\ Owner(row) = Call(t)
  BY <1>1, <1>2, <1>3, <1>4, CallStatements DEF Written
<1>6. ~InFile(t, row)
  BY <1>1, <1>2, <1>5 DEF RowsAreWritten
<1> HIDE DEF row, q
<1>7. /\ FileOK' /\ tx' \in [Connections -> Transactions]
      /\ tx' = [tx EXCEPT ![Conn(t)] = "writing"]
  <2>1. {<<t, row>>} \intersect committed = {}
    BY <1>6 DEF InFile
  <2> QED
    BY <1>1, <1>2, <2>1, WroteFile
<1>8. journal' = journal \union {<<t, row>>} /\ committed' = committed
  BY <1>1 DEF Wrote
<1>9. \A s : (InFile(t, s)' <=> InFile(t, s)) /\ (InJournal(t, s)' <=> InJournal(t, s) \/ s = row)
  BY <1>8 DEF InFile, InJournal
<1>10. \A u \in Tasks \ {t} : RowsKept(u)
  <2> TAKE u \in Tasks \ {t}
  <2>1. \A s : (InFile(u, s)' <=> InFile(u, s)) /\ (InJournal(u, s)' <=> InJournal(u, s))
    BY <1>8 DEF InFile, InJournal
  <2>2. Running(u) /\ tx[Conn(u)] = "writing" => tx'[Conn(u)] = "writing"
    BY <1>2, <1>7, RunningFacts DEF Shape
  <2> QED
    BY <2>1, <2>2 DEF RowsKept
<1>11. RowsOK(t)'
  <2>1. kind'[t] = kind[t] /\ todo'[t] = todo[t] /\ stage'[t] = "inside" /\ left'[t] = q
        /\ answer'[t] = answer[t] /\ tx'[Conn(t)] = "writing"
    BY <1>1, <1>2, <1>7 DEF Shape, q
  <2>2. Running(t)' /\ Call(t)' = Call(t) /\ CallsOf(t)' = CallsOf(t) /\ Later(t)' = Later(t)
        /\ Conn(t)' = Conn(t)
    BY <1>1, <2>1 DEF Running, Call, CallsOf, Later, Conn
  <2>3. Written(t)' = Written(t) \union {row}
    <3>1. Written(t) = Names(Call(t)) \ Members(left[t])
      BY <1>1 DEF Written
    <3>2. Written(t)' = Names(Call(t)) \ Members(q)
      BY <2>1, <2>2 DEF Written
    <3> QED
      BY <1>4, <1>5, <3>1, <3>2
  <2>4. RowsAreWritten(t)'
    <3> SUFFICES ASSUME NEW s, InFile(t, s) \/ InJournal(t, s) \/ s = row
                 PROVE  /\ kind[t] # "none" /\ Owner(s) \in CallsOf(t)
                        /\ Owner(s) \notin Later(t)
                        /\ Owner(s) = Call(t) => s \in Written(t)'
      BY <1>9, <2>1, <2>2 DEF RowsAreWritten
    <3>1. CASE s = row
      BY <1>1, <1>5, <2>3, <3>1, RunningFacts, KindsAre
    <3>2. CASE s # row
      BY <1>1, <1>2, <2>3, <3>2 DEF RowsAreWritten
    <3> QED
      BY <3>1, <3>2
  <2>5. WrittenIsKept(t)'
    <3> SUFFICES ASSUME NEW s \in Written(t) \union {row}
                 PROVE  /\ InFile(t, s) \/ InJournal(t, s) \/ s = row
                        /\ Halfway(t)' => ~InFile(t, s)
      BY <1>9, <2>1, <2>2, <2>3 DEF WrittenIsKept
    <3>1. Halfway(t)
      BY <1>1 DEF Halfway
    <3>2. CASE s = row
      BY <1>6, <3>2
    <3>3. CASE s \in Written(t)
      BY <1>1, <1>2, <3>1, <3>3 DEF WrittenIsKept
    <3> QED
      BY <3>2, <3>3
  <2>6. RowsTogether(t)'
    <3> SUFFICES ASSUME NEW c \in Calls, NEW r \in Names(c), NEW s \in Names(c)
                 PROVE  /\ InFile(t, r) <=> InFile(t, s)
                        /\ (Halfway(t)' /\ c = Call(t)) \/ (InJournal(t, r)' <=> InJournal(t, s)')
      BY <1>9, <2>2 DEF RowsTogether
    <3>1. InFile(t, r) <=> InFile(t, s)
      BY <1>2 DEF RowsTogether
    <3>2. CASE c # Call(t)
      <4>1. r # row /\ s # row
        BY <1>5, <3>2, CallStatements
      <4> QED
        BY <1>2, <1>9, <3>1, <3>2, <4>1 DEF RowsTogether
    <3>3. CASE c = Call(t) /\ ~Halfway(t)'
      \* The call has written all its rows: none is in the file, as one was not.
      <4>1. q = <<>>
        BY <2>1, <2>2, <3>3 DEF Halfway
      <4>2. Written(t) \union {row} = Names(c)
        BY <1>1, <1>3, <1>4, <1>5, <3>3, <4>1, Empty DEF Written
      <4>3. \A x \in Written(t) : InFile(t, x) \/ InJournal(t, x)
        BY <1>1, <1>2 DEF WrittenIsKept
      <4>4. \A x \in Names(c) : ~InFile(t, x)
        BY <1>2, <1>5, <1>6, <3>3 DEF RowsTogether
      <4> QED
        BY <1>9, <3>1, <4>2, <4>3, <4>4
    <3> QED
      BY <3>1, <3>2, <3>3
  <2>7. PastIsCommitted(t)' /\ OkIsCommitted(t)'
    BY <1>1, <1>2, <1>9, <2>1, <2>2 DEF PastIsCommitted, OkIsCommitted
  <2> QED
    BY <2>4, <2>5, <2>6, <2>7 DEF RowsOK
<1>12. stage' = [stage EXCEPT ![t] = "inside"] /\ left' = [left EXCEPT ![t] = q]
  BY <1>1, <1>2 DEF Shape, q
<1>13. /\ guard' \in [Connections -> Tasks \union {NoTask}] /\ guard' = guard
       /\ Guarded(Call(t)) => guard'[Conn(t)] = t
  BY <1>1, <1>2 DEF Shape, HasLock
<1>14. Members(q) \subseteq Names(Call(t))
  BY <1>3, <1>4
<1> QED
  BY <1>1, <1>4, <1>7, <1>10, <1>11, <1>12, <1>13, <1>14, InsideInv
LEMMA ExecuteMissInv ==
    ASSUME DatabaseInv, NEW t \in Tasks, ExecuteMiss(t)
    PROVE  DatabaseInv'
<1>1. /\ Running(t) /\ stage[t] = "inside" /\ left[t] = Statements(Call(t))
      /\ Call(t) \in Conditional /\ Writable(Conn(t)) /\ Wrote(Conn(t), {})
      /\ IF Call(t) = "record_issued_and_resolve"
         THEN Leave(t, <<>>, "error")
         ELSE /\ stage' = [stage EXCEPT ![t] = "missed"]
              /\ left' = [left EXCEPT ![t] = <<>>]
              /\ UNCHANGED <<kind, todo, answer, guard, crashes>>
  BY DEF ExecuteMiss, Executing
<1>2. Shape /\ HasLock(t) /\ Conn(t) \in Connections
  BY <1>1, RunningFacts, TaskFacts DEF DatabaseInv
<1>3. /\ FileOK' /\ tx' \in [Connections -> Transactions]
      /\ tx' = [tx EXCEPT ![Conn(t)] = "writing"]
  BY <1>1, <1>2, WroteFile
<1>4. journal' = journal /\ committed' = committed
  BY <1>1 DEF Wrote
<1>5. \A u \in Tasks : RowsKept(u)
  <2> TAKE u \in Tasks
  <2>1. Running(u) /\ tx[Conn(u)] = "writing" => tx'[Conn(u)] = "writing"
    BY <1>2, <1>3, RunningFacts DEF Shape
  <2> QED
    BY <1>4, <2>1 DEF RowsKept, InFile, InJournal
<1>6. Written(t) = {}
  BY NothingWritten
<1>7. CASE Call(t) = "record_issued_and_resolve"
  <2>1. Leave(t, <<>>, "error") /\ GoesOn(t, <<>>)
    BY <1>1, <1>7, TailIsNext
  <2> QED
    BY <1>1, <1>3, <1>5, <1>6, <2>1, LeaveQuietly
<1>8. CASE Call(t) # "record_issued_and_resolve"
  <2>1. /\ stage' = [stage EXCEPT ![t] = "missed"]
        /\ left' = [left EXCEPT ![t] = <<>>]
        /\ UNCHANGED <<kind, todo, answer, guard, crashes>>
    BY <1>1, <1>8
  <2>2. kind'[t] = kind[t] /\ todo'[t] = todo[t] /\ stage'[t] = "missed"
        /\ answer'[t] = answer[t]
    BY <1>2, <2>1 DEF Shape
  <2>3. Running(t)' /\ Call(t)' = Call(t) /\ CallsOf(t)' = CallsOf(t) /\ Later(t)' = Later(t)
        /\ Written(t)' = {}
    BY <1>1, <2>2 DEF Running, Call, CallsOf, Later, Written
  <2>4. \A s : (InFile(t, s)' <=> InFile(t, s)) /\ (InJournal(t, s)' <=> InJournal(t, s))
    BY <1>5 DEF RowsKept
  <2>5. RowsAreWritten(t) /\ PastIsCommitted(t) /\ OkIsCommitted(t)
    BY TaskFacts DEF RowsOK
  <2>6. RowsAreWritten(t)'
    BY <1>1, <1>6, <2>2, <2>3, <2>4, <2>5 DEF RowsAreWritten
  <2>7. WrittenIsKept(t)'
    BY <2>3 DEF WrittenIsKept
  <2>8. RowsTogether(t)'
    BY <1>6, <2>4, TornFree DEF RowsTogether
  <2>9. PastIsCommitted(t)' /\ OkIsCommitted(t)'
    BY <1>1, <2>2, <2>3, <2>4, <2>5 DEF PastIsCommitted, OkIsCommitted
  <2>10. RowsOK(t)'
    BY <2>6, <2>7, <2>8, <2>9 DEF RowsOK
  <2>11. <<>> \in Seq(AllNames) /\ Len(<<>>) <= 2
    OBVIOUS
  <2>12. /\ guard' \in [Connections -> Tasks \union {NoTask}] /\ guard' = guard
         /\ Guarded(Call(t)) => guard'[Conn(t)] = t
    BY <1>1, <1>2, <2>1 DEF Shape, HasLock
  <2> QED
    BY <1>1, <1>3, <1>5, <2>1, <2>10, <2>11, <2>12, InsideInv
<1> QED
  BY <1>7, <1>8

\* A crash ends the tasks of a process and the transaction of its connections.
LEMMA CrashInv ==
    ASSUME DatabaseInv, NEW p \in {"server", "mcp"}, Crash(p)
    PROVE  DatabaseInv'
<1>1. /\ crashes < MaxCrashes /\ crashes' = crashes + 1
      /\ todo' = [t \in Tasks |-> IF Process(kind[t]) = p THEN <<>> ELSE todo[t]]
      /\ stage' = [t \in Tasks |-> IF Process(kind[t]) = p THEN "outside" ELSE stage[t]]
      /\ left' = [t \in Tasks |-> IF Process(kind[t]) = p THEN <<>> ELSE left[t]]
      /\ guard' = [c \in Connections |-> IF c \in ConnectionsOf(p) THEN NoTask ELSE guard[c]]
      /\ tx' = [c \in Connections |-> IF c \in ConnectionsOf(p) THEN "none" ELSE tx[c]]
      /\ journal' = IF \E c \in ConnectionsOf(p) : tx[c] = "writing" THEN {} ELSE journal
      /\ UNCHANGED <<kind, answer, committed>>
  BY DEF Crash
<1>2. Shape /\ GuardOK /\ FileOK /\ ConnectionsOf(p) \subseteq Connections
  BY ProcessConnections DEF DatabaseInv
<1>3. Shape'
  <2>1. crashes' \in 0..MaxCrashes
    BY <1>1, <1>2, DatabaseAssumption DEF Shape
  <2>2. todo' \in [Tasks -> Seq(Calls)] /\ left' \in [Tasks -> Seq(AllNames)]
    <3>1. <<>> \in Seq(Calls) /\ <<>> \in Seq(AllNames)
      OBVIOUS
    <3> QED
      BY <1>1, <1>2, <3>1 DEF Shape
  <2>3. /\ stage' \in [Tasks -> {"outside", "inside", "missed"}]
        /\ guard' \in [Connections -> Tasks \union {NoTask}]
    BY <1>1, <1>2 DEF Shape
  <2>4. tx' \in [Connections -> Transactions]
    BY <1>1, <1>2 DEF Shape, Transactions
  <2> QED
    BY <1>1, <1>2, <2>1, <2>2, <2>3, <2>4 DEF Shape
<1>4. FileOK'
  <2>1. OneWriter'
    BY <1>1, <1>2 DEF FileOK, OneWriter
  <2>2. journal' # {} => \E c \in Connections : tx'[c] = "writing"
    BY <1>1, <1>2 DEF FileOK
  <2>3. journal' \intersect committed' = {}
    BY <1>1, <1>2 DEF FileOK
  <2> QED
    BY <2>1, <2>2, <2>3 DEF FileOK
<1>5. \A u \in Tasks : Process(kind[u]) # p => Same(u)
  BY <1>1 DEF Same
<1>6. \A u \in Tasks : Process(kind[u]) # p /\ Running(u) => Conn(u) \notin ConnectionsOf(p)
  BY RunningFacts, ProcessConnections DEF Process
<1>7. \A u \in Tasks : Process(kind[u]) = p /\ Running(u) => Conn(u) \in ConnectionsOf(p)
  BY RunningFacts
<1>8. GuardOK'
  <2> SUFFICES ASSUME NEW c \in Connections, guard'[c] # NoTask
               PROVE  (Running(guard[c]) /\ stage[guard[c]] # "outside" /\ Conn(guard[c]) = c)'
    BY DEF GuardOK
  <2> DEFINE u == guard[c]
  <2>1. guard'[c] = u /\ c \notin ConnectionsOf(p)
    BY <1>1
  <2>2. u \in Tasks /\ Running(u) /\ stage[u] # "outside" /\ Conn(u) = c
    BY <1>2, <2>1 DEF GuardOK, Shape
  <2>3. Same(u)
    BY <1>5, <1>7, <2>1, <2>2
  <2>4. todo'[u] = todo[u] /\ stage'[u] = stage[u]
    BY <2>3 DEF Same
  <2> QED
    BY <2>1, <2>2, <2>4 DEF Running, Conn, Call
<1>9. ASSUME NEW u \in Tasks, Process(kind[u]) # p
      PROVE  TaskInv(u)' /\ RowsOK(u)'
  <2>1. Same(u)
    BY <1>5, <1>9
  <2>2. TaskOK(u)' /\ LeftOK(u)'
    BY <2>1, TaskFacts, SameTask
  <2>3. HasLock(u)'
    <3> SUFFICES ASSUME Running(u), stage[u] # "outside", Guarded(Call(u))
                 PROVE  guard'[Conn(u)] = u
      BY <2>1, SameTask DEF HasLock, Same
    <3> QED
      BY <1>1, <1>6, <1>9, TaskFacts, RunningFacts DEF HasLock
  <2>4. Running(u) /\ tx[Conn(u)] = "writing" => tx'[Conn(u)] = "writing"
    BY <1>1, <1>6, <1>9, RunningFacts
  <2>5. CASE \E c \in ConnectionsOf(p) : tx[c] = "writing"
    <3>1. journal' = {} /\ committed' = committed
      BY <1>1, <2>5
    <3>2. Running(u) => tx[Conn(u)] # "writing"
      BY <1>2, <1>6, <1>9, <2>5, RunningFacts DEF FileOK, OneWriter
    <3>3. RowsLost(u)
      BY <3>1, <3>2 DEF RowsLost, InFile, InJournal
    <3> QED
      BY <2>1, <2>2, <2>3, <3>3, SameRows DEF TaskInv
  <2>6. CASE ~\E c \in ConnectionsOf(p) : tx[c] = "writing"
    <3>1. journal' = journal /\ committed' = committed
      BY <1>1, <2>6
    <3>2. RowsKept(u)
      BY <2>4, <3>1 DEF RowsKept, InFile, InJournal
    <3> QED
      BY <2>1, <2>2, <2>3, <3>2, SameRows DEF TaskInv
  <2> QED
    BY <2>5, <2>6
<1>10. ASSUME NEW u \in Tasks, Process(kind[u]) = p
       PROVE  TaskInv(u)' /\ RowsOK(u)'
  <2>1. /\ kind'[u] = kind[u] /\ todo'[u] = <<>> /\ stage'[u] = "outside"
        /\ left'[u] = <<>> /\ answer'[u] = answer[u]
    BY <1>1, <1>10
  <2>2. TaskOK(u) /\ RowsAreWritten(u) /\ RowsTogether(u) /\ OkIsCommitted(u)
    BY TaskFacts DEF RowsOK
  <2>3. ~Running(u)' /\ CallsOf(u)' = CallsOf(u) /\ Written(u)' = {}
    BY <2>1 DEF Running, CallsOf, Written
  <2>4. TaskOK(u)'
    BY <2>1, <2>2, <2>3, Empty DEF TaskOK
  <2>5. LeftOK(u)' /\ HasLock(u)'
    BY <2>1 DEF LeftOK, HasLock
  <2>6. \A s : (InFile(u, s)' <=> InFile(u, s)) /\ (InJournal(u, s)' => InJournal(u, s))
    BY <1>1 DEF InFile, InJournal
  <2>7. RowsAreWritten(u)'
    BY <2>1, <2>2, <2>3, <2>6 DEF RowsAreWritten
  <2>8. RowsTogether(u)'
    <3> SUFFICES ASSUME NEW c \in Calls, NEW r \in Names(c), NEW s \in Names(c)
                 PROVE  InJournal(u, r)' <=> InJournal(u, s)'
      BY <2>2, <2>6 DEF RowsTogether
    <3>1. CASE \E d \in ConnectionsOf(p) : tx[d] = "writing"
      BY <1>1, <3>1 DEF InJournal
    <3>2. CASE ~\E d \in ConnectionsOf(p) : tx[d] = "writing"
      <4>1. Halfway(u) => Written(u) = {}
        BY <1>7, <1>10, <3>2, HalfwayIsGuarded DEF Halfway
      <4>2. InJournal(u, r) <=> InJournal(u, s)
        BY <4>1, TornFree
      <4> QED
        BY <1>1, <3>2, <4>2 DEF InJournal
    <3> QED
      BY <3>1, <3>2
  <2>9. WrittenIsKept(u)' /\ PastIsCommitted(u)' /\ OkIsCommitted(u)'
    BY <2>1, <2>2, <2>3, <2>6 DEF WrittenIsKept, PastIsCommitted, OkIsCommitted
  <2> QED
    BY <2>4, <2>5, <2>7, <2>8, <2>9 DEF TaskInv, RowsOK
<1> QED
  BY <1>3, <1>4, <1>8, <1>9, <1>10 DEF DatabaseInv

-----------------------------------------------------------------------------
\* The theorems.

LEMMA DatabaseInitInv == Init => DatabaseInv
<1> SUFFICES ASSUME Init PROVE DatabaseInv
  OBVIOUS
<1>1. <<>> \in Seq(Calls) /\ <<>> \in Seq(AllNames) /\ Len(<<>>) <= 2
  OBVIOUS
<1>2. Shape /\ GuardOK /\ FileOK
  BY <1>1, DatabaseAssumption DEF Init, Shape, GuardOK, FileOK, OneWriter, Transactions
<1>3. ASSUME NEW t \in Tasks
      PROVE  TaskInv(t) /\ RowsOK(t)
  <2>1. /\ kind[t] = "none" /\ todo[t] = <<>> /\ stage[t] = "outside" /\ left[t] = <<>>
        /\ answer[t] = "none" /\ ~Running(t)
    BY DEF Init, Running
  <2>2. TaskInv(t)
    BY <1>1, <2>1 DEF TaskInv, TaskOK, LeftOK, HasLock
  <2>3. \A s : ~InFile(t, s) /\ ~InJournal(t, s)
    BY DEF Init, InFile, InJournal
  <2> QED
    BY <2>1, <2>2, <2>3
    DEF RowsOK, RowsAreWritten, WrittenIsKept, RowsTogether, PastIsCommitted, OkIsCommitted
<1> QED
  BY <1>2, <1>3 DEF DatabaseInv

LEMMA DatabaseUnchanged == DatabaseInv /\ UNCHANGED vars => DatabaseInv'
<1> SUFFICES ASSUME DatabaseInv, UNCHANGED vars PROVE DatabaseInv'
  OBVIOUS
<1>1. /\ UNCHANGED <<kind, todo, stage, left, answer, guard, tx, journal, committed, crashes>>
  BY DEF vars
<1>2. Shape' /\ FileOK'
  BY <1>1 DEF DatabaseInv, Shape, FileOK, OneWriter
<1>3. GuardOK'
  BY <1>1 DEF DatabaseInv, GuardOK, Running, Conn, Call
<1>4. ASSUME NEW u \in Tasks
      PROVE  TaskInv(u)' /\ RowsOK(u)'
  <2>1. Same(u) /\ RowsKept(u)
    BY <1>1 DEF Same, RowsKept, InFile, InJournal
  <2>2. TaskOK(u)' /\ LeftOK(u)' /\ RowsOK(u)'
    BY <2>1, TaskFacts, SameTask, SameRows
  <2>3. HasLock(u)'
    BY <1>1, <2>1, TaskFacts, SameTask DEF HasLock
  <2> QED
    BY <2>2, <2>3 DEF TaskInv
<1> QED
  BY <1>2, <1>3, <1>4 DEF DatabaseInv

LEMMA DatabaseStep == DatabaseInv /\ [Next]_vars => DatabaseInv'
  BY BeginInv, EnterInv, QueryInv, ExecuteInv, ExecuteMissInv, ExecuteFailsInv, CommitInv,
     CommitMissInv, CrashInv, DatabaseUnchanged DEF Next, Step, Done

\* The invariant the others rest on: one writer, its journal, and of each call what it has
\* written so far, through commits, timeouts and crashes.
THEOREM DatabaseInductive == Spec => []DatabaseInv
  BY DatabaseInitInv, DatabaseStep, PTL DEF Spec

\* A lock is held only inside a call of its connection, one connection at most writes,
\* and rows that are not committed are its.
THEOREM DatabaseTypeCorrect == Spec => []TypeOK
<1>1. DatabaseInv => TypeOK
  <2> SUFFICES ASSUME DatabaseInv PROVE TypeOK
    OBVIOUS
  <2>1. ASSUME NEW t \in Tasks, Running(t)
        PROVE  \E i \in DOMAIN Script[kind[t]] : Script[kind[t]][i] = Call(t)
    BY <2>1, RunningFacts DEF CallsOf, Members
  <2>2. \A t \in Tasks : Len(left[t]) <= 2 /\ (left[t] # <<>> => stage[t] = "inside")
    BY TaskFacts DEF LeftOK
  <2> QED
    BY <2>1, <2>2 DEF DatabaseInv, Shape, GuardOK, FileOK, OneWriter, TypeOK
<1> QED
  BY <1>1, DatabaseInductive, PTL

\* The rows of a call are all in the file or none is, whoever commits, times out or
\* crashes in between: no approval without its capsule, no history without its tools.
THEOREM CallsAreAtomic == Spec => []AllOrNothing
<1>1. DatabaseInv => AllOrNothing
  <2> SUFFICES ASSUME DatabaseInv, NEW t \in Tasks
               PROVE  /\ InFile(t, "approved") <=> InFile(t, "capsule")
                      /\ InFile(t, "history") <=> InFile(t, "tools")
    BY DEF AllOrNothing, InFile
  <2>1. Names("record_issued_and_resolve") = {"approved", "capsule"}
        /\ Names("persist") = {"history", "tools"}
    BY TwoMembers DEF Names, Statements
  <2>2. "record_issued_and_resolve" \in Calls /\ "persist" \in Calls
    BY DEF Calls, StoreCalls
  <2>3. RowsTogether(t)
    BY TaskFacts DEF RowsOK
  <2> QED
    BY <2>1, <2>2, <2>3 DEF RowsTogether
<1> QED
  BY <1>1, DatabaseInductive, PTL

\* A request that was answered with success has all its rows in the file, and they
\* stay there: no crash undoes what a client was told.
THEOREM AnswersAreDurable == Spec => []AnsweredIsCommitted
<1>1. DatabaseInv => AnsweredIsCommitted
  <2> SUFFICES ASSUME DatabaseInv, NEW t \in Tasks, answer[t] = "ok", kind[t] # "sweep",
                      NEW c \in CallsOf(t), NEW s \in Names(c)
               PROVE  <<t, s>> \in committed
    BY DEF AnsweredIsCommitted, Rows, RowsOf, CallsOf, Names, Members
  <2> QED
    BY TaskFacts DEF RowsOK, OkIsCommitted, InFile
<1> QED
  BY <1>1, DatabaseInductive, PTL
-----------------------------------------------------------------------------
\* The calls of a task, in their order, and the rows that wait for a commit.

IsSuffix(q, s) ==
    Len(q) <= Len(s) /\ \A i \in 1..Len(q) : q[i] = s[Len(s) - Len(q) + i]

\* Rows that are not committed are of present calls.
JournalIsOfCalls ==
    \A x \in journal : \E t \in Tasks, s \in AllNames :
        x = <<t, s>> /\ Running(t) /\ Owner(s) = Call(t)

OneMCP == \A t, u \in Tasks :
    kind[t] = "mcp" /\ kind[u] = "mcp" /\ Running(t) /\ Running(u) => t = u

\* A task has the last calls of its script to make, and no answer yet.
UnderWay(t) == Running(t) => answer[t] = "none" /\ IsSuffix(todo[t], Script[kind[t]])

CallsInv == JournalIsOfCalls /\ OneMCP /\ \A t \in Tasks : UnderWay(t)

LEMMA TailIsSuffix ==
    ASSUME NEW S, NEW q \in Seq(S), NEW s \in Seq(S), q # <<>>, IsSuffix(q, s)
    PROVE  IsSuffix(Tail(q), s)
<1>1. Len(q) \in Nat \ {0} /\ Len(s) \in Nat /\ Len(Tail(q)) = Len(q) - 1
      /\ \A i \in 1..(Len(q) - 1) : Tail(q)[i] = q[i + 1]
  OBVIOUS
<1>2. ASSUME NEW i \in 1..(Len(q) - 1)
      PROVE  Tail(q)[i] = s[Len(s) - (Len(q) - 1) + i]
  <2>1. i + 1 \in 1..Len(q) /\ Len(s) - Len(q) + (i + 1) = Len(s) - (Len(q) - 1) + i
    BY <1>1
  <2> QED
    BY <1>1, <2>1 DEF IsSuffix
<1> QED
  BY <1>1, <1>2 DEF IsSuffix

\* Where a proper suffix of a sequence begins.
LEMMA SuffixBegins ==
    ASSUME NEW S, NEW q \in Seq(S), NEW s \in Seq(S), q # <<>>, IsSuffix(q, s), Distinct(s)
    PROVE  /\ DOMAIN s \subseteq Nat
           /\ \E n \in DOMAIN s : /\ s[n] = Head(q)
                                 /\ \A j \in DOMAIN s : /\ j < n => s[j] \notin Members(q)
                                                        /\ j > n => s[j] \in Members(Tail(q))
<1> DEFINE n == Len(s) - Len(q) + 1
<1>1. /\ Len(s) \in Nat /\ Len(q) \in Nat \ {0}
      /\ DOMAIN s = 1..Len(s) /\ DOMAIN q = 1..Len(q)
      /\ DOMAIN Tail(q) = 1..(Len(q) - 1) /\ Head(q) = q[1]
      /\ \A i \in 1..(Len(q) - 1) : Tail(q)[i] = q[i + 1]
  OBVIOUS
<1>2. Len(q) <= Len(s) /\ \A i \in 1..Len(q) : q[i] = s[Len(s) - Len(q) + i]
  BY DEF IsSuffix
<1>3. n \in 1..Len(s) /\ s[n] = Head(q)
  <2>1. 1 \in 1..Len(q) /\ n \in 1..Len(s)
    BY <1>1, <1>2
  <2> QED
    BY <1>1, <1>2, <2>1
<1>4. ASSUME NEW j \in 1..Len(s), j < n, NEW i \in 1..Len(q)
      PROVE  q[i] # s[j]
  <2> DEFINE k == Len(s) - Len(q) + i
  <2>1. k \in 1..Len(s) /\ k # j
    BY <1>1, <1>2, <1>4
  <2>2. q[i] = s[k]
    BY <1>2
  <2> HIDE DEF k
  <2> QED
    BY <1>1, <2>1, <2>2 DEF Distinct
<1>5. ASSUME NEW j \in 1..Len(s), j > n
      PROVE  s[j] \in Members(Tail(q))
  <2>1. /\ j - n \in 1..(Len(q) - 1) /\ j - n + 1 \in 1..Len(q)
        /\ Len(s) - Len(q) + (j - n + 1) = j
    BY <1>1, <1>2, <1>5
  <2>2. Tail(q)[j - n] = s[j]
    BY <1>1, <1>2, <2>1
  <2> QED
    BY <1>1, <2>1, <2>2 DEF Members
<1>6. \A j \in 1..Len(s) : j < n => s[j] \notin Members(q)
  BY <1>1, <1>4 DEF Members
<1> HIDE DEF n
<1> QED
  BY <1>1, <1>3, <1>5, <1>6

\* A task that the step leaves in its call is under way as before.
SameCall(u) == kind'[u] = kind[u] /\ todo'[u] = todo[u] /\ answer'[u] = answer[u]

LEMMA OthersUnderWay ==
    ASSUME CallsInv, NEW u \in Tasks, SameCall(u)
    PROVE  UnderWay(u)'
  BY DEF CallsInv, UnderWay, SameCall, Running

\* A step that begins no task and writes no row keeps what waits in the journal, if the
\* calls it belongs to go on.
LEMMA JournalKept ==
    ASSUME CallsInv, journal' \subseteq journal,
           \A u \in Tasks : (\E s : InJournal(u, s)') => SameCall(u)
    PROVE  JournalIsOfCalls'
<1> SUFFICES ASSUME NEW x \in journal'
             PROVE  \E t \in Tasks, s \in AllNames : x = <<t, s>> /\ Running(t)' /\ Owner(s) = Call(t)'
  BY DEF JournalIsOfCalls
<1>1. PICK t \in Tasks, s \in AllNames : x = <<t, s>> /\ Running(t) /\ Owner(s) = Call(t)
  BY DEF CallsInv, JournalIsOfCalls
<1>2. SameCall(t)
  BY <1>1 DEF InJournal
<1> QED
  BY <1>1, <1>2 DEF SameCall, Running, Call

LEMMA OneMCPKept ==
    ASSUME CallsInv, \A u \in Tasks : kind'[u] = kind[u] /\ (Running(u)' => Running(u))
    PROVE  OneMCP'
  BY DEF CallsInv, OneMCP

\* A row of a call that waits for its commit: the call wrote it, and holds the write lock.
LEMMA WaitingRow ==
    ASSUME DatabaseInv, CallsInv, NEW t \in Tasks, NEW s, InJournal(t, s)
    PROVE  /\ Running(t) /\ Owner(s) = Call(t) /\ s \in Written(t)
           /\ ~InFile(t, s) /\ tx[Conn(t)] = "writing"
<1>1. Running(t) /\ Owner(s) = Call(t)
  BY DEF CallsInv, JournalIsOfCalls, InJournal
<1>2. ~InFile(t, s)
  BY DEF DatabaseInv, FileOK, InJournal, InFile
<1>3. RowsAreWritten(t) /\ WrittenIsKept(t)
  BY TaskFacts DEF RowsOK
<1>4. s \in Written(t)
  BY <1>1, <1>3 DEF RowsAreWritten
<1>5. tx[Conn(t)] = "writing"
  BY <1>1, <1>2, <1>3, <1>4 DEF WrittenIsKept
<1> QED
  BY <1>1, <1>2, <1>4, <1>5

\* The end of a call whose rows do not wait any more.
LEMMA LeaveCalls ==
    ASSUME DatabaseInv, CallsInv, NEW t \in Tasks, Running(t), NEW next, GoesOn(t, next),
           NEW how \in {"ok", "error"}, Leave(t, next, how), journal' \subseteq journal,
           \A s : ~InJournal(t, s)', next # <<>> => IsSuffix(next, Script[kind[t]])
    PROVE  CallsInv'
<1>1. Left(t, next, how) /\ \A u \in Tasks \ {t} : SameCall(u)
  BY LeaveTask DEF Same, SameCall
<1>2. JournalIsOfCalls'
  BY <1>1, JournalKept
<1>3. OneMCP'
  <2>1. ASSUME NEW u \in Tasks
        PROVE  kind'[u] = kind[u] /\ (Running(u)' => Running(u))
    BY <1>1 DEF Left, SameCall, Running
  <2> QED
    BY <2>1, OneMCPKept
<1>4. UnderWay(t)'
  BY <1>1 DEF Left, UnderWay, Running, CallsInv
<1> QED
  BY <1>1, <1>2, <1>3, <1>4, OthersUnderWay DEF CallsInv

LEMMA NextIsSuffix ==
    ASSUME DatabaseInv, CallsInv, NEW t \in Tasks, Running(t)
    PROVE  /\ IsSuffix(Tail(todo[t]), Script[kind[t]])
           /\ kind[t] = "sweep" => IsSuffix(<<"purge">>, Script[kind[t]])
<1>1. todo[t] \in Seq(Calls) /\ todo[t] # <<>> /\ Script[kind[t]] \in Seq(Calls)
      /\ IsSuffix(todo[t], Script[kind[t]]) /\ kind[t] \in Kinds
  BY TaskFacts, RunningFacts, ScriptCalls DEF CallsInv, UnderWay, Running
<1>2. kind[t] = "sweep" => /\ Script[kind[t]][Len(Script[kind[t]])] = "purge"
                           /\ Len(Script[kind[t]]) \in Nat /\ Len(Script[kind[t]]) >= 1
  BY <1>1, ScriptCalls
<1>3. Len(<<"purge">>) = 1 /\ <<"purge">>[1] = "purge"
  OBVIOUS
<1>4. kind[t] = "sweep" => IsSuffix(<<"purge">>, Script[kind[t]])
  BY <1>2, <1>3 DEF IsSuffix
<1> QED
  BY <1>1, <1>4, TailIsSuffix
\* A step after which every task is in the call it was in, and the journal holds rows
\* that it held.
LEMMA StayCalls ==
    ASSUME CallsInv, \A u \in Tasks : SameCall(u), journal' \subseteq journal
    PROVE  CallsInv'
<1>1. \A u \in Tasks : kind'[u] = kind[u] /\ (Running(u)' => Running(u))
  BY DEF SameCall, Running
<1> QED
  BY <1>1, JournalKept, OneMCPKept, OthersUnderWay DEF CallsInv

LEMMA BeginCalls ==
    ASSUME DatabaseInv, CallsInv, NEW t \in Tasks, NEW k \in Kinds, Begin(t, k)
    PROVE  CallsInv'
<1>1. /\ kind[t] = "none" /\ kind' = [kind EXCEPT ![t] = k]
      /\ k = "mcp" => \A u \in Tasks : kind[u] = "mcp" => ~Running(u)
      /\ todo' = [todo EXCEPT ![t] = Script[k]]
      /\ UNCHANGED <<answer, journal>>
  BY DEF Begin
<1>2. Shape /\ TaskOK(t) /\ RowsAreWritten(t)
  BY TaskFacts DEF DatabaseInv, RowsOK
<1>3. kind'[t] = k /\ todo'[t] = Script[k] /\ answer'[t] = "none"
      /\ \A u \in Tasks \ {t} : SameCall(u)
  BY <1>1, <1>2 DEF Shape, TaskOK, SameCall
<1>4. JournalIsOfCalls'
  BY <1>1, <1>2, <1>3, JournalKept DEF RowsAreWritten, InJournal
<1>5. OneMCP'
  BY <1>1, <1>3 DEF CallsInv, OneMCP, SameCall, Running
<1>6. UnderWay(t)'
  <2>1. Script[k] \in Seq(Calls)
    BY ScriptCalls
  <2>2. IsSuffix(Script[k], Script[k])
    BY <2>1 DEF IsSuffix
  <2> QED
    BY <1>3, <2>2 DEF UnderWay
<1> QED
  BY <1>3, <1>4, <1>5, <1>6, OthersUnderWay DEF CallsInv

LEMMA ExecuteCalls ==
    ASSUME DatabaseInv, CallsInv, NEW t \in Tasks, Execute(t)
    PROVE  CallsInv'
<1>1. /\ Running(t) /\ stage[t] = "inside" /\ left[t] # <<>>
      /\ journal' = journal \union {<<t, Head(left[t])>>}
      /\ UNCHANGED <<kind, todo, answer>>
  BY DEF Execute, Executing, Wrote
<1>2. Owner(Head(left[t])) = Call(t) /\ Head(left[t]) \in AllNames
  <2>1. left[t] \in Seq(AllNames) /\ Members(left[t]) \subseteq Names(Call(t))
    BY <1>1, TaskFacts DEF TaskOK
  <2>2. Head(left[t]) \in Names(Call(t))
    BY <1>1, <2>1, HeadAndTail
  <2> QED
    BY <1>1, <2>2, RunningFacts, CallStatements
<1>3. \A u : SameCall(u)
  BY <1>1 DEF SameCall
<1>4. JournalIsOfCalls'
  <2> SUFFICES ASSUME NEW x \in journal'
               PROVE  \E u \in Tasks, s \in AllNames : x = <<u, s>> /\ Running(u) /\ Owner(s) = Call(u)
    BY <1>1 DEF JournalIsOfCalls, Running, Call
  <2>1. CASE x \in journal
    BY <2>1 DEF CallsInv, JournalIsOfCalls
  <2>2. CASE x = <<t, Head(left[t])>>
    BY <1>1, <1>2, <2>2
  <2> QED
    BY <1>1, <2>1, <2>2
<1>5. OneMCP'
  BY <1>1, OneMCPKept DEF Running
<1> QED
  BY <1>3, <1>4, <1>5, OthersUnderWay DEF CallsInv

\* The calls that end here leave no row behind in the journal.
LEMMA QuietlyLeft ==
    ASSUME DatabaseInv, CallsInv, NEW t \in Tasks, Written(t) = {}
    PROVE  \A s : ~InJournal(t, s)
  BY WaitingRow

LEMMA CommittedCalls ==
    ASSUME DatabaseInv, CallsInv, NEW t \in Tasks, Committed(Conn(t))
    PROVE  journal' \subseteq journal /\ \A s : ~InJournal(t, s)'
<1>1. CASE tx[Conn(t)] = "writing"
  BY <1>1 DEF Committed, InJournal
<1>2. CASE tx[Conn(t)] # "writing"
  BY <1>2, WaitingRow DEF Committed, InJournal
<1> QED
  BY <1>1, <1>2

LEMMA CallsStep ==
    ASSUME DatabaseInv, CallsInv, NEW t \in Tasks, Step(t)
    PROVE  CallsInv'
<1>1. CASE Enter(t)
  BY <1>1, StayCalls DEF Enter, SameCall
<1>2. CASE Query(t)
  <2>1. /\ Running(t) /\ Leave(t, Tail(todo[t]), "ok") /\ UNCHANGED journal
    BY <1>2 DEF Query
  <2>2. \A s : ~InJournal(t, s)'
    BY <1>2, <2>1, NothingWritten, QuietlyLeft DEF InJournal
  <2> QED
    BY <2>1, <2>2, TailIsNext, NextIsSuffix, LeaveCalls
<1>3. CASE Execute(t)
  BY <1>3, ExecuteCalls
<1>4. CASE ExecuteMiss(t)
  <2>1. Running(t) /\ journal' = journal
    BY <1>4 DEF ExecuteMiss, Executing, Wrote
  <2>2. CASE Call(t) = "record_issued_and_resolve"
    <3>1. Leave(t, <<>>, "error")
      BY <1>4, <2>2 DEF ExecuteMiss
    <3>2. \A s : ~InJournal(t, s)'
      BY <1>4, <2>1, NothingWritten, QuietlyLeft DEF InJournal
    <3> QED
      BY <2>1, <3>1, <3>2, TailIsNext, LeaveCalls
  <2>3. CASE Call(t) # "record_issued_and_resolve"
    BY <1>4, <2>1, <2>3, StayCalls DEF ExecuteMiss, SameCall
  <2> QED
    BY <2>2, <2>3
<1>5. CASE ExecuteFails(t)
  <2> DEFINE next == IF kind[t] = "sweep" /\ Call(t) = "log" THEN Tail(todo[t]) ELSE <<>>
  <2>1. /\ Running(t) /\ Leave(t, next, "error") /\ UNCHANGED journal
    BY <1>5 DEF ExecuteFails, Executing
  <2>2. \A s : ~InJournal(t, s)'
    BY <1>5, <2>1, NothingWritten, QuietlyLeft DEF InJournal
  <2>3. GoesOn(t, next) /\ (next # <<>> => IsSuffix(next, Script[kind[t]]))
    BY <2>1, TailIsNext, NextIsSuffix
  <2> HIDE DEF next
  <2> QED
    BY <2>1, <2>2, <2>3, LeaveCalls
<1>6. CASE Commit(t)
  <2>1. Running(t) /\ Committed(Conn(t)) /\ Leave(t, Tail(todo[t]), "ok")
    BY <1>6 DEF Commit, Executed
  <2> QED
    BY <2>1, CommittedCalls, TailIsNext, NextIsSuffix, LeaveCalls
<1>7. CASE CommitMiss(t)
  <2> DEFINE next == IF kind[t] = "sweep" THEN <<"purge">> ELSE <<>>
  <2>1. Running(t) /\ Committed(Conn(t)) /\ Leave(t, next, "error")
    BY <1>7 DEF CommitMiss
  <2>2. GoesOn(t, next)
    BY <1>7, MissGoesOn
  <2>3. next # <<>> => IsSuffix(next, Script[kind[t]])
    BY <2>1, NextIsSuffix
  <2> HIDE DEF next
  <2> QED
    BY <2>1, <2>2, <2>3, CommittedCalls, LeaveCalls
<1> QED
  BY <1>1, <1>2, <1>3, <1>4, <1>5, <1>6, <1>7 DEF Step

LEMMA CrashCalls ==
    ASSUME DatabaseInv, CallsInv, NEW p \in {"server", "mcp"}, Crash(p)
    PROVE  CallsInv'
<1>1. /\ todo' = [t \in Tasks |-> IF Process(kind[t]) = p THEN <<>> ELSE todo[t]]
      /\ journal' = IF \E c \in ConnectionsOf(p) : tx[c] = "writing" THEN {} ELSE journal
      /\ UNCHANGED <<kind, answer>>
  BY DEF Crash
<1>2. \A u \in Tasks : Process(kind[u]) # p => SameCall(u)
  BY <1>1 DEF SameCall
<1>3. \A u \in Tasks : Process(kind[u]) = p => ~Running(u)'
  BY <1>1 DEF Running
<1>4. ASSUME NEW u \in Tasks, NEW s, InJournal(u, s)'
      PROVE  SameCall(u)
  <2>1. InJournal(u, s) /\ ~\E c \in ConnectionsOf(p) : tx[c] = "writing"
    BY <1>1, <1>4 DEF InJournal
  <2>2. Process(kind[u]) # p
    BY <2>1, WaitingRow, RunningFacts
  <2> QED
    BY <1>2, <2>2
<1>5. JournalIsOfCalls'
  BY <1>1, <1>4, JournalKept
<1>6. OneMCP'
  BY <1>1, <1>2, <1>3, OneMCPKept DEF SameCall, Running
<1>7. \A u \in Tasks : UnderWay(u)'
  BY <1>2, <1>3, OthersUnderWay DEF UnderWay
<1> QED
  BY <1>5, <1>6, <1>7 DEF CallsInv
-----------------------------------------------------------------------------
\* To its tasks the file is one on which calls take effect at once.

LEMMA EffectsAre ==
    ASSUME NEW k \in Kinds
    PROVE  /\ DOMAIN Effects = Kinds /\ DOMAIN Effects[k] = DOMAIN Script[k]
           /\ \A i \in DOMAIN Script[k] : /\ Effects[k][i] = Names(Script[k][i])
                                          /\ Names(Script[k][i]) \in Atomic!AllEffects
<1>1. DOMAIN Effects = Kinds /\ Effects[k] = [i \in DOMAIN Script[k] |-> RowsOf(Script[k][i])]
  BY DEF Effects
<1>2. \A c : RowsOf(c) = Names(c)
  BY DEF RowsOf, Names, Members
<1>3. \A i \in DOMAIN Script[k] : Effects[k][i] = Names(Script[k][i])
  BY <1>1, <1>2
<1> QED
  BY <1>1, <1>3 DEF Atomic!AllEffects

LEMMA AtomicPositions ==
    ASSUME NEW t, kind[t] \in Kinds
    PROVE  /\ Atomic!Positions(t) = DOMAIN Script[kind[t]]
           /\ \A i \in DOMAIN Script[kind[t]] : Atomic!Effect(t, i) = {t} \X Names(Script[kind[t]][i])
  BY EffectsAre, KindsAre DEF Atomic!Positions, Atomic!Effect

\* It is the turn of a call that waits for its commit.
LEMMA WaitingTurn ==
    ASSUME DatabaseInv, CallsInv, NEW t \in Tasks, NEW s, InJournal(t, s)
    PROVE  \E i \in Atomic!Positions(t) : Effects[kind[t]][i] = Names(Call(t)) /\ Atomic!Turn(t, i)
<1> DEFINE S == Script[kind[t]]
<1>1. /\ Running(t) /\ Owner(s) = Call(t) /\ s \in Written(t) /\ ~InFile(t, s)
      /\ kind[t] \in Kinds /\ Call(t) \in Calls
  BY WaitingRow, RunningFacts
<1>2. /\ S \in Seq(Calls) /\ Distinct(S) /\ todo[t] \in Seq(Calls) /\ todo[t] # <<>>
      /\ CallsOf(t) = Members(S)
  BY <1>1, ScriptCalls, TaskFacts DEF Running, CallsOf
<1>3. answer[t] = "none" /\ IsSuffix(todo[t], S)
  BY <1>1 DEF CallsInv, UnderWay
<1>4. PICK at \in DOMAIN S : /\ S[at] = Call(t)
                             /\ \A j \in DOMAIN S : /\ j < at => S[j] \notin Members(todo[t])
                                                    /\ j > at => S[j] \in Later(t)
  BY <1>2, <1>3, SuffixBegins DEF Call, Later
<1>5. DOMAIN S \subseteq Nat /\ \A j \in DOMAIN S : S[j] \in Calls /\ S[j] \in CallsOf(t)
  BY <1>2 DEF Members
<1>6. RowsAreWritten(t) /\ RowsTogether(t) /\ PastIsCommitted(t)
  BY TaskFacts DEF RowsOK
<1>7. ASSUME NEW j \in DOMAIN S, j > at, NEW r \in Names(S[j])
      PROVE  ~InFile(t, r)
  <2>1. S[j] \in Later(t) /\ Owner(r) = S[j]
    BY <1>4, <1>5, <1>7, CallStatements
  <2> QED
    BY <1>1, <1>6, <2>1 DEF RowsAreWritten
<1>8. \A r \in Names(Call(t)) : ~InFile(t, r)
  <2>1. s \in Names(Call(t))
    BY <1>1 DEF Written
  <2> QED
    BY <1>1, <1>6, <2>1 DEF RowsTogether
<1>9. ASSUME NEW j \in DOMAIN S, j < at, kind[t] # "sweep", NEW r \in Names(S[j])
      PROVE  InFile(t, r)
  <2>1. S[j] \in CallsOf(t) \ Members(todo[t])
    BY <1>4, <1>5, <1>9
  <2> HIDE DEF S
  <2> QED
    BY <1>1, <1>6, <1>9, <2>1 DEF PastIsCommitted
<1>10. /\ Atomic!Positions(t) = DOMAIN S
       /\ \A j \in DOMAIN S : Atomic!Effect(t, j) = {t} \X Names(S[j])
  BY <1>1, AtomicPositions
<1>11. Atomic!Turn(t, at)
  <2>1. ASSUME NEW j \in DOMAIN S
        PROVE  /\ j >= at => Atomic!Effect(t, j) \intersect committed = {}
               /\ j < at => kind[t] \in Lenient \/ Atomic!Effect(t, j) \subseteq committed
    <3>1. CASE j > at
      BY <1>5, <1>7, <1>10, <3>1 DEF InFile
    <3>2. CASE j = at
      BY <1>4, <1>5, <1>8, <1>10, <3>2 DEF InFile
    <3>3. CASE j < at
      BY <1>5, <1>9, <1>10, <3>3 DEF InFile, Lenient
    <3> QED
      BY <1>5, <3>1, <3>2, <3>3
  <2> QED
    BY <1>3, <1>10, <2>1 DEF Atomic!Turn
<1>12. Effects[kind[t]][at] = Names(Call(t))
  BY <1>1, <1>4, EffectsAre
<1> QED
  BY <1>10, <1>11, <1>12

\* Rows of two tasks wait for one commit only where no lock is taken: in the audit log.
LEMMA WaitingTogether ==
    ASSUME DatabaseInv, CallsInv, NEW t \in Tasks, NEW u \in Tasks, t # u,
           NEW r, InJournal(t, r), NEW s, InJournal(u, s)
    PROVE  Call(t) = "log" /\ Call(u) = "log"
<1>1. /\ Running(t) /\ r \in Written(t) /\ tx[Conn(t)] = "writing"
      /\ Running(u) /\ s \in Written(u) /\ tx[Conn(u)] = "writing"
  BY WaitingRow
<1>2. /\ Conn(t) \in Connections /\ Call(t) \in Calls /\ kind[t] \in Kinds
      /\ Conn(t) \in ConnectionsOf(Process(kind[t]))
      /\ Conn(u) \in Connections /\ Call(u) \in Calls /\ kind[u] \in Kinds
      /\ Conn(u) \in ConnectionsOf(Process(kind[u]))
  BY <1>1, RunningFacts
<1>3. Conn(t) = Conn(u)
  BY <1>1, <1>2 DEF DatabaseInv, FileOK, OneWriter
<1>4. Conn(t) \notin {"store", "tracker"}
  <2> SUFFICES ASSUME Conn(t) \in {"store", "tracker"}
               PROVE  FALSE
    OBVIOUS
  <2>1. Guarded(Call(t)) /\ Guarded(Call(u))
    BY <1>2, <1>3, CallConnections DEF Conn
  <2>2. stage[t] # "outside" /\ stage[u] # "outside"
    BY <1>1 DEF Written
  <2> QED
    BY <1>1, <1>3, <2>1, <2>2, TaskFacts DEF HasLock
<1>5. Conn(t) \notin {"mcp store", "mcp audit"}
  <2> SUFFICES ASSUME Conn(t) \in {"mcp store", "mcp audit"}
               PROVE  FALSE
    OBVIOUS
  <2>1. kind[t] = "mcp" /\ kind[u] = "mcp"
    BY <1>2, <1>3 DEF ConnectionsOf, Process
  <2> QED
    BY <1>1, <2>1 DEF CallsInv, OneMCP
<1>6. Connection(Call(t)) = "audit" /\ Connection(Call(u)) = "audit"
  BY <1>2, <1>3, <1>4, <1>5 DEF Connections, Conn
<1>7. Call(t) \in {"log", "get_events"} /\ Call(u) \in {"log", "get_events"}
  BY <1>2, <1>6 DEF Calls, StoreCalls, Connection
<1>8. Statements("get_events") = <<>> /\ "get_events" \in Calls
  BY DEF Statements, Calls
<1>9. Names(Call(t)) # {} /\ Names(Call(u)) # {}
  BY <1>1 DEF Written
<1> QED
  BY <1>7, <1>8, <1>9, CallStatements
\* A commit that moves rows into the file makes calls take effect.
LEMMA CommitTakesEffect ==
    ASSUME DatabaseInv, CallsInv, NEW t \in Tasks, Running(t), stage[t] # "outside",
           ~Halfway(t), tx[Conn(t)] = "writing", Committed(Conn(t))
    PROVE  \E ts \in SUBSET Tasks, rows \in Atomic!AllEffects : Atomic!TakeEffect(ts, rows)
<1>1. committed' = committed \union journal
  BY DEF Committed
<1>2. ASSUME journal = {}
      PROVE  \E rows \in Atomic!AllEffects : Atomic!TakeEffect({}, rows)
  <2>1. kind[t] \in Kinds /\ Call(t) \in CallsOf(t)
    BY RunningFacts
  <2>2. PICK i \in DOMAIN Script[kind[t]] : Script[kind[t]][i] = Call(t)
    BY <2>1 DEF CallsOf, Members
  <2>3. Names(Call(t)) \in Atomic!AllEffects
    BY <2>1, <2>2, EffectsAre
  <2> QED
    BY <1>1, <1>2, <2>3 DEF Atomic!TakeEffect
<1>3. ASSUME NEW x \in journal
      PROVE  \E ts \in SUBSET Tasks, rows \in Atomic!AllEffects : Atomic!TakeEffect(ts, rows)
  <2>1. PICK v \in Tasks, s0 \in AllNames : x = <<v, s0>> /\ Running(v) /\ Owner(s0) = Call(v)
    BY <1>3 DEF CallsInv, JournalIsOfCalls
  <2> DEFINE rows == Names(Call(v))
  <2> DEFINE ts == {u \in Tasks : \E s : InJournal(u, s)}
  <2>2. InJournal(v, s0) /\ v \in ts
    BY <1>3, <2>1 DEF InJournal
  <2>3. ASSUME NEW u \in ts, u # v
        PROVE  Call(u) = "log" /\ Call(v) = "log"
    BY <2>2, <2>3, WaitingTogether
  <2>4. ASSUME NEW u \in ts
        PROVE  Call(u) = Call(v)
    BY <2>3, <2>4
  <2>5. rows \notin Shared => \A u, w \in ts : u = w
    <3>1. RowsOf("log") = Names("log")
      BY DEF RowsOf, Names, Members
    <3> QED
      BY <2>3, <3>1 DEF Shared
  <2>6. \A u \in ts : \E i \in Atomic!Positions(u) : Effects[kind[u]][i] = rows /\ Atomic!Turn(u, i)
    BY <2>4, WaitingTurn
  <2>7. ASSUME NEW u \in ts
        PROVE  \A r \in Names(Call(u)) : InJournal(u, r)
    <3>1. PICK s : InJournal(u, s)
      OBVIOUS
    <3>2. Running(u) /\ s \in Written(u) /\ ~InFile(u, s) /\ Call(u) \in Calls
      BY <3>1, WaitingRow, RunningFacts
    <3>3. ~Halfway(u)
      <4>1. CASE u = t
        BY <4>1
      <4>2. CASE u # t
        <5>1. RowsKept(u) \/ RowsCommitted(u)
          BY <4>2, CommitFile
        <5>2. ~InJournal(u, s)'
          BY DEF Committed, InJournal
        <5> QED
          BY <3>1, <3>2, <5>1, <5>2 DEF RowsKept, RowsCommitted
      <4> QED
        BY <4>1, <4>2
    <3>4. RowsTogether(u) /\ s \in Names(Call(u))
      BY <3>2, TaskFacts DEF RowsOK, Written
    <3> QED
      BY <3>1, <3>2, <3>3, <3>4 DEF RowsTogether
  <2>8. journal \subseteq ts \X rows
    <3> SUFFICES ASSUME NEW y \in journal
                 PROVE  y \in ts \X rows
      OBVIOUS
    <3>1. PICK u \in Tasks, s \in AllNames : y = <<u, s>> /\ Running(u) /\ Owner(s) = Call(u)
      BY DEF CallsInv, JournalIsOfCalls
    <3>2. InJournal(u, s) /\ u \in ts
      BY <3>1 DEF InJournal
    <3>3. s \in Names(Call(u))
      BY <3>2, WaitingRow DEF Written
    <3>4. s \in rows
      BY <2>4, <3>2, <3>3
    <3> HIDE DEF ts, rows
    <3> QED
      BY <3>1, <3>2, <3>4
  <2>9. ts \X rows \subseteq journal
    <3>1. \A u \in ts : \A r \in rows : <<u, r>> \in journal
      BY <2>4, <2>7 DEF InJournal
    <3> HIDE DEF ts, rows
    <3> QED
      BY <3>1
  <2>10. rows \in Atomic!AllEffects
    <3>1. kind[v] \in Kinds /\ Call(v) \in CallsOf(v)
      BY <2>1, RunningFacts
    <3>2. PICK i \in DOMAIN Script[kind[v]] : Script[kind[v]][i] = Call(v)
      BY <3>1 DEF CallsOf, Members
    <3> QED
      BY <3>1, <3>2, EffectsAre
  <2>11. ts \in SUBSET Tasks /\ committed' = committed \union (ts \X rows)
    BY <1>1, <2>8, <2>9
  <2> HIDE DEF ts, rows
  <2> QED
    BY <2>5, <2>6, <2>10, <2>11 DEF Atomic!TakeEffect
<1> QED
  BY <1>2, <1>3

\* A task that leaves a call gets its answer, or goes on with none.
LEMMA LeaveReplies ==
    ASSUME DatabaseInv, CallsInv, DatabaseInv', NEW t \in Tasks, Running(t), NEW next,
           NEW how \in {"ok", "error"}, Leave(t, next, how)
    PROVE  UNCHANGED kind /\ (UNCHANGED answer \/ Atomic!Reply(t, how))
<1>1. /\ UNCHANGED kind
      /\ answer' = [answer EXCEPT ![t] = IF next = <<>> THEN how ELSE @]
      /\ answer \in [Tasks -> {"none", "ok", "error"}]
  BY DEF Leave, DatabaseInv, Shape
<1>2. CASE next # <<>>
  BY <1>1, <1>2
<1>3. CASE next = <<>>
  <2>1. answer' = [answer EXCEPT ![t] = how] /\ answer'[t] = how
    BY <1>1, <1>3
  <2>2. kind[t] \in Kinds /\ kind[t] # "none" /\ answer[t] = "none"
    BY RunningFacts, KindsAre DEF CallsInv, UnderWay
  <2>3. ASSUME how = "ok", kind[t] # "sweep", NEW i \in DOMAIN Script[kind[t]]
        PROVE  \A s \in Names(Script[kind[t]][i]) : <<t, s>> \in committed'
    <3>1. OkIsCommitted(t)'
      BY DEF DatabaseInv, RowsOK
    <3>2. Script[kind[t]][i] \in CallsOf(t)'
      BY <1>1 DEF CallsOf, Members
    <3> QED
      BY <1>1, <2>1, <2>3, <3>1, <3>2 DEF OkIsCommitted, InFile
  <2>4. how = "ok" /\ kind[t] \notin Lenient =>
            \A i \in Atomic!Positions(t) : Atomic!Effect(t, i) \subseteq committed'
    BY <2>2, <2>3, AtomicPositions DEF Lenient
  <2> QED
    BY <1>1, <2>1, <2>2, <2>4 DEF Atomic!Reply
<1> QED
  BY <1>1, <1>2, <1>3

\* A task that leaves a call in which no row got into the file.
LEMMA LeaveInvisibly ==
    ASSUME DatabaseInv, CallsInv, DatabaseInv', NEW t \in Tasks, Running(t), NEW next,
           NEW how \in {"ok", "error"}, Leave(t, next, how), UNCHANGED committed
    PROVE  [Atomic!CallsNext]_(Atomic!abstractVars)
  BY LeaveReplies DEF Atomic!CallsNext

\* A call whose transaction ends.
LEMMA LeaveVisibly ==
    ASSUME DatabaseInv, CallsInv, DatabaseInv', NEW t \in Tasks, Running(t),
           stage[t] # "outside", ~Halfway(t), Committed(Conn(t)), NEW next,
           NEW how \in {"ok", "error"}, Leave(t, next, how)
    PROVE  [Atomic!CallsNext]_(Atomic!abstractVars)
<1>1. CASE tx[Conn(t)] = "writing"
  BY <1>1, CommitTakesEffect, LeaveReplies DEF Atomic!CallsNext
<1>2. CASE tx[Conn(t)] # "writing"
  BY <1>2, LeaveInvisibly DEF Committed
<1> QED
  BY <1>1, <1>2

LEMMA StepIsAtomic ==
    ASSUME DatabaseInv, CallsInv, DatabaseInv', NEW t \in Tasks, Step(t)
    PROVE  [Atomic!CallsNext]_(Atomic!abstractVars)
<1>1. CASE Enter(t) \/ Execute(t)
  BY <1>1 DEF Enter, Execute, Wrote, Atomic!abstractVars
<1>2. CASE Query(t)
  BY <1>2, LeaveInvisibly DEF Query
<1>3. CASE ExecuteMiss(t)
  <2>1. Running(t) /\ UNCHANGED committed
    BY <1>3 DEF ExecuteMiss, Executing, Wrote
  <2>2. Leave(t, <<>>, "error") \/ UNCHANGED <<kind, answer>>
    BY <1>3 DEF ExecuteMiss
  <2> QED
    BY <2>1, <2>2, LeaveInvisibly DEF Atomic!abstractVars
<1>4. CASE ExecuteFails(t)
  BY <1>4, LeaveInvisibly DEF ExecuteFails, Executing
<1>5. CASE Commit(t)
  BY <1>5, LeaveVisibly DEF Commit, Executed, Halfway
<1>6. CASE CommitMiss(t)
  BY <1>6, LeaveVisibly DEF CommitMiss, Halfway
<1> QED
  BY <1>1, <1>2, <1>3, <1>4, <1>5, <1>6 DEF Step

\* What else the calls of a task need: that rows which wait for a commit are those of calls
\* under way, that these are the last of the script, and that one MCP server is at work.
THEOREM CallsInOrder == Spec => []CallsInv
<1>1. Init => CallsInv
  <2> SUFFICES ASSUME Init PROVE CallsInv
    OBVIOUS
  <2>1. journal = {} /\ \A t \in Tasks : ~Running(t)
    BY DEF Init, Running
  <2> QED
    BY <2>1 DEF CallsInv, JournalIsOfCalls, OneMCP, UnderWay
<1>2. DatabaseInv /\ CallsInv /\ [Next]_vars => CallsInv'
  <2> SUFFICES ASSUME DatabaseInv, CallsInv, [Next]_vars PROVE CallsInv'
    OBVIOUS
  <2>1. CASE UNCHANGED vars
    BY <2>1, StayCalls DEF vars, SameCall
  <2>2. CASE Next
    BY <2>1, <2>2, BeginCalls, CallsStep, CrashCalls DEF Next, Done
  <2> QED
    BY <2>1, <2>2
<1> QED
  BY <1>1, <1>2, DatabaseInductive, PTL DEF Spec

\* Through five connections with their locks, transactions, timeouts and crashes the calls
\* of every task take effect whole, in the order of the code, one commit at a time but for
\* audit records; and no request is told that all went well before all of it is durable.
THEOREM ImplementsTheCalls == Spec => ImplementsAtomicCalls
<1>1. Init => Atomic!CallsInit
  BY DEF Init, Atomic!CallsInit
<1>2. DatabaseInv /\ CallsInv /\ DatabaseInv' /\ [Next]_vars =>
          [Atomic!CallsNext]_(Atomic!abstractVars)
  <2> SUFFICES ASSUME DatabaseInv, CallsInv, DatabaseInv', [Next]_vars
               PROVE  [Atomic!CallsNext]_(Atomic!abstractVars)
    OBVIOUS
  <2>1. CASE UNCHANGED vars
    BY <2>1 DEF vars, Atomic!abstractVars
  <2>2. ASSUME NEW t \in Tasks, NEW k \in Kinds, Begin(t, k)
        PROVE  [Atomic!CallsNext]_(Atomic!abstractVars)
    BY <2>2, EffectsAre DEF Begin, Atomic!Start, Atomic!CallsNext
  <2>3. ASSUME NEW p \in {"server", "mcp"}, Crash(p)
        PROVE  [Atomic!CallsNext]_(Atomic!abstractVars)
    BY <2>3 DEF Crash, Atomic!abstractVars
  <2> QED
    BY <2>1, <2>2, <2>3, StepIsAtomic DEF Next, Done
<1> QED
  BY <1>1, <1>2, DatabaseInductive, CallsInOrder, PTL DEF ImplementsAtomicCalls, Atomic!CallsSpec, Spec
-----------------------------------------------------------------------------
\* No task goes on for ever.

\* What a task has still to do, in steps at most: a call is entered, executes two
\* statements and commits, or misses and commits.
WorkIn(calls, where, statements) ==
    5 * Len(calls) + (IF where = "outside" THEN 4
                      ELSE IF where = "inside" THEN 1 + Len(statements) ELSE 0)

Work(t) == WorkIn(todo[t], stage[t], left[t])

\* A step of a task brings it nearer to its end, and no step of another, no crash and no
\* timeout takes it further away: nothing is tried twice.
Progress ==
    \A t \in Tasks : /\ Step(t) => Work(t)' < Work(t)
                     /\ kind[t] # "none" => Work(t)' <= Work(t)
StepsAreProgress == [][Progress]_vars
WorkIsLittle == \A t \in Tasks : Work(t) \in 0..29

LEMMA WorkFacts ==
    ASSUME NEW q \in Seq(Calls), NEW w \in {"outside", "inside", "missed"},
           NEW l \in Seq(AllNames), Len(l) <= 2
    PROVE  /\ Len(q) \in Nat /\ Len(l) \in Nat /\ WorkIn(q, w, l) \in Nat
           /\ 5 * Len(q) <= WorkIn(q, w, l) /\ WorkIn(q, w, l) <= 5 * Len(q) + 4
           /\ w = "outside" => WorkIn(q, w, l) = 5 * Len(q) + 4
           /\ w = "inside" => WorkIn(q, w, l) = 5 * Len(q) + (1 + Len(l))
           /\ w = "missed" => WorkIn(q, w, l) = 5 * Len(q)
<1>1. Len(q) \in Nat /\ Len(l) \in Nat
  OBVIOUS
<1>2. CASE w = "outside"
  BY <1>1, <1>2 DEF WorkIn
<1>3. CASE w = "inside"
  BY <1>1, <1>3 DEF WorkIn
<1>4. CASE w = "missed"
  BY <1>1, <1>4 DEF WorkIn
<1> QED
  BY <1>1, <1>2, <1>3, <1>4

\* Entering, executing and missing cost something.
LEMMA WorkGoesDown ==
    ASSUME NEW q \in Seq(Calls), NEW l \in Seq(AllNames), Len(l) <= 2,
           NEW r \in Seq(AllNames), Len(r) <= 2
    PROVE  /\ WorkIn(q, "inside", r) < WorkIn(q, "outside", l)
           /\ WorkIn(q, "missed", r) < WorkIn(q, "inside", l)
           /\ Len(r) < Len(l) => WorkIn(q, "inside", r) < WorkIn(q, "inside", l)
<1>1. Len(q) \in Nat /\ Len(l) \in Nat /\ Len(r) \in Nat
  OBVIOUS
<1>2. /\ WorkIn(q, "outside", l) = 5 * Len(q) + 4
      /\ WorkIn(q, "missed", r) = 5 * Len(q)
      /\ WorkIn(q, "inside", r) = 5 * Len(q) + (1 + Len(r))
      /\ WorkIn(q, "inside", l) = 5 * Len(q) + (1 + Len(l))
  BY WorkFacts
<1>3. \A n, a, b \in Nat : /\ a <= 2 => 5 * n + (1 + a) < 5 * n + 4
                           /\ 5 * n < 5 * n + (1 + b)
                           /\ a < b => 5 * n + (1 + a) < 5 * n + (1 + b)
  OBVIOUS
<1> QED
  BY <1>1, <1>2, <1>3

\* A call that is left is one call less to make.
LEMMA LeaveWork ==
    ASSUME DatabaseInv, NEW t \in Tasks, Running(t), stage[t] # "outside",
           NEW next \in Seq(Calls), Len(next) < Len(todo[t]), NEW how, Leave(t, next, how)
    PROVE  Work(t)' < Work(t)
<1>1. todo'[t] = next /\ stage'[t] = "outside" /\ left'[t] = <<>>
  BY DEF Leave, DatabaseInv, Shape
<1>2. <<>> \in Seq(AllNames) /\ Len(<<>>) <= 2
  OBVIOUS
<1>3. WorkIn(next, "outside", <<>>) \in Nat /\ WorkIn(next, "outside", <<>>) <= 5 * Len(next) + 4
  BY <1>2, WorkFacts
<1>4. Work(t) \in Nat /\ 5 * Len(todo[t]) <= Work(t) /\ Len(todo[t]) \in Nat /\ Len(next) \in Nat
  BY TaskFacts, WorkFacts DEF Work, LeftOK
<1>5. Work(t)' = WorkIn(next, "outside", <<>>)
  BY <1>1 DEF Work
<1> QED
  BY <1>3, <1>4, <1>5

LEMMA LessToCall ==
    ASSUME DatabaseInv, NEW t \in Tasks, Running(t)
    PROVE  /\ Tail(todo[t]) \in Seq(Calls) /\ Len(Tail(todo[t])) < Len(todo[t])
           /\ <<>> \in Seq(Calls) /\ Len(<<>>) < Len(todo[t])
           /\ Call(t) # "purge" /\ kind[t] = "sweep" =>
                  <<"purge">> \in Seq(Calls) /\ Len(<<"purge">>) < Len(todo[t])
<1>1. todo[t] \in Seq(Calls) /\ todo[t] # <<>>
  BY TaskFacts DEF Running
<1>2. Tail(todo[t]) \in Seq(Calls) /\ Len(Tail(todo[t])) = Len(todo[t]) - 1 /\ Len(todo[t]) \in Nat \ {0}
  BY <1>1
<1>3. <<"purge">> \in Seq(Calls) /\ Len(<<"purge">>) = 1 /\ <<>> \in Seq(Calls) /\ Len(<<>>) = 0
  BY DEF Calls, StoreCalls
<1>4. ASSUME Call(t) # "purge", kind[t] = "sweep"
      PROVE  Tail(todo[t]) # <<>>
  BY <1>4, RunningFacts, Empty DEF Later
<1>5. Tail(todo[t]) # <<>> => Len(Tail(todo[t])) \in Nat \ {0}
  BY <1>2, HeadAndTail
<1> QED
  BY <1>2, <1>3, <1>4, <1>5

LEMMA StepWork ==
    ASSUME DatabaseInv, NEW t \in Tasks, Step(t)
    PROVE  Work(t)' < Work(t)
<1>1. /\ Running(t) /\ Shape /\ todo[t] \in Seq(Calls) /\ left[t] \in Seq(AllNames)
      /\ Len(left[t]) <= 2 /\ Len(todo[t]) \in Nat /\ Len(left[t]) \in Nat
  BY TaskFacts DEF Step, Enter, Query, Execute, ExecuteMiss, ExecuteFails, Executing, Commit,
     Executed, CommitMiss, DatabaseInv, LeftOK
<1>2. CASE Enter(t)
  <2>1. stage[t] = "outside" /\ todo' = todo
        /\ stage'[t] = "inside" /\ left'[t] = Statements(Call(t))
    BY <1>1, <1>2 DEF Enter, Shape
  <2>2. Statements(Call(t)) \in Seq(AllNames) /\ Len(Statements(Call(t))) <= 2
    BY <1>1, RunningFacts, CallStatements
  <2> QED
    BY <1>1, <2>1, <2>2, WorkGoesDown DEF Work
<1>3. CASE Query(t)
  BY <1>1, <1>3, LessToCall, LeaveWork DEF Query
<1>4. CASE Execute(t)
  <2>1. stage[t] = "inside" /\ left[t] # <<>> /\ todo' = todo /\ stage' = stage
        /\ left'[t] = Tail(left[t])
    BY <1>1, <1>4 DEF Execute, Executing, Shape
  <2>2. Len(Tail(left[t])) = Len(left[t]) - 1 /\ Tail(left[t]) \in Seq(AllNames)
    BY <1>1, <2>1
  <2>3. Len(Tail(left[t])) < Len(left[t]) /\ Len(Tail(left[t])) <= 2
    BY <1>1, <2>2
  <2> QED
    BY <1>1, <2>1, <2>2, <2>3, WorkGoesDown DEF Work
<1>5. CASE ExecuteMiss(t)
  <2>1. CASE Call(t) = "record_issued_and_resolve"
    BY <1>1, <1>5, <2>1, LessToCall, LeaveWork DEF ExecuteMiss, Executing
  <2>2. CASE Call(t) # "record_issued_and_resolve"
    <3>1. stage[t] = "inside" /\ todo' = todo /\ stage'[t] = "missed" /\ left'[t] = <<>>
      BY <1>1, <1>5, <2>2 DEF ExecuteMiss, Executing, Shape
    <3>2. <<>> \in Seq(AllNames) /\ Len(<<>>) <= 2
      OBVIOUS
    <3> QED
      BY <1>1, <3>1, <3>2, WorkGoesDown DEF Work
  <2> QED
    BY <2>1, <2>2
<1>6. CASE ExecuteFails(t)
  BY <1>1, <1>6, LessToCall, LeaveWork DEF ExecuteFails, Executing
<1>7. CASE Commit(t)
  BY <1>1, <1>7, LessToCall, LeaveWork DEF Commit, Executed
<1>8. CASE CommitMiss(t)
  <2>1. Call(t) # "purge" /\ stage[t] = "missed"
    BY <1>8, TaskFacts DEF CommitMiss, TaskOK, Conditional
  <2> QED
    BY <1>1, <1>8, <2>1, LessToCall, LeaveWork DEF CommitMiss
<1> QED
  BY <1>2, <1>3, <1>4, <1>5, <1>6, <1>7, <1>8 DEF Step

\* A step leaves alone the other tasks.
LEMMA StepLeavesOthers ==
    ASSUME DatabaseInv, NEW t \in Tasks, Step(t), NEW u \in Tasks \ {t}
    PROVE  todo'[u] = todo[u] /\ stage'[u] = stage[u] /\ left'[u] = left[u]
<1>1. Shape
  BY DEF DatabaseInv
<1>2. CASE \E next, how : Leave(t, next, how)
  BY <1>1, <1>2 DEF Leave, Shape
<1>3. CASE Enter(t) \/ Execute(t)
  BY <1>1, <1>3 DEF Enter, Execute, Shape
<1>4. CASE ExecuteMiss(t)
  BY <1>1, <1>2, <1>4 DEF ExecuteMiss, Shape
<1> QED
  BY <1>2, <1>3, <1>4 DEF Step, Query, ExecuteFails, Commit, CommitMiss

LEMMA WorkIsBounded ==
    ASSUME DatabaseInv, CallsInv
    PROVE  WorkIsLittle
<1> SUFFICES ASSUME NEW t \in Tasks
             PROVE  Work(t) \in 0..29
  BY DEF WorkIsLittle
<1>1. /\ Len(todo[t]) \in Nat /\ Work(t) \in Nat /\ Work(t) <= 5 * Len(todo[t]) + 4
  BY TaskFacts, WorkFacts DEF Work, LeftOK
<1>2. Len(todo[t]) <= 5
  <2>1. CASE Running(t)
    <3>1. Len(Script[kind[t]]) <= 5 /\ Len(Script[kind[t]]) \in Nat
      BY <2>1, RunningFacts, ScriptCalls
    <3>2. Len(todo[t]) <= Len(Script[kind[t]])
      BY <2>1 DEF CallsInv, UnderWay, IsSuffix
    <3> QED
      BY <1>1, <3>1, <3>2
  <2>2. CASE ~Running(t)
    BY <2>2 DEF Running
  <2> QED
    BY <2>1, <2>2
<1>3. \A n, w \in Nat : n <= 5 /\ w <= 5 * n + 4 => w \in 0..29
  OBVIOUS
<1> QED
  BY <1>1, <1>2, <1>3

\* A crash leaves a task less to do, if anything.
LEMMA CrashWork ==
    ASSUME DatabaseInv, NEW p \in {"server", "mcp"}, Crash(p), NEW t \in Tasks
    PROVE  Work(t)' <= Work(t)
<1>1. /\ todo[t] \in Seq(Calls) /\ left[t] \in Seq(AllNames) /\ Len(left[t]) <= 2
      /\ stage[t] \in {"outside", "inside", "missed"} /\ TaskOK(t) /\ LeftOK(t)
  BY TaskFacts DEF LeftOK
<1>2. Work(t) \in Nat /\ 5 * Len(todo[t]) <= Work(t) /\ Len(todo[t]) \in Nat
  BY <1>1, WorkFacts DEF Work
<1>3. CASE Process(kind[t]) = p /\ Running(t)
  <2>1. todo'[t] = <<>> /\ stage'[t] = "outside"
    BY <1>3 DEF Crash
  <2>2. Work(t)' = 5 * 0 + 4
    BY <2>1 DEF Work, WorkIn
  <2>3. Len(todo[t]) >= 1
    BY <1>1, <1>3 DEF Running
  <2> QED
    BY <1>2, <2>2, <2>3
<1>4. CASE ~(Process(kind[t]) = p /\ Running(t))
  <2>1. ~Running(t) => todo[t] = <<>> /\ stage[t] = "outside" /\ left[t] = <<>>
    BY <1>1 DEF TaskOK, LeftOK, Running
  <2>2. todo'[t] = todo[t] /\ stage'[t] = stage[t] /\ left'[t] = left[t]
    BY <1>4, <2>1 DEF Crash
  <2> QED
    BY <1>2, <2>2 DEF Work
<1> QED
  BY <1>3, <1>4

LEMMA WorkNeverGrows ==
    ASSUME DatabaseInv, DatabaseInv', [Next]_vars, NEW t \in Tasks
    PROVE  /\ Step(t) => Work(t)' < Work(t)
           /\ kind[t] # "none" => Work(t)' <= Work(t)
<1>1. Work(t) \in Nat /\ Work(t)' \in Nat
  <2>1. Work(t) \in Nat
    BY TaskFacts, WorkFacts DEF Work, LeftOK
  <2>2. /\ todo'[t] \in Seq(Calls) /\ left'[t] \in Seq(AllNames) /\ Len(left'[t]) <= 2
        /\ stage'[t] \in {"outside", "inside", "missed"}
    BY DEF DatabaseInv, Shape, TaskInv, LeftOK
  <2>3. WorkIn(todo'[t], stage'[t], left'[t]) \in Nat
    BY <2>2, WorkFacts
  <2> QED
    BY <2>1, <2>3 DEF Work
<1>2. Step(t) => Work(t)' < Work(t)
  BY StepWork
<1>3. ASSUME kind[t] # "none", ~Step(t)
      PROVE  Work(t)' <= Work(t)
  <2>1. CASE todo'[t] = todo[t] /\ stage'[t] = stage[t] /\ left'[t] = left[t]
    BY <1>1, <2>1 DEF Work
  <2>2. ASSUME NEW u \in Tasks, Step(u)
        PROVE  Work(t)' <= Work(t)
    BY <1>3, <2>1, <2>2, StepLeavesOthers
  <2>3. ASSUME NEW u \in Tasks, NEW k \in Kinds, Begin(u, k)
        PROVE  Work(t)' <= Work(t)
    BY <1>3, <2>1, <2>3 DEF Begin, DatabaseInv, Shape
  <2>4. ASSUME NEW p \in {"server", "mcp"}, Crash(p)
        PROVE  Work(t)' <= Work(t)
    BY <2>4, CrashWork
  <2>5. CASE UNCHANGED vars
    BY <2>1, <2>5 DEF vars
  <2> QED
    BY <2>2, <2>3, <2>4, <2>5 DEF Next, Done
<1> QED
  BY <1>1, <1>2, <1>3

\* The measure of a task goes down with every step of its own and up with nothing: it ends
\* after at most 29 of them, whoever else is at work on the file.
THEOREM TasksAreBounded == Spec => StepsAreProgress /\ []WorkIsLittle
<1>1. DatabaseInv /\ DatabaseInv' /\ [Next]_vars => [Progress]_vars
  BY WorkNeverGrows DEF Progress
<1>2. DatabaseInv /\ CallsInv => WorkIsLittle
  BY WorkIsBounded
<1>3. Spec => StepsAreProgress
  BY <1>1, DatabaseInductive, PTL DEF Spec, StepsAreProgress
<1> QED
  BY <1>2, <1>3, DatabaseInductive, CallsInOrder, PTL
-----------------------------------------------------------------------------
\* Nobody waits on everybody: NobodyIsStuck, with the guards of the actions in the place of
\* ENABLED.

CanStep(t) ==
    \/ stage[t] = "outside" /\ (Guarded(Call(t)) => guard[Conn(t)] = NoTask) \* Enter
    \/ stage[t] = "inside" /\ Statements(Call(t)) = <<>>                      \* Query
    \/ Executing(t) /\ (Writable(Conn(t)) \/ TimesOut(Conn(t)))               \* Execute, ExecuteFails
    \/ Executed(t)                                                            \* Commit
    \/ stage[t] = "missed"                                                    \* CommitMiss

SomebodyCanStep ==
    \A t \in Tasks : Running(t) =>
        \/ CanStep(t)
        \/ /\ stage[t] = "outside"
           /\ guard[Conn(t)] # NoTask
           /\ Running(guard[Conn(t)]) /\ CanStep(guard[Conn(t)])

\* A task that has calls to make can make a step, or waits for the lock of its connection
\* and who holds that can: whatever transactions are open and whoever left them so.
THEOREM NobodyWaitsOnAWaiter == Spec => []SomebodyCanStep
<1>1. ASSUME DatabaseInv, NEW t \in Tasks, Running(t), stage[t] # "outside"
      PROVE  CanStep(t)
  BY <1>1, TaskFacts DEF CanStep, Executing, Executed, TimesOut
<1>2. DatabaseInv => SomebodyCanStep
  <2> SUFFICES ASSUME DatabaseInv, NEW t \in Tasks, Running(t), ~CanStep(t)
               PROVE  /\ stage[t] = "outside" /\ guard[Conn(t)] # NoTask
                      /\ Running(guard[Conn(t)]) /\ CanStep(guard[Conn(t)])
    BY DEF SomebodyCanStep
  <2>1. stage[t] = "outside" /\ guard[Conn(t)] # NoTask
    BY <1>1 DEF CanStep
  <2>2. guard[Conn(t)] \in Tasks /\ Running(guard[Conn(t)]) /\ stage[guard[Conn(t)]] # "outside"
    BY <2>1, RunningFacts DEF DatabaseInv, Shape, GuardOK
  <2> QED
    BY <1>1, <2>1, <2>2
<1> QED
  BY <1>2, DatabaseInductive, PTL
=============================================================================
