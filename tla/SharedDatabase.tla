--------------------------- MODULE SharedDatabase ---------------------------
(***************************************************************************)
(* One SQLite file, five connections: the server's PendingCapsuleStore,    *)
(* SessionTracker and AuditLogger each keep one open, and so do the store  *)
(* and the logger of an MCP server's process.  This module models the      *)
(* calls that the handlers, the sweep and an MCP server make on them, one  *)
(* SQL statement and one commit at a time; ApprovalFlow and SessionGate    *)
(* say what the calls mean.                                                *)
(*                                                                         *)
(* The connections are Python's sqlite3 (behind aiosqlite) in WAL mode:    *)
(* the first INSERT, UPDATE or DELETE opens a transaction, whether or not  *)
(* it changes a row and whether or not it gets the write lock; a SELECT    *)
(* opens none, but inside an open one it pins what the connection sees;    *)
(* only a commit ends a transaction, and nothing in the code rolls back.   *)
(***************************************************************************)
EXTENDS Naturals, Sequences

CONSTANTS Tasks,     \* requests, sweeps and MCP servers at work on the file
          NoTask,    \* nobody holds the asyncio.Lock of a connection
          MaxCrashes \* bound: crashes of a process

ASSUME DatabaseAssumption == NoTask \notin Tasks /\ MaxCrashes \in Nat

VARIABLES kind,      \* what each task is
          todo,      \* the calls it has still to make, the current one first
          stage,     \* where it is in the current call
          left,      \* the statements of that call it has still to execute
          answer,    \* how it ended
          guard,     \* who holds the asyncio.Lock of each connection
          tx,        \* the transaction of each connection
          journal,   \* rows written in the transaction that holds the write lock
          committed, \* rows every connection can read
          crashes    \* crashes so far

vars == <<kind, todo, stage, left, answer, guard, tx, journal, committed, crashes>>

-----------------------------------------------------------------------------
\* The calls, the connection each goes to and the rows each writes.

Script == [
    denied  |-> <<"log">>,
    pending |-> <<"add_pending", "log">>,
    issued  |-> <<"persist", "record_issued", "log">>,
    approve |-> <<"get_pending", "try_claim_pending", "record_issued_and_resolve",
                  "persist", "log">>,
    reject  |-> <<"get_pending", "resolve_approval", "log">>,
    view    |-> <<"get_events">>,
    sweep   |-> <<"select_open", "resolve_approval", "log", "purge">>,
    mcp     |-> <<"mcp_init_db", "mcp_latest", "mcp_log">>]

Kinds == DOMAIN Script

StoreCalls == {"add_pending", "get_pending", "try_claim_pending", "record_issued_and_resolve",
               "record_issued", "resolve_approval", "select_open", "purge"}

Connection(call) ==
    CASE call \in StoreCalls -> "store"
      [] call = "persist" -> "tracker"
      [] call \in {"log", "get_events"} -> "audit"
      [] call = "mcp_log" -> "mcp audit"
      [] OTHER -> "mcp store"

Connections == {"store", "tracker", "audit", "mcp store", "mcp audit"}

\* PendingCapsuleStore and SessionTracker hold their lock for the whole call;
\* AuditLogger and init_db hold none.
UnguardedAtAll(call) == FALSE
Guarded(call) == Connection(call) \in {"store", "tracker"} \/ call = "mcp_latest"

Statements(call) ==
    CASE call \in {"get_pending", "get_events", "select_open", "mcp_latest"} -> <<>>
      [] call = "record_issued_and_resolve" -> <<"approved", "capsule">>
      [] call = "persist" -> <<"history", "tools">>
      [] OTHER -> <<call>>

\* The calls whose UPDATE may find that somebody resolved the row first.
Conditional == {"try_claim_pending", "record_issued_and_resolve", "resolve_approval"}

Call(t) == Head(todo[t])
Conn(t) == Connection(Call(t))

\* The rows a call writes, and those a task does.
RowsOf(call) == {Statements(call)[i] : i \in DOMAIN Statements(call)}
Rows(t) == {t} \X UNION {RowsOf(Script[kind[t]][i]) : i \in DOMAIN Script[kind[t]]}

Process(k) == IF k = "mcp" THEN "mcp" ELSE "server"
ConnectionsOf(p) == IF p = "mcp" THEN {"mcp store", "mcp audit"}
                                 ELSE {"store", "tracker", "audit"}

Running(t) == todo[t] # <<>>

\* "begun" holds no lock yet, "reading" a snapshot that is up to date and
\* "stale" one that is not, "writing" the one write lock of the file.
Transactions == {"none", "begun", "reading", "stale", "writing"}

\* A lock is held only by a task inside a call of its connection, the file has
\* one writer at most, and uncommitted rows belong to it.
TypeOK ==
    /\ kind \in [Tasks -> Kinds \union {"none"}]
    /\ \A t \in Tasks : Running(t) => \E i \in DOMAIN Script[kind[t]] : Script[kind[t]][i] = Call(t)
    /\ stage \in [Tasks -> {"outside", "inside", "missed"}]
    /\ \A t \in Tasks : Len(left[t]) <= 2 /\ (left[t] # <<>> => stage[t] = "inside")
    /\ answer \in [Tasks -> {"none", "ok", "error"}]
    /\ guard \in [Connections -> Tasks \union {NoTask}]
    /\ \A c \in Connections : guard[c] # NoTask =>
           Running(guard[c]) /\ stage[guard[c]] # "outside" /\ Conn(guard[c]) = c
    /\ tx \in [Connections -> Transactions]
    /\ \A c, d \in Connections : tx[c] = "writing" /\ tx[d] = "writing" => c = d
    /\ journal # {} => \E c \in Connections : tx[c] = "writing"
    /\ journal \intersect committed = {}
    /\ crashes \in 0..MaxCrashes

Init ==
    /\ kind = [t \in Tasks |-> "none"]
    /\ todo = [t \in Tasks |-> <<>>]
    /\ stage = [t \in Tasks |-> "outside"]
    /\ left = [t \in Tasks |-> <<>>]
    /\ answer = [t \in Tasks |-> "none"]
    /\ guard = [c \in Connections |-> NoTask]
    /\ tx = [c \in Connections |-> "none"]
    /\ journal = {} /\ committed = {} /\ crashes = 0

-----------------------------------------------------------------------------
\* SQLite: what a statement meets, and what it leaves.

LockedElsewhere(c) == \E d \in Connections \ {c} : tx[d] = "writing"

\* The statement gets the write lock, or has it.
Writable(c) == tx[c] # "stale" /\ ~LockedElsewhere(c)

\* SQLITE_BUSY: at once for a connection with a snapshot, after busy_timeout
\* for one without.
TimesOutNever(c) == FALSE
TimesOut(c) == ~Writable(c)

\* A failed statement has begun the transaction all the same.
Failed(c) == tx' = [tx EXCEPT ![c] = IF @ = "none" THEN "begun" ELSE @]

WroteAutocommit(c, rows) ==
    /\ committed' = committed \union rows
    /\ UNCHANGED <<tx, journal>>
Wrote(c, rows) ==
    /\ tx' = [tx EXCEPT ![c] = "writing"]
    /\ journal' = journal \union rows
    /\ UNCHANGED committed

Selected(c) == tx' = [tx EXCEPT ![c] = IF @ = "begun" THEN "reading" ELSE @]

\* What others committed makes the snapshots of open transactions stale.
Committed(c) ==
    IF tx[c] = "writing"
    THEN /\ committed' = committed \union journal
         /\ journal' = {}
         /\ tx' = [d \in Connections |-> IF d = c THEN "none"
                                         ELSE IF tx[d] = "reading" THEN "stale" ELSE tx[d]]
    ELSE /\ tx' = [tx EXCEPT ![c] = "none"]
         /\ UNCHANGED <<journal, committed>>

-----------------------------------------------------------------------------
\* Tasks.

\* A request or a sweep begins.  One MCP server runs at a time.
Begin(t, k) ==
    /\ kind[t] = "none"
    /\ k = "mcp" => \A u \in Tasks : kind[u] = "mcp" => ~Running(u)
    /\ kind' = [kind EXCEPT ![t] = k]
    /\ todo' = [todo EXCEPT ![t] = Script[k]]
    /\ UNCHANGED <<stage, left, answer, guard, tx, journal, committed, crashes>>

\* async with self._lock; a purge first selects what it may delete.
Enter(t) ==
    /\ Running(t)
    /\ stage[t] = "outside"
    /\ IF Guarded(Call(t))
       THEN guard[Conn(t)] = NoTask /\ guard' = [guard EXCEPT ![Conn(t)] = t]
       ELSE UNCHANGED guard
    /\ stage' = [stage EXCEPT ![t] = "inside"]
    /\ left' = [left EXCEPT ![t] = Statements(Call(t))]
    /\ IF Call(t) = "purge" THEN Selected(Conn(t)) ELSE UNCHANGED tx
    /\ UNCHANGED <<kind, todo, answer, journal, committed, crashes>>

UnlockedNever(t) == guard
Unlocked(t) == [guard EXCEPT ![Conn(t)] = IF @ = t THEN NoTask ELSE @]

\* The call is over: the task goes on with `next`, or answers.
Leave(t, next, how) ==
    /\ todo' = [todo EXCEPT ![t] = next]
    /\ answer' = [answer EXCEPT ![t] = IF next = <<>> THEN how ELSE @]
    /\ stage' = [stage EXCEPT ![t] = "outside"]
    /\ left' = [left EXCEPT ![t] = <<>>]
    /\ guard' = Unlocked(t)
    /\ UNCHANGED <<kind, crashes>>

\* A SELECT, or a purge that finds nothing to delete.
Query(t) ==
    /\ Running(t)
    /\ stage[t] = "inside"
    /\ Statements(Call(t)) = <<>> \/ (Call(t) = "purge" /\ left[t] # <<>>)
    /\ Selected(Conn(t))
    /\ Leave(t, Tail(todo[t]), "ok")
    /\ UNCHANGED <<journal, committed>>

Executing(t) == Running(t) /\ stage[t] = "inside" /\ left[t] # <<>>

Execute(t) ==
    /\ Executing(t)
    /\ Writable(Conn(t))
    /\ Wrote(Conn(t), {<<t, Head(left[t])>>})
    /\ left' = [left EXCEPT ![t] = Tail(@)]
    /\ UNCHANGED <<kind, todo, stage, answer, guard, crashes>>

\* The UPDATE matches no row.  record_issued_and_resolve returns there and
\* then; resolve_approval and try_claim_pending commit first.
ExecuteMiss(t) ==
    /\ Executing(t)
    /\ Call(t) \in Conditional
    /\ left[t] = Statements(Call(t))
    /\ Writable(Conn(t))
    /\ Wrote(Conn(t), {})
    /\ IF Call(t) = "record_issued_and_resolve"
       THEN Leave(t, <<>>, "error")
       ELSE /\ stage' = [stage EXCEPT ![t] = "missed"]
            /\ left' = [left EXCEPT ![t] = <<>>]
            /\ UNCHANGED <<kind, todo, answer, guard, crashes>>

\* The statement raises "database is locked".  The handler answers 500; the
\* sweep survives a failed log, and only that.
ExecuteFails(t) ==
    /\ Executing(t)
    /\ TimesOut(Conn(t))
    /\ Failed(Conn(t))
    /\ Leave(t, IF kind[t] = "sweep" /\ Call(t) = "log" THEN Tail(todo[t]) ELSE <<>>, "error")
    /\ UNCHANGED <<journal, committed>>

Executed(t) == Running(t) /\ stage[t] = "inside" /\ left[t] = <<>> /\ Statements(Call(t)) # <<>>

CommitForgotten(t) ==
    /\ Executed(t)
    /\ UNCHANGED <<tx, journal, committed>>
    /\ Leave(t, Tail(todo[t]), "ok")

Commit(t) ==
    /\ Executed(t)
    /\ Committed(Conn(t))
    /\ Leave(t, Tail(todo[t]), "ok")

\* After a miss a handler answers 409 and the sweep has nothing to log.
CommitMiss(t) ==
    /\ Running(t)
    /\ stage[t] = "missed"
    /\ Committed(Conn(t))
    /\ Leave(t, IF kind[t] = "sweep" THEN <<"purge">> ELSE <<>>, "error")

\* A process dies: its tasks end and SQLite undoes its open transaction.
Crash(p) ==
    /\ crashes < MaxCrashes
    /\ crashes' = crashes + 1
    /\ todo' = [t \in Tasks |-> IF Process(kind[t]) = p THEN <<>> ELSE todo[t]]
    /\ stage' = [t \in Tasks |-> IF Process(kind[t]) = p THEN "outside" ELSE stage[t]]
    /\ left' = [t \in Tasks |-> IF Process(kind[t]) = p THEN <<>> ELSE left[t]]
    /\ guard' = [c \in Connections |-> IF c \in ConnectionsOf(p) THEN NoTask ELSE guard[c]]
    /\ tx' = [c \in Connections |-> IF c \in ConnectionsOf(p) THEN "none" ELSE tx[c]]
    /\ journal' = IF \E c \in ConnectionsOf(p) : tx[c] = "writing" THEN {} ELSE journal
    /\ UNCHANGED <<kind, answer, committed>>

Step(t) ==
    \/ Enter(t)
    \/ Query(t)
    \/ Execute(t)
    \/ ExecuteMiss(t)
    \/ ExecuteFails(t)
    \/ Commit(t)
    \/ CommitMiss(t)

\* Every task has ended.
Done == (\A t \in Tasks : kind[t] # "none" /\ ~Running(t)) /\ UNCHANGED vars

Next ==
    \/ \E t \in Tasks : Step(t) \/ \E k \in Kinds : Begin(t, k)
    \/ \E p \in {"server", "mcp"} : Crash(p)
    \/ Done

Spec == Init /\ [][Next]_vars

-----------------------------------------------------------------------------
\* Whatever crashes, times out or commits on the same connection: the rows a
\* call writes are all there or none is.  A request is never approved without
\* its capsule, nor the history of a thread saved without its tools.
AllOrNothing ==
    \A t \in Tasks :
        /\ <<t, "approved">> \in committed <=> <<t, "capsule">> \in committed
        /\ <<t, "history">> \in committed <=> <<t, "tools">> \in committed

\* What a client was told has happened survives every crash.
AnsweredIsCommitted ==
    \A t \in Tasks :
        answer[t] = "ok" /\ kind[t] # "sweep" => Rows(t) \subseteq committed

\* Nobody waits on everybody: a call can go on, or waits for the lock of its
\* connection, whose holder can.  Not even a transaction that nobody is going
\* to end stops a call for good.
NobodyIsStuck ==
    \A t \in Tasks : Running(t) =>
        \/ ENABLED Step(t)
        \/ /\ stage[t] = "outside"
           /\ guard[Conn(t)] # NoTask
           /\ ENABLED Step(guard[Conn(t)])

-----------------------------------------------------------------------------
\* What the file promises to its callers.

\* The rows of the calls of each kind of task, in the order of the calls.
Effects == [k \in Kinds |-> [i \in DOMAIN Script[k] |-> RowsOf(Script[k][i])]]

\* The sweep goes on past a row it missed or a record it could not write; the
\* logger takes no lock, so that one commit may make several records durable.
Lenient == {"sweep"}
Shared == {RowsOf("log")}

Atomic == INSTANCE AtomicCalls

\* Five connections, their locks, transactions and crashes, and still: to its
\* tasks the file is one on which every call takes effect at once, in the order
\* of the code, and an answer never runs ahead of what is durable.
ImplementsAtomicCalls == Atomic!CallsSpec

-----------------------------------------------------------------------------
\* What a comment of the code says, and the code does not do.

\* sqlite_utils: busy_timeout "makes SQLite retry internally (blocking
\* briefly) instead of failing the operation immediately": so a write fails
\* only behind another writer.
FailsOnlyBehindAWriter ==
    [][\A t \in Tasks : ExecuteFails(t) => LockedElsewhere(Conn(t))]_vars
=============================================================================
