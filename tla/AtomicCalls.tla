---------------------------- MODULE AtomicCalls ----------------------------
(***************************************************************************)
(* What the file promises to those who make calls on it, with no           *)
(* connections, locks, transactions or crashes: the calls of a task take   *)
(* effect in their order, each of them whole and for good, one at a time   *)
(* but for those that may share a commit; and a task is told that all went *)
(* well only when all its calls have taken effect.                         *)
(***************************************************************************)
EXTENDS Naturals

CONSTANTS Tasks,    \* those who make calls
          Effects,  \* for each kind of task the rows of its calls, in their order
          Lenient,  \* kinds of tasks that go on past a call that failed
          Shared    \* calls of several tasks that may take effect together

VARIABLES kind,      \* what each task is
          committed, \* the rows that are in the file
          answer     \* what each task was told

abstractVars == <<kind, committed, answer>>

Positions(t) == IF kind[t] = "none" THEN {} ELSE DOMAIN Effects[kind[t]]
Effect(t, i) == {t} \X Effects[kind[t]][i]

CallsInit ==
    /\ kind = [t \in Tasks |-> "none"]
    /\ committed = {}
    /\ answer = [t \in Tasks |-> "none"]

Start(t, k) ==
    /\ kind[t] = "none"
    /\ kind' = [kind EXCEPT ![t] = k]
    /\ UNCHANGED <<committed, answer>>

\* A task that is not lenient has got to call i when those before have taken effect.
Turn(t, i) ==
    /\ answer[t] = "none"
    /\ \A j \in Positions(t) :
           /\ j >= i => Effect(t, j) \intersect committed = {}
           /\ j < i => kind[t] \in Lenient \/ Effect(t, j) \subseteq committed

TakeEffect(ts, rows) ==
    /\ rows \notin Shared => \A t, u \in ts : t = u
    /\ \A t \in ts : \E i \in Positions(t) : Effects[kind[t]][i] = rows /\ Turn(t, i)
    /\ committed' = committed \union (ts \X rows)

Reply(t, how) ==
    /\ kind[t] # "none" /\ answer[t] = "none"
    /\ how = "ok" /\ kind[t] \notin Lenient =>
           \A i \in Positions(t) : Effect(t, i) \subseteq committed'
    /\ answer' = [answer EXCEPT ![t] = how]

AllEffects == UNION {{Effects[k][i] : i \in DOMAIN Effects[k]} : k \in DOMAIN Effects}

CallsNext ==
    \/ \E t \in Tasks, k \in DOMAIN Effects : Start(t, k)
    \/ /\ \/ UNCHANGED committed
          \/ \E ts \in SUBSET Tasks, rows \in AllEffects : TakeEffect(ts, rows)
       /\ UNCHANGED answer \/ \E t \in Tasks, how \in {"ok", "error"} : Reply(t, how)
       /\ UNCHANGED kind

CallsSpec == CallsInit /\ [][CallsNext]_abstractVars
=============================================================================
