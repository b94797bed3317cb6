-------------------------- MODULE ReferenceMonitor --------------------------
(***************************************************************************)
(* What enforcement promises to whoever reads the audit log, with no       *)
(* servers, bindings, locks or crashes: a call is refused, or an attempt   *)
(* on a capsule that covers it is on record before its tool may act; the   *)
(* tool acts once at most, and not after its result is on record; and a    *)
(* call has one result at most, which says that the tool worked only if it *)
(* did.  Any record but that of the attempt may be missing.                *)
(***************************************************************************)
CONSTANTS Calls,     \* the calls of tools
          Capsules,
          ForThread, \* the pairs of a call and a capsule of its thread
          Covers     \* those in which the capsule is genuine and grants the call

VARIABLES effect,    \* what tools have done, as <<call, capsule>>
          audit      \* the audit log, as <<call, capsule, kind of record>>

Trail(q) == {r \in audit : r[1] = q}
HasActed(q) == \E e \in effect : e[1] = q

MonitorInit == effect = {} /\ audit = {}

Block(q, c) ==
    /\ Trail(q) = {} /\ <<q, c>> \in ForThread
    /\ audit' = audit \union {<<q, c, "blocked">>}
    /\ UNCHANGED effect

Attempt(q, c) ==
    /\ Trail(q) = {} /\ <<q, c>> \in Covers
    /\ audit' = audit \union {<<q, c, "attempt">>}
    /\ UNCHANGED effect

\* The attempt is on record, and no result.
UnderWay(q, c) == Trail(q) = {<<q, c, "attempt">>}

Act(q, c) ==
    /\ UnderWay(q, c) /\ ~HasActed(q)
    /\ effect' = effect \union {<<q, c>>}
    /\ UNCHANGED audit

Conclude(q, c, result) ==
    /\ UnderWay(q, c)
    /\ result = "allowed" => <<q, c>> \in effect
    /\ audit' = audit \union {<<q, c, result>>}
    /\ UNCHANGED effect

MonitorNext ==
    \E q \in Calls, c \in Capsules :
        \/ Block(q, c)
        \/ Attempt(q, c)
        \/ Act(q, c)
        \/ \E result \in {"allowed", "rejected", "exception"} : Conclude(q, c, result)

MonitorSpec == MonitorInit /\ [][MonitorNext]_<<effect, audit>>
=============================================================================
