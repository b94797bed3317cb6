------------------------- MODULE ApprovalLifecycle -------------------------
(***************************************************************************)
(* What the approval workflow promises to the operator, with no requests,  *)
(* no sweep, no clock and no restarts: a request for approval is decided   *)
(* once, a capsule comes into being in the very step that approves it, and *)
(* the record of a request may be forgotten only after its decision.       *)
(***************************************************************************)
CONSTANT Pending     \* the identifiers a webhook can give to a request

VARIABLES decision,  \* what has become of each request
          capsules,  \* how many capsules were issued for each request
          kept       \* the requests the store still has a record of

abstractVars == <<decision, capsules, kept>>

Outcomes == {"approved", "rejected", "expired"}

LifecycleTypeOK ==
    /\ decision \in [Pending -> {"none", "open"} \union Outcomes]
    /\ capsules \in [Pending -> {0, 1}]
    /\ kept \subseteq Pending

LifecycleInit ==
    /\ decision = [p \in Pending |-> "none"]
    /\ capsules = [p \in Pending |-> 0]
    /\ kept = {}

Ask(p) ==
    /\ decision[p] = "none"
    /\ decision' = [decision EXCEPT ![p] = "open"]
    /\ kept' = kept \union {p}
    /\ UNCHANGED capsules

Decide(p, outcome) ==
    /\ decision[p] = "open"
    /\ decision' = [decision EXCEPT ![p] = outcome]
    /\ capsules' = IF outcome = "approved" THEN [capsules EXCEPT ![p] = 1]
                                           ELSE capsules
    /\ UNCHANGED kept

Forget(gone) ==
    /\ \A p \in gone : decision[p] \in Outcomes
    /\ kept' = kept \ gone
    /\ UNCHANGED <<decision, capsules>>

LifecycleNext ==
    \/ \E p \in Pending : Ask(p) \/ \E outcome \in Outcomes : Decide(p, outcome)
    \/ \E gone \in SUBSET Pending : Forget(gone)

LifecycleSpec == LifecycleInit /\ [][LifecycleNext]_abstractVars
=============================================================================
