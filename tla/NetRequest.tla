------------------------------ MODULE NetRequest ------------------------------
(***************************************************************************)
(* The net_request tool: the host of the URL must be granted, every        *)
(* address it resolves to must be public, and the connection is pinned to  *)
(* the first of them.  The attempt to connect passes do_open the context   *)
(* twice: as its own keyword argument, which it hands on to the connection *)
(* class, and inside make_conn.  The call of that function is a TypeError, *)
(* which the handler answers as any other failure.                         *)
(*                                                                         *)
(* What follows a connection, reading the body and following redirects,    *)
(* is therefore not reached and not modelled.                              *)
(***************************************************************************)
EXTENDS FiniteSets

CONSTANTS Hosts,       \* host names in URLs
          Granted,     \* allowed_hosts of the capsule
          Addresses,   \* what names resolve to
          Private      \* those that are private, local or reserved

VARIABLES request,    \* the scheme and host asked for
          toolAllowed,
          reachable,  \* whether a server at the host would answer it with 200
          step,
          resolved,   \* what the name resolved to
          pinned,     \* the address the connection is to use
          ok          \* the answer

vars == <<request, toolAllowed, reachable, step, resolved, pinned, ok>>

TypeOK ==
    /\ request \in [scheme : {"https", "http"}, host : Hosts]
    /\ toolAllowed \in BOOLEAN /\ reachable \in BOOLEAN
    /\ step \in {"check", "resolve", "connect", "answered"}
    /\ resolved \in SUBSET Addresses
    /\ pinned \in SUBSET Addresses
    /\ ok \in BOOLEAN

Init ==
    /\ request \in [scheme : {"https", "http"}, host : Hosts]
    /\ toolAllowed \in BOOLEAN /\ reachable \in BOOLEAN
    /\ step = "check"
    /\ resolved = {} /\ pinned = {}
    /\ ok = FALSE

Refuse == step' = "answered" /\ ok' = FALSE

\* The tool, the scheme and the allowlist.
Check ==
    /\ step = "check"
    /\ IF toolAllowed /\ request.scheme = "https" /\ request.host \in Granted
       THEN step' = "resolve" /\ UNCHANGED ok
       ELSE Refuse
    /\ UNCHANGED <<request, toolAllowed, reachable, resolved, pinned>>

\* getaddrinfo, and the check of every address it returned; none at all is an error.
ValidateAndResolve ==
    /\ step = "resolve"
    /\ \E found \in SUBSET Addresses :
           /\ resolved' = found
           /\ \/ /\ found # {} /\ found \intersect Private = {}
                 /\ \E first \in found : pinned' = {first}
                 /\ step' = "connect" /\ UNCHANGED ok
              \/ /\ found = {} \/ found \intersect Private # {}
                 /\ Refuse /\ UNCHANGED pinned
    /\ UNCHANGED <<request, toolAllowed, reachable>>

\* do_open(make_conn, req, context=ctx): "got multiple values for keyword argument
\* 'context'", caught by the outermost except.
Connect ==
    /\ step = "connect"
    /\ Refuse
    /\ UNCHANGED <<request, toolAllowed, reachable, resolved, pinned>>

Next == Check \/ ValidateAndResolve \/ Connect

Spec == Init /\ [][Next]_vars

-----------------------------------------------------------------------------
\* docs/known-limitations.md:59-63 says that the handler implements net_request: then an
\* https request that the capsule permits, to a host whose addresses are all public and
\* that answers, gets its answer.
PermittedIsServed ==
    step = "answered" /\ toolAllowed /\ request.scheme = "https"
        /\ request.host \in Granted
        /\ resolved # {} /\ resolved \intersect Private = {} /\ reachable
    => ok
=============================================================================
