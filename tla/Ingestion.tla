------------------------------- MODULE Ingestion ------------------------------
(***************************************************************************)
(* POST /webhook, from the arrival of a delivery to its answer, and the    *)
(* signing of the capsule on the way.  GitHub, or a person, may send a     *)
(* delivery again under the same id, also while the first attempt is at    *)
(* work or after it failed; some requests are not GitHub's.  Requests      *)
(* interleave at their awaits, time passes, and the process may stop at    *)
(* any moment: it then forgets the deliveries it has seen, and leaves the  *)
(* two key files as they are.                                              *)
(*                                                                         *)
(* What the policy decides is a choice here (PathScope, SessionGate), the  *)
(* pending and issued rows are in ApprovalFlow, the session in             *)
(* SessionGate.                                                            *)
(***************************************************************************)
EXTENDS Integers, FiniteSets

CONSTANTS Requests,    \* requests that will arrive
          Deliveries,  \* ids in X-GitHub-Delivery
          DedupTtl,    \* _DEDUP_TTL, in steps of the clock
          MaxTime,     \* the clock stops there
          MaxLives,    \* starts of the process
          MaxKeys,     \* key pairs that can ever be generated
          NoRequest, NoDelivery

ASSUME IngestionAssumption ==
    /\ DedupTtl \in Nat /\ MaxTime \in Nat
    /\ MaxLives \in Nat \ {0} /\ MaxKeys \in Nat \ {0}
    /\ NoRequest \notin Requests /\ NoDelivery \notin Deliveries

VARIABLES method,     \* SIGNING_METHOD, and SIGSTORE_FALLBACK_ENABLED
          request,    \* how far each request is
          seen,       \* _seen_deliveries: id |-> time
          now,
          life,       \* which start of the process this is
          signing,    \* the request that sign is working for, if any
          private,    \* the private key file,
          public,     \* the public key file:
          generated,  \* and how many pairs were made
          broken      \* whether the making of a pair was ever cut short

ingestVars == <<method, request, seen, now, life, signing, private, public, generated, broken>>

\* What a key file holds: a key's number, or one of these.  Partial is a file that is
\* open for writing, or was when its writer stopped: neither program can use it.
Absent == 0
Partial == -1
Keys == 1..MaxKeys
\* Signatures: a key's number, a Sigstore bundle, or none yet.
Bundle == -2
Unsigned == 0

Steps == {"new", "decide", "sign", "make", "save private", "open public",
          "save public", "store", "tell", "over"}
Answers == {"none", "unauthorized", "duplicate", "denied", "pending", "issued",
            "error", "lost"}

RequestStates ==
    [step : Steps, delivery : Deliveries \union {NoDelivery}, at : 0..MaxTime,
     life : 1..MaxLives, signature : Keys \union {Bundle, Unsigned},
     stored : BOOLEAN, answer : Answers]

IngestTypeOK ==
    /\ method \in {"ed25519", "sigstore", "sigstore or ed25519"}
    /\ request \in [Requests -> RequestStates]
    /\ DOMAIN seen \subseteq Deliveries
    /\ seen \in [DOMAIN seen -> 0..now]
    /\ now \in 0..MaxTime
    /\ life \in 1..MaxLives
    /\ signing \in Requests \union {NoRequest}
    /\ private \in Keys \union {Absent, Partial}
    /\ public \in Keys \union {Absent, Partial}
    /\ generated \in 0..MaxKeys
    /\ broken \in BOOLEAN

IngestInit ==
    /\ method \in {"ed25519", "sigstore", "sigstore or ed25519"}
    /\ request = [r \in Requests |->
                    [step |-> "new", delivery |-> NoDelivery, at |-> 0, life |-> 1,
                     signature |-> Unsigned, stored |-> FALSE, answer |-> "none"]]
    /\ seen = [d \in {} |-> 0]
    /\ now = 0 /\ life = 1
    /\ signing = NoRequest
    /\ private = Absent /\ public = Absent
    /\ generated = 0 /\ broken = FALSE

-----------------------------------------------------------------------------
\* sign does not await: while it works, nothing else in the process does.
At(r, step) == request[r].step = step /\ signing \in {NoRequest, r}

Goto(r, step) == request' = [request EXCEPT ![r].step = step]

Answer(r, answer) == request' = [request EXCEPT ![r].step = "over", ![r].answer = answer]

filesVars == <<private, public, generated, broken>>

\* _seen_deliveries without what is too old.
Recent == [d \in {e \in DOMAIN seen : now - seen[e] <= DedupTtl} |-> seen[d]]

\* verify_hmac, then is_duplicate_delivery, which marks a delivery it has not seen;
\* then, with no await in between, the payload is decoded and read, and whatever is
\* wrong with it answered with 400 or 500.  Requests that are too large or have no id
\* are refused the way unsigned ones are.
MarkedUntil(d) ==
    [e \in DOMAIN Recent \union {d} |-> IF e \in DOMAIN Recent THEN Recent[e] ELSE now + DedupTtl]
Marked(d) == [e \in DOMAIN Recent \union {d} |-> IF e \in DOMAIN Recent THEN Recent[e] ELSE now]
MarkBeforeCheck(r, d, genuine) ==
    /\ At(r, "new")
    /\ seen' = Marked(d)
    /\ IF ~genuine THEN Answer(r, "unauthorized")
       ELSE \E req \in {[request[r] EXCEPT !.delivery = d, !.at = now, !.life = life]} :
                request' = [request EXCEPT ![r] =
                    IF d \in DOMAIN Recent THEN [req EXCEPT !.step = "over", !.answer = "duplicate"]
                    ELSE [req EXCEPT !.step = "decide"]]
    /\ UNCHANGED <<method, now, life, signing, filesVars>>
Receive(r, d, genuine) ==
    LET req == [request[r] EXCEPT !.delivery = d, !.at = now, !.life = life]
        Become(state) == request' = [request EXCEPT ![r] = state]
    IN  /\ At(r, "new")
        /\ \/ ~genuine /\ Answer(r, "unauthorized") /\ UNCHANGED seen
           \/ /\ genuine /\ d \in DOMAIN Recent
              /\ Become([req EXCEPT !.step = "over", !.answer = "duplicate"])
              /\ seen' = Recent
           \/ /\ genuine /\ d \notin DOMAIN Recent
              /\ \/ Become([req EXCEPT !.step = "decide"])
                 \/ Become([req EXCEPT !.step = "over", !.answer = "error"])
              /\ seen' = Marked(d)
        /\ UNCHANGED <<method, now, life, signing, filesVars>>

\* The tier is looked up and the text compiled, both with a fallback; then the
\* thread is found and the policy asked: it denies, leaves it to a human, or has a capsule signed.
Decide(r) ==
    /\ At(r, "decide")
    /\ \E next \in {"tell", "store", "sign"} : Goto(r, next)
    /\ UNCHANGED <<method, seen, now, life, signing, filesVars>>

-----------------------------------------------------------------------------
\* CapsuleSigner.sign.

Signed(r, signature) ==
    /\ request' = [request EXCEPT ![r].step = "store", ![r].signature = signature]
    /\ signing' = NoRequest

Raise(r) == Answer(r, "error") /\ signing' = NoRequest

\* SigstoreSigner.sign: the bundle, or the Ed25519 signer where that is allowed.
SignWithSigstore(r) ==
    /\ At(r, "sign") /\ method # "ed25519" /\ signing = NoRequest
    /\ \/ Signed(r, Bundle)
       \/ method = "sigstore" /\ Raise(r)
       \/ /\ method = "sigstore or ed25519"
          /\ signing' = r /\ UNCHANGED request
    /\ UNCHANGED <<method, seen, now, life, filesVars>>

\* _load_signing_key: an existing file is used or refused, a missing one is made.
MakeAnyway(r) ==
    /\ At(r, "sign") /\ (method = "ed25519" \/ signing = r)
    /\ \/ private = Partial /\ Raise(r)
       \/ private # Partial /\ Goto(r, "make") /\ signing' = r
    /\ UNCHANGED <<method, seen, now, life, filesVars>>
LoadSigningKey(r) ==
    /\ At(r, "sign") /\ (method = "ed25519" \/ signing = r)
    /\ \/ private \in Keys /\ Signed(r, private)
       \/ private = Partial /\ Raise(r)
       \/ private = Absent /\ Goto(r, "make") /\ signing' = r
    /\ UNCHANGED <<method, seen, now, life, filesVars>>

\* SigningKey.generate, and the two write_text: each opens its file and then fills it.
GenerateKey(r) ==
    /\ At(r, "make") /\ generated < MaxKeys
    /\ generated' = generated + 1
    /\ private' = Partial
    /\ Goto(r, "save private")
    /\ UNCHANGED <<method, seen, now, life, signing, public, broken>>

SaveOnlyPrivate(r) ==
    /\ At(r, "save private")
    /\ private' = generated
    /\ Signed(r, generated)
    /\ UNCHANGED <<method, seen, now, life, public, generated, broken>>
SavePrivate(r) ==
    /\ At(r, "save private")
    /\ private' = generated
    /\ Goto(r, "open public")
    /\ UNCHANGED <<method, seen, now, life, signing, public, generated, broken>>

OpenPublic(r) ==
    /\ At(r, "open public")
    /\ public' = Partial
    /\ Goto(r, "save public")
    /\ UNCHANGED <<method, seen, now, life, signing, private, generated, broken>>

SavePublic(r) ==
    /\ At(r, "save public")
    /\ public' = generated
    /\ Signed(r, generated)
    /\ UNCHANGED <<method, seen, now, life, private, generated, broken>>

\* One of these calls raises, or the making of the directory before them, and the
\* files stay as they are.
MakingFails(r) ==
    /\ request[r].step \in {"make", "save private", "open public", "save public"}
    /\ broken' = (broken \/ request[r].step # "make")
    /\ Raise(r)
    /\ UNCHANGED <<method, seen, now, life, private, public, generated>>

-----------------------------------------------------------------------------
\* add_pending, or record_capsule, persist and record_issued: the row is there, or
\* one of them raised before it was.
Store(r) ==
    /\ At(r, "store")
    /\ \/ request' = [request EXCEPT ![r].step = "tell", ![r].stored = TRUE]
       \/ Answer(r, "error")
    /\ UNCHANGED <<method, seen, now, life, signing, filesVars>>

\* The comment on the issue, whose failure is ignored, the audit event, whose failure
\* is not, and the answer.
Tell(r) ==
    /\ At(r, "tell")
    /\ \/ Answer(r, IF ~request[r].stored THEN "denied"
                    ELSE IF request[r].signature = Unsigned THEN "pending" ELSE "issued")
       \/ Answer(r, "error")
    /\ UNCHANGED <<method, seen, now, life, signing, filesVars>>

\* The process stops and starts again.
Restart ==
    /\ life < MaxLives
    /\ life' = life + 1
    /\ seen' = [d \in {} |-> 0]
    /\ request' = [r \in Requests |->
                     IF request[r].step \in {"new", "over"} THEN request[r]
                     ELSE [request[r] EXCEPT !.step = "over", !.answer = "lost"]]
    /\ broken' = (broken \/ (signing # NoRequest /\
                     request[signing].step \in {"save private", "open public", "save public"}))
    /\ signing' = NoRequest
    /\ UNCHANGED <<method, now, private, public, generated>>

Tick ==
    /\ now < MaxTime
    /\ now' = now + 1
    /\ UNCHANGED <<method, request, seen, life, signing, filesVars>>

IngestNext ==
    \/ \E r \in Requests :
           \/ \E d \in Deliveries, genuine \in BOOLEAN : Receive(r, d, genuine)
           \/ Decide(r)
           \/ SignWithSigstore(r)
           \/ LoadSigningKey(r)
           \/ GenerateKey(r)
           \/ SavePrivate(r)
           \/ OpenPublic(r)
           \/ SavePublic(r)
           \/ MakingFails(r)
           \/ Store(r)
           \/ Tell(r)
    \/ Restart
    \/ Tick

IngestSpec == IngestInit /\ [][IngestNext]_ingestVars

-----------------------------------------------------------------------------
\* Requests that got past is_duplicate_delivery.
Accepted(r) == request[r].step # "new" /\ request[r].answer \notin {"unauthorized", "duplicate"}

\* Two requests that carry one delivery to one process, the second not later than
\* the lifetime of the mark the first one left.
Repeats(r, s) ==
    /\ request[r].delivery = request[s].delivery
    /\ request[r].life = request[s].life
    /\ request[s].at <= request[r].at /\ request[r].at - request[s].at <= DedupTtl

\* A request is refused as a duplicate exactly if an authentic one for the delivery was
\* let in before, by this process and within the lifetime of a mark: never because of a
\* forged one (webhook.py:221, SEC-04), never twice let in, whatever marks are pruned.
RefusedIffRepeated ==
    /\ \A r \in Requests : request[r].answer = "duplicate" =>
           \E s \in Requests : Accepted(s) /\ Repeats(r, s)
    /\ \A r, s \in Requests : r # s /\ Accepted(r) /\ Accepted(s) =>
           ~Repeats(r, s)

\* There is only ever one key pair: the capsules in force are signed by one key, the
\* private key is that one, and no other is published, through restarts and writes
\* that were cut short.
OneKeyPair ==
    /\ public \in Keys => private = public
    /\ \A r \in Requests : request[r].signature \in Keys => request[r].signature = private

\* A capsule that is stored can be verified (verify_capsule reads the public key file),
\* unless the making of the pair was once cut short: then nothing ever mends it.
IssuedIsVerifiable ==
    \A r \in Requests : request[r].stored /\ ~broken =>
        request[r].signature \in {Unsigned, Bundle, public}
=============================================================================
