--------------------------- MODULE Ingestion_proofs ---------------------------
(***************************************************************************)
(* Proofs about Ingestion, for every set of requests and of deliveries,    *)
(* every lifetime of a mark and any number of restarts and key pairs.      *)
(***************************************************************************)
EXTENDS Ingestion, TLAPS

-----------------------------------------------------------------------------
\* The inductive invariant.

\* A request has its answer when it is over.
AnsweredWhenOver == \A r \in Requests : request[r].answer = "none" <=> request[r].step # "over"

\* What was let in arrived not after now, at a process not started after this one.
AcceptedBefore ==
    \A r \in Requests : Accepted(r) =>
        request[r].at <= now /\ request[r].life <= life /\ request[r].delivery \in Deliveries

\* Every mark was left by a request that was let in by this process,
MarksAreDeserved ==
    \A d \in DOMAIN seen : \E s \in Requests :
        /\ Accepted(s)
        /\ request[s].delivery = d /\ request[s].life = life /\ request[s].at = seen[d]

\* and each such request leaves a mark for as long as marks live.
MarksAreKept ==
    \A s \in Requests : Accepted(s) /\ request[s].life = life /\ now - request[s].at <= DedupTtl =>
        request[s].delivery \in DOMAIN seen /\ request[s].at <= seen[request[s].delivery]

DedupInv ==
    /\ AnsweredWhenOver /\ AcceptedBefore /\ MarksAreDeserved /\ MarksAreKept
    /\ RefusedIffRepeated

Making == {"make", "save private", "open public", "save public"}
Publishing == signing # NoRequest /\ request[signing].step \in {"open public", "save public"}

\* One request at a time signs, and makes the pair.
OneSigner ==
    /\ \A r \in Requests : request[r].step \in Making => signing = r
    /\ signing # NoRequest => request[signing].step \in Making \union {"sign"}

\* What the key files hold while it does.
FilesFollowMaker ==
    signing # NoRequest =>
        /\ request[signing].step = "make" => private = Absent
        /\ request[signing].step = "save private" => private = Partial /\ generated \in Keys
        /\ request[signing].step \in {"open public", "save public"} =>
               /\ private = generated /\ generated \in Keys /\ public \notin Keys
               /\ \A r \in Requests : request[r].signature \notin Keys

\* A private key is published, or about to be, unless its making was cut short.
Published == ~broken /\ private \in Keys => public = private \/ Publishing

KeyInv == OneSigner /\ FilesFollowMaker /\ OneKeyPair /\ Published

IngestInv == IngestTypeOK /\ DedupInv /\ KeyInv

LEMMA IngestInitInv == IngestInit => IngestInv
<1> SUFFICES ASSUME IngestInit PROVE IngestInv
  OBVIOUS
<1>1. IngestTypeOK
  <2>1. [step |-> "new", delivery |-> NoDelivery, at |-> 0, life |-> 1,
         signature |-> Unsigned, stored |-> FALSE, answer |-> "none"] \in RequestStates
    BY IngestionAssumption DEF RequestStates, Steps, Answers
  <2>2. request \in [Requests -> RequestStates]
    BY <2>1 DEF IngestInit
  <2>3. DOMAIN seen \subseteq Deliveries /\ seen \in [DOMAIN seen -> 0..now]
    BY DEF IngestInit
  <2>4. now \in 0..MaxTime /\ life \in 1..MaxLives /\ generated \in 0..MaxKeys
    <3>1. now = 0 /\ life = 1 /\ generated = 0
      BY DEF IngestInit
    <3> QED
      BY <3>1, IngestionAssumption
  <2>5. /\ private \in Keys \union {Absent, Partial} /\ public \in Keys \union {Absent, Partial}
        /\ signing \in Requests \union {NoRequest} /\ broken \in BOOLEAN
    BY DEF IngestInit
  <2>6. method \in {"ed25519", "sigstore", "sigstore or ed25519"}
    BY DEF IngestInit
  <2> QED
    BY <2>2, <2>3, <2>4, <2>5, <2>6 DEF IngestTypeOK
<1>2. \A r \in Requests : request[r].step = "new" /\ request[r].answer = "none"
                          /\ request[r].signature = Unsigned
  BY DEF IngestInit
<1>3. DedupInv
  BY <1>2 DEF IngestInit, DedupInv, AnsweredWhenOver, AcceptedBefore, MarksAreDeserved, MarksAreKept,
              RefusedIffRepeated, Accepted
<1>4. KeyInv
  BY <1>2 DEF IngestInit, KeyInv, OneSigner, FilesFollowMaker, OneKeyPair, Published, Making, Keys,
              Absent, Unsigned
<1> QED
  BY <1>1, <1>3, <1>4 DEF IngestInv

-----------------------------------------------------------------------------
\* What the steps of a request do to it.

LEMMA RequestNumbers ==
    ASSUME request \in [Requests -> RequestStates], NEW s \in Requests
    PROVE  /\ request[s].at \in 0..MaxTime /\ request[s].life \in 1..MaxLives
           /\ request[s].at \in Int /\ request[s].life \in Int
<1>1. request[s] \in RequestStates
  OBVIOUS
<1>2. request[s].at \in 0..MaxTime /\ request[s].life \in 1..MaxLives
  BY <1>1 DEF RequestStates
<1> QED
  BY <1>2, IngestionAssumption

LEMMA NowType ==
    ASSUME IngestTypeOK
    PROVE  now \in 0..MaxTime /\ now \in Int /\ 0 <= now
<1>1. now \in 0..MaxTime
  BY DEF IngestTypeOK
<1> QED
  BY <1>1, IngestionAssumption

LEMMA GotoType ==
    ASSUME request \in [Requests -> RequestStates], NEW r \in Requests, NEW step \in Steps,
           Goto(r, step)
    PROVE  /\ request' \in [Requests -> RequestStates]
           /\ \A s \in Requests : s # r => request'[s] = request[s]
           /\ request'[r] = [request[r] EXCEPT !.step = step]
           /\ request'[r].step = step
           /\ request'[r].answer = request[r].answer
           /\ request'[r].delivery = request[r].delivery
           /\ request'[r].at = request[r].at /\ request'[r].life = request[r].life
           /\ request'[r].signature = request[r].signature
           /\ request'[r].stored = request[r].stored
  BY DEF Goto, RequestStates

LEMMA AnswerType ==
    ASSUME request \in [Requests -> RequestStates], NEW r \in Requests, NEW answer \in Answers,
           Answer(r, answer)
    PROVE  /\ request' \in [Requests -> RequestStates]
           /\ \A s \in Requests : s # r => request'[s] = request[s]
           /\ request'[r].step = "over"
           /\ request'[r].answer = answer
           /\ request'[r].delivery = request[r].delivery
           /\ request'[r].at = request[r].at /\ request'[r].life = request[r].life
           /\ request'[r].signature = request[r].signature
           /\ request'[r].stored = request[r].stored
  BY DEF Answer, RequestStates, Steps

LEMMA SignedType ==
    ASSUME request \in [Requests -> RequestStates], NEW r \in Requests,
           NEW signature \in Keys \union {Bundle, Unsigned}, Signed(r, signature)
    PROVE  /\ request' \in [Requests -> RequestStates]
           /\ \A s \in Requests : s # r => request'[s] = request[s]
           /\ request'[r].step = "store"
           /\ request'[r].answer = request[r].answer
           /\ request'[r].delivery = request[r].delivery
           /\ request'[r].at = request[r].at /\ request'[r].life = request[r].life
           /\ request'[r].signature = signature
           /\ request'[r].stored = request[r].stored
           /\ signing' = NoRequest
  BY DEF Signed, RequestStates, Steps
-----------------------------------------------------------------------------
\* The steps between the arrival of a request and its answer.

Work(r) ==
    \/ Decide(r) \/ SignWithSigstore(r) \/ LoadSigningKey(r) \/ GenerateKey(r) \/ SavePrivate(r)
    \/ OpenPublic(r) \/ SavePublic(r) \/ MakingFails(r) \/ Store(r) \/ Tell(r)

\* What they all have in common.
Worked(r) ==
    /\ request' \in [Requests -> RequestStates]
    /\ \A s \in Requests : s # r => request'[s] = request[s]
    /\ request'[r].delivery = request[r].delivery
    /\ request'[r].at = request[r].at /\ request'[r].life = request[r].life
    /\ request[r].step \notin {"new", "over"} /\ request'[r].step # "new"
    /\ \/ request'[r].step # "over" /\ request'[r].answer = request[r].answer
       \/ request'[r].step = "over" /\ request'[r].answer \notin {"none", "unauthorized", "duplicate"}
    /\ UNCHANGED <<method, seen, now, life>>

LEMMA StepWords ==
    /\ {"decide", "sign", "make", "save private", "open public", "save public"} \subseteq Steps
    /\ {"store", "tell", "over"} \subseteq Steps
    /\ {"denied", "pending", "issued", "error", "lost", "unauthorized", "duplicate"} \subseteq Answers
  BY DEF Steps, Answers

LEMMA NextKey ==
    ASSUME generated \in 0..MaxKeys, generated < MaxKeys
    PROVE  generated + 1 \in Keys /\ generated + 1 \in 0..MaxKeys
  BY IngestionAssumption DEF Keys

LEMMA WorkType ==
    ASSUME IngestTypeOK, KeyInv, NEW r \in Requests, Work(r)
    PROVE  Worked(r) /\ IngestTypeOK'
<1> USE StepWords
<1>1. request \in [Requests -> RequestStates]
  BY DEF IngestTypeOK
<1>2. ASSUME NEW step \in Steps \ {"new", "over"}, Goto(r, step),
             request[r].step \notin {"new", "over"}, UNCHANGED <<method, seen, now, life>>
      PROVE  Worked(r)
  BY <1>1, <1>2, GotoType DEF Worked
<1>3. ASSUME NEW answer \in Answers \ {"none", "unauthorized", "duplicate"}, Answer(r, answer),
             request[r].step \notin {"new", "over"}, UNCHANGED <<method, seen, now, life>>
      PROVE  Worked(r)
  BY <1>1, <1>3, AnswerType DEF Worked
<1>4. ASSUME NEW signature \in Keys \union {Bundle, Unsigned}, Signed(r, signature),
             request[r].step \notin {"new", "over"}, UNCHANGED <<method, seen, now, life>>
      PROVE  Worked(r) /\ signing' = NoRequest
  BY <1>1, <1>4, SignedType DEF Worked
<1>5. ASSUME Worked(r), signing' \in Requests \union {NoRequest},
             private' \in Keys \union {Absent, Partial}, public' \in Keys \union {Absent, Partial},
             generated' \in 0..MaxKeys, broken' \in BOOLEAN
      PROVE  IngestTypeOK'
  BY <1>5 DEF IngestTypeOK, Worked
<1>6. CASE Decide(r)
  <2>1. Worked(r)
    BY <1>2, <1>6 DEF Decide, At
  <2> QED
    BY <1>5, <1>6, <2>1 DEF Decide, filesVars, IngestTypeOK
<1>7. CASE SignWithSigstore(r)
  <2>1. CASE Signed(r, Bundle)
    BY <1>4, <1>5, <1>7, <2>1 DEF SignWithSigstore, At, filesVars, IngestTypeOK
  <2>2. CASE Raise(r)
    BY <1>3, <1>5, <1>7, <2>2 DEF SignWithSigstore, Raise, At, filesVars, IngestTypeOK
  <2>3. CASE signing' = r /\ UNCHANGED request
    <3>1. Worked(r)
      BY <1>1, <1>7, <2>3 DEF SignWithSigstore, At, Worked
    <3> QED
      BY <1>5, <1>7, <2>3, <3>1 DEF SignWithSigstore, filesVars, IngestTypeOK
  <2> QED
    BY <1>7, <2>1, <2>2, <2>3 DEF SignWithSigstore
<1>8. CASE LoadSigningKey(r)
  <2>1. CASE private \in Keys /\ Signed(r, private)
    BY <1>4, <1>5, <1>8, <2>1 DEF LoadSigningKey, At, filesVars, IngestTypeOK
  <2>2. CASE Raise(r)
    BY <1>3, <1>5, <1>8, <2>2 DEF LoadSigningKey, Raise, At, filesVars, IngestTypeOK
  <2>3. CASE Goto(r, "make") /\ signing' = r
    BY <1>2, <1>5, <1>8, <2>3 DEF LoadSigningKey, At, filesVars, IngestTypeOK
  <2> QED
    BY <1>8, <2>1, <2>2, <2>3 DEF LoadSigningKey
<1>9. CASE GenerateKey(r)
  <2>1. Worked(r)
    BY <1>2, <1>9 DEF GenerateKey, At
  <2>2. generated' \in 0..MaxKeys
    BY <1>9, NextKey DEF GenerateKey, IngestTypeOK
  <2> QED
    BY <1>5, <1>9, <2>1, <2>2 DEF GenerateKey, IngestTypeOK
<1>10. CASE SavePrivate(r)
  <2>1. Worked(r)
    BY <1>2, <1>10 DEF SavePrivate, At
  <2>2. generated \in Keys
    BY <1>10, IngestionAssumption
    DEF SavePrivate, At, KeyInv, OneSigner, FilesFollowMaker, Making
  <2> QED
    BY <1>5, <1>10, <2>1, <2>2 DEF SavePrivate, IngestTypeOK
<1>11. CASE OpenPublic(r)
  <2>1. Worked(r)
    BY <1>2, <1>11 DEF OpenPublic, At
  <2> QED
    BY <1>5, <1>11, <2>1 DEF OpenPublic, IngestTypeOK
<1>12. CASE SavePublic(r)
  <2>1. generated \in Keys
    BY <1>12, IngestionAssumption
    DEF SavePublic, At, KeyInv, OneSigner, FilesFollowMaker, Making
  <2>2. Worked(r) /\ signing' = NoRequest
    BY <1>4, <1>12, <2>1 DEF SavePublic, At
  <2> QED
    BY <1>5, <1>12, <2>1, <2>2 DEF SavePublic, IngestTypeOK
<1>13. CASE MakingFails(r)
  <2>1. Worked(r)
    BY <1>3, <1>13 DEF MakingFails, Raise
  <2> QED
    BY <1>5, <1>13, <2>1 DEF MakingFails, Raise, IngestTypeOK
<1>14. CASE Store(r)
  <2>1. /\ request[r].step = "store"
        /\ UNCHANGED <<method, seen, now, life, signing, private, public, generated, broken>>
    BY <1>14 DEF Store, At, filesVars
  <2>2. CASE request' = [request EXCEPT ![r].step = "tell", ![r].stored = TRUE]
    <3>1. Worked(r)
      BY <1>1, <2>1, <2>2 DEF Worked, RequestStates
    <3> QED
      BY <1>5, <2>1, <3>1 DEF IngestTypeOK
  <2>3. CASE Answer(r, "error")
    BY <1>3, <1>5, <2>1, <2>3 DEF IngestTypeOK
  <2> QED
    BY <1>14, <2>2, <2>3 DEF Store
<1>15. CASE Tell(r)
  <2>1. /\ request[r].step = "tell"
        /\ UNCHANGED <<method, seen, now, life, signing, private, public, generated, broken>>
        /\ \E answer \in {"denied", "pending", "issued", "error"} : Answer(r, answer)
    BY <1>15 DEF Tell, At, filesVars
  <2> QED
    BY <1>3, <1>5, <2>1 DEF IngestTypeOK
<1> QED
  BY <1>6, <1>7, <1>8, <1>9, <1>10, <1>11, <1>12, <1>13, <1>14, <1>15 DEF Work
-----------------------------------------------------------------------------
\* Deliveries.

\* A request is as far as deliveries are concerned what it was before.
Keeps(s) ==
    /\ request'[s].delivery = request[s].delivery
    /\ request'[s].at = request[s].at /\ request'[s].life = request[s].life
    /\ Accepted(s)' <=> Accepted(s)
    /\ request'[s].answer = "duplicate" <=> request[s].answer = "duplicate"
    /\ request'[s].answer = "none" <=> request'[s].step # "over"

LEMMA KeepsDedup ==
    ASSUME IngestTypeOK, DedupInv, \A s \in Requests : Keeps(s), UNCHANGED <<seen, life>>,
           now' \in Int, now' >= now
    PROVE  DedupInv'
<1>1. now \in Int /\ \A s \in Requests : request[s].at \in Int
  BY NowType, RequestNumbers DEF IngestTypeOK
<1>2. AnsweredWhenOver' /\ AcceptedBefore'
  <2>1. AnsweredWhenOver'
    BY DEF Keeps, AnsweredWhenOver
  <2>2. AcceptedBefore'
    BY <1>1 DEF DedupInv, Keeps, AcceptedBefore
  <2> QED
    BY <2>1, <2>2
<1>3. MarksAreDeserved'
  BY DEF DedupInv, Keeps, MarksAreDeserved
<1>4. MarksAreKept'
  <2>1. \A s \in Requests : now' - request[s].at <= DedupTtl => now - request[s].at <= DedupTtl
    BY <1>1, IngestionAssumption
  <2> QED
    BY <2>1 DEF DedupInv, Keeps, MarksAreKept
<1>5. RefusedIffRepeated'
  BY DEF DedupInv, Keeps, RefusedIffRepeated, Repeats
<1> QED
  BY <1>2, <1>3, <1>4, <1>5 DEF DedupInv

LEMMA WorkKeeps ==
    ASSUME DedupInv, NEW r \in Requests, Worked(r), NEW s \in Requests
    PROVE  Keeps(s)
<1>1. request[s].answer = "none" <=> request[s].step # "over"
  BY DEF DedupInv, AnsweredWhenOver
<1>2. CASE s = r
  BY <1>1, <1>2 DEF Worked, Keeps, Accepted
<1>3. CASE s # r
  BY <1>1, <1>3 DEF Worked, Keeps, Accepted
<1> QED
  BY <1>2, <1>3

LEMMA RestartDedup ==
    ASSUME IngestTypeOK, DedupInv, Restart
    PROVE  IngestTypeOK' /\ DedupInv'
<1>1. /\ request \in [Requests -> RequestStates]
      /\ request' = [r \in Requests |->
                        IF request[r].step \in {"new", "over"} THEN request[r]
                        ELSE [request[r] EXCEPT !.step = "over", !.answer = "lost"]]
      /\ DOMAIN seen' = {} /\ seen' = [d \in {} |-> 0] /\ life' = life + 1 /\ now' = now
  BY DEF IngestTypeOK, Restart
<1>2. ASSUME NEW s \in Requests
      PROVE  Keeps(s) /\ request'[s] \in RequestStates
  <2>1. request[s].answer = "none" <=> request[s].step # "over"
    BY DEF DedupInv, AnsweredWhenOver
  <2>2. CASE request[s].step \in {"new", "over"}
    <3>1. request'[s] = request[s]
      BY <1>1, <2>2
    <3> QED
      BY <1>1, <2>1, <3>1 DEF Keeps, Accepted
  <2>3. CASE request[s].step \notin {"new", "over"}
    <3>1. request'[s] = [request[s] EXCEPT !.step = "over", !.answer = "lost"]
      BY <1>1, <2>3
    <3>2. request[s] \in RequestStates
      BY <1>1
    <3>3. /\ request'[s].step = "over" /\ request'[s].answer = "lost"
          /\ request'[s].delivery = request[s].delivery
          /\ request'[s].at = request[s].at /\ request'[s].life = request[s].life
          /\ request'[s] \in RequestStates
      BY <3>1, <3>2 DEF RequestStates, Steps, Answers
    <3> QED
      BY <2>1, <2>3, <3>3 DEF Keeps, Accepted
  <2> QED
    BY <2>2, <2>3
<1>3. life \in 1..MaxLives /\ life + 1 \in 1..MaxLives
  <2>1. life < MaxLives /\ life \in 1..MaxLives
    BY DEF Restart, IngestTypeOK
  <2> QED
    BY <2>1, IngestionAssumption
<1>4. IngestTypeOK'
  <2>1. request' \in [Requests -> RequestStates]
    BY <1>1, <1>2
  <2>2. seen' \in [DOMAIN seen' -> 0..now] /\ DOMAIN seen' \subseteq Deliveries
    BY <1>1
  <2> QED
    BY <1>1, <1>3, <2>1, <2>2 DEF IngestTypeOK, Restart
<1>5. AnsweredWhenOver'
  BY <1>2 DEF Keeps, AnsweredWhenOver
<1>6. \A s \in Requests : request[s].life \in Int
  BY <1>1, RequestNumbers
<1>7. \A s \in Requests : Accepted(s)' =>
          /\ request'[s].at <= now' /\ request'[s].delivery \in Deliveries
          /\ request'[s].life <= life' /\ request'[s].life # life'
  <2>1. \A s \in Requests : Accepted(s)' =>
            request[s].at <= now /\ request[s].life <= life /\ request[s].delivery \in Deliveries
    BY <1>2 DEF DedupInv, Keeps, AcceptedBefore
  <2>2. \A s \in Requests : request[s].life <= life =>
            request[s].life <= life + 1 /\ request[s].life # life + 1
    BY <1>3, <1>6, IngestionAssumption
  <2> QED
    BY <1>1, <1>2, <2>1, <2>2 DEF Keeps
<1>8. AcceptedBefore' /\ MarksAreDeserved' /\ MarksAreKept'
  <2>1. AcceptedBefore'
    BY <1>7 DEF AcceptedBefore
  <2> QED
    BY <1>1, <1>7, <2>1 DEF MarksAreDeserved, MarksAreKept
<1>9. RefusedIffRepeated'
  BY <1>2 DEF DedupInv, Keeps, RefusedIffRepeated, Repeats
<1> QED
  BY <1>4, <1>5, <1>8, <1>9 DEF DedupInv

LEMMA TickDedup ==
    ASSUME IngestTypeOK, DedupInv, Tick
    PROVE  IngestTypeOK' /\ DedupInv'
<1>1. /\ now < MaxTime /\ now' = now + 1
      /\ UNCHANGED <<method, request, seen, life, signing, private, public, generated, broken>>
  BY DEF Tick, filesVars
<1>2. now \in 0..MaxTime /\ MaxTime \in Nat
  BY IngestionAssumption DEF IngestTypeOK
<1>3. now' \in 0..MaxTime /\ 0..now \subseteq 0..now' /\ now' >= now /\ now' \in Int
  BY <1>1, <1>2
<1>4. seen \in [DOMAIN seen -> 0..now']
  BY <1>3 DEF IngestTypeOK
<1>5. IngestTypeOK'
  BY <1>1, <1>3, <1>4 DEF IngestTypeOK
<1>6. \A s \in Requests : Keeps(s)
  BY <1>1 DEF DedupInv, AnsweredWhenOver, Keeps, Accepted
<1> QED
  BY <1>1, <1>3, <1>5, <1>6, KeepsDedup
\* What is pruned, and what a new mark adds.
LEMMA RecentMarks ==
    ASSUME IngestTypeOK, DedupInv
    PROVE  /\ DOMAIN Recent \subseteq DOMAIN seen
           /\ \A e \in DOMAIN Recent : Recent[e] = seen[e] /\ now - seen[e] <= DedupTtl
           /\ Recent \in [DOMAIN Recent -> 0..now]
           /\ \A s \in Requests :
                  Accepted(s) /\ request[s].life = life /\ now - request[s].at <= DedupTtl =>
                      /\ request[s].delivery \in DOMAIN Recent
                      /\ request[s].at <= Recent[request[s].delivery]
<1>1. DOMAIN Recent = {e \in DOMAIN seen : now - seen[e] <= DedupTtl}
  BY DEF Recent
<1>2. \A e \in DOMAIN Recent : Recent[e] = seen[e]
  BY DEF Recent
<1>3. seen \in [DOMAIN seen -> 0..now]
  BY DEF IngestTypeOK
<1>4. Recent \in [DOMAIN Recent -> 0..now]
  BY <1>1, <1>3 DEF Recent
<1>5. ASSUME NEW s \in Requests, Accepted(s), request[s].life = life,
             now - request[s].at <= DedupTtl
      PROVE  /\ request[s].delivery \in DOMAIN Recent
             /\ request[s].at <= Recent[request[s].delivery]
  <2>1. /\ request[s].delivery \in DOMAIN seen
        /\ request[s].at <= seen[request[s].delivery]
    BY <1>5 DEF DedupInv, MarksAreKept
  <2>2. now \in Int /\ request[s].at \in Int
    BY NowType, RequestNumbers DEF IngestTypeOK
  <2>3. seen[request[s].delivery] \in Int
    BY <1>3, <2>1, <2>2
  <2>4. now - seen[request[s].delivery] <= DedupTtl
    BY <1>5, <2>1, <2>2, <2>3, IngestionAssumption
  <2> QED
    BY <1>1, <1>2, <2>1, <2>4
<1> QED
  BY <1>1, <1>2, <1>4, <1>5

LEMMA ReceiveDedup ==
    ASSUME IngestTypeOK, DedupInv,
           NEW r \in Requests, NEW d \in Deliveries, NEW genuine \in BOOLEAN, Receive(r, d, genuine)
    PROVE  IngestTypeOK' /\ DedupInv'
<1>1. /\ request \in [Requests -> RequestStates] /\ request[r].step = "new"
      /\ UNCHANGED <<method, now, life, signing, private, public, generated, broken>>
  BY DEF IngestTypeOK, Receive, At, filesVars
<1>2. /\ now \in Int /\ 0 <= now /\ now \in 0..MaxTime /\ life \in 1..MaxLives
      /\ \A s \in Requests : request[s].at \in Int
  BY <1>1, NowType, RequestNumbers DEF IngestTypeOK
<1>3. request[r].answer = "none" /\ ~Accepted(r)
  BY <1>1 DEF DedupInv, AnsweredWhenOver, Accepted
<1>4. CASE Answer(r, "unauthorized") /\ UNCHANGED seen
  <2>1. "unauthorized" \in Answers
    BY DEF Answers
  <2>2. /\ request' \in [Requests -> RequestStates]
        /\ \A s \in Requests : s # r => request'[s] = request[s]
        /\ request'[r].step = "over" /\ request'[r].answer = "unauthorized"
        /\ request'[r].delivery = request[r].delivery
        /\ request'[r].at = request[r].at /\ request'[r].life = request[r].life
    BY <1>1, <1>4, <2>1, AnswerType
  <2>3. \A s \in Requests : Keeps(s)
    BY <1>3, <2>2 DEF Keeps, Accepted, DedupInv, AnsweredWhenOver
  <2>4. IngestTypeOK'
    BY <1>1, <1>4, <2>2 DEF IngestTypeOK
  <2> QED
    BY <1>1, <1>2, <1>4, <2>3, <2>4, KeepsDedup
<1>5. ASSUME NEW step, NEW answer,
             request' = [request EXCEPT ![r] = [request[r] EXCEPT !.delivery = d, !.at = now,
                                                    !.life = life, !.step = step, !.answer = answer]],
             \/ step = "over" /\ answer = "duplicate" /\ d \in DOMAIN Recent /\ seen' = Recent
             \/ /\ \/ step = "decide" /\ answer = "none"
                   \/ step = "over" /\ answer = "error"
                /\ d \notin DOMAIN Recent /\ seen' = Marked(d)
      PROVE  IngestTypeOK' /\ DedupInv'
  <2> DEFINE req == [request[r] EXCEPT !.delivery = d, !.at = now,
                                       !.life = life, !.step = step, !.answer = answer]
  <2>1. request[r] \in RequestStates /\ step \in Steps /\ answer \in Answers
    BY <1>1, <1>5 DEF Steps, Answers
  <2>2. /\ req \in RequestStates /\ req.delivery = d /\ req.at = now /\ req.life = life
        /\ req.step = step /\ req.answer = answer
    BY <1>2, <2>1 DEF RequestStates
  <2>3. request' = [request EXCEPT ![r] = req]
    BY <1>5
  <2> HIDE DEF req
  <2>4. /\ request' \in [Requests -> RequestStates]
        /\ \A s \in Requests : s # r => request'[s] = request[s] /\ (Accepted(s)' <=> Accepted(s))
        /\ request'[r] = req
    BY <1>1, <2>2, <2>3 DEF Accepted
  <2>5. Accepted(r)' <=> answer # "duplicate"
    BY <1>5, <2>2, <2>4 DEF Accepted
  <2>6. /\ DOMAIN Recent \subseteq DOMAIN seen' /\ DOMAIN seen' \subseteq DOMAIN Recent \union {d}
        /\ \A e \in DOMAIN Recent : seen'[e] = Recent[e]
        /\ answer # "duplicate" => d \in DOMAIN seen' /\ seen'[d] = now
        /\ answer = "duplicate" => DOMAIN seen' = DOMAIN Recent
        /\ seen' \in [DOMAIN seen' -> 0..now]
    <3>1. CASE seen' = Recent /\ answer = "duplicate"
      BY <3>1, RecentMarks
    <3>2. CASE seen' = Marked(d) /\ d \notin DOMAIN Recent
      <4>1. DOMAIN seen' = DOMAIN Recent \union {d}
        BY <3>2 DEF Marked
      <4>2. \A e \in DOMAIN seen' : seen'[e] = IF e \in DOMAIN Recent THEN Recent[e] ELSE now
        BY <3>2 DEF Marked
      <4>3. \A e \in DOMAIN seen' : seen'[e] \in 0..now
        BY <1>2, <4>1, <4>2, RecentMarks
      <4>4. seen' \in [DOMAIN seen' -> 0..now]
        BY <3>2, <4>1, <4>3 DEF Marked
      <4> QED
        BY <1>5, <3>2, <4>1, <4>2, <4>4
    <3> QED
      BY <1>5, <3>1, <3>2
  <2>7. IngestTypeOK'
    <3>1. DOMAIN seen' \subseteq Deliveries
      BY <2>6, RecentMarks DEF IngestTypeOK
    <3> QED
      BY <1>1, <2>4, <2>6, <3>1 DEF IngestTypeOK
  <2>8. AnsweredWhenOver' /\ AcceptedBefore'
    <3>1. AnsweredWhenOver'
      BY <1>5, <2>2, <2>4 DEF DedupInv, AnsweredWhenOver
    <3>2. \A s \in Requests : s # r /\ Accepted(s) =>
              request'[s].at <= now /\ request'[s].life <= life /\ request'[s].delivery \in Deliveries
      BY <2>4 DEF DedupInv, AcceptedBefore
    <3>3. now <= now /\ life <= life
      BY <1>2, IngestionAssumption
    <3> QED
      BY <1>1, <2>2, <2>4, <3>1, <3>2, <3>3 DEF AcceptedBefore
  <2>9. MarksAreDeserved'
    <3>1. ASSUME NEW e \in DOMAIN seen', e \in DOMAIN Recent
          PROVE  \E s \in Requests :
                     /\ Accepted(s)'
                     /\ request'[s].delivery = e /\ request'[s].life = life /\ request'[s].at = seen'[e]
      <4>1. PICK s \in Requests :
                /\ Accepted(s)
                /\ request[s].delivery = e /\ request[s].life = life /\ request[s].at = seen[e]
        BY <3>1, RecentMarks DEF DedupInv, MarksAreDeserved
      <4>2. s # r
        BY <1>3, <4>1
      <4> QED
        BY <2>4, <2>6, <3>1, <4>1, <4>2, RecentMarks
    <3>2. ASSUME NEW e \in DOMAIN seen', e \notin DOMAIN Recent
          PROVE  \E s \in Requests :
                     /\ Accepted(s)'
                     /\ request'[s].delivery = e /\ request'[s].life = life /\ request'[s].at = seen'[e]
      <4>1. e = d /\ answer # "duplicate"
        BY <2>6, <3>2
      <4> QED
        BY <2>2, <2>4, <2>5, <2>6, <4>1
    <3> QED
      BY <1>1, <3>1, <3>2 DEF MarksAreDeserved
  <2>10. MarksAreKept'
    <3>1. ASSUME NEW s \in Requests, Accepted(s)', request'[s].life = life,
                 now - request'[s].at <= DedupTtl
          PROVE  /\ request'[s].delivery \in DOMAIN seen'
                 /\ request'[s].at <= seen'[request'[s].delivery]
      <4>1. CASE s = r
        BY <1>2, <2>2, <2>4, <2>5, <2>6, <3>1, <4>1
      <4>2. CASE s # r
        BY <2>4, <2>6, <3>1, <4>2, RecentMarks
      <4> QED
        BY <4>1, <4>2
    <3> QED
      BY <1>1, <3>1 DEF MarksAreKept
  <2>11. \A s, t \in Requests : s # r /\ t # r => (Repeats(s, t)' <=> Repeats(s, t))
    BY <2>4 DEF Repeats
  <2>12. ASSUME NEW s \in Requests, request'[s].answer = "duplicate"
         PROVE  \E t \in Requests : Accepted(t)' /\ Repeats(s, t)'
    <3>1. CASE s # r
      <4>1. request[s].answer = "duplicate"
        BY <2>4, <2>12, <3>1
      <4>2. PICK t \in Requests : Accepted(t) /\ Repeats(s, t)
        BY <4>1 DEF DedupInv, RefusedIffRepeated
      <4>3. t # r
        BY <1>3, <4>2
      <4> QED
        BY <2>4, <2>11, <3>1, <4>2, <4>3
    <3>2. CASE s = r
      <4>1. d \in DOMAIN Recent
        BY <1>5, <2>2, <2>4, <2>12, <3>2
      <4>2. PICK t \in Requests :
                /\ Accepted(t)
                /\ request[t].delivery = d /\ request[t].life = life /\ request[t].at = seen[d]
        BY <4>1, RecentMarks DEF DedupInv, MarksAreDeserved
      <4>3. t # r /\ request'[t] = request[t] /\ Accepted(t)'
        BY <1>3, <2>4, <4>2
      <4>4. now - seen[d] <= DedupTtl /\ seen[d] <= now
        <5>1. now - seen[d] <= DedupTtl /\ d \in DOMAIN seen
          BY <4>1, RecentMarks
        <5>2. seen[d] \in 0..now
          BY <5>1 DEF IngestTypeOK
        <5> QED
          BY <1>2, <5>1, <5>2
      <4>5. Repeats(s, t)'
        BY <2>2, <2>4, <3>2, <4>2, <4>3, <4>4 DEF Repeats
      <4> QED
        BY <4>3, <4>5
    <3> QED
      BY <3>1, <3>2
  <2>13. ASSUME NEW s \in Requests, s # r, Accepted(s), answer # "duplicate"
         PROVE  ~Repeats(r, s)' /\ ~Repeats(s, r)'
    <3>1. request[s].at <= now /\ request[s].at \in Int
      BY <1>2, <2>13 DEF DedupInv, AcceptedBefore
    <3>2. d \notin DOMAIN Recent
      BY <1>5, <2>13
    <3>3. request[s].delivery = d /\ request[s].life = life => ~(now - request[s].at <= DedupTtl)
      BY <2>13, <3>2, RecentMarks
    <3>4. now <= request[s].at => now - request[s].at <= DedupTtl
      BY <1>2, <3>1, IngestionAssumption
    <3> QED
      BY <2>2, <2>4, <2>13, <3>3, <3>4 DEF Repeats
  <2>14. RefusedIffRepeated'
    <3>1. ASSUME NEW s \in Requests, NEW t \in Requests, s # t, Accepted(s)', Accepted(t)'
          PROVE  ~Repeats(s, t)'
      <4>1. CASE s # r /\ t # r
        BY <2>4, <2>11, <3>1, <4>1 DEF DedupInv, RefusedIffRepeated
      <4>2. CASE s = r
        BY <2>4, <2>5, <2>13, <3>1, <4>2
      <4>3. CASE t = r
        BY <2>4, <2>5, <2>13, <3>1, <4>3
      <4> QED
        BY <4>1, <4>2, <4>3
    <3> QED
      BY <2>12, <3>1 DEF RefusedIffRepeated
  <2> QED
    BY <2>7, <2>8, <2>9, <2>10, <2>14 DEF DedupInv
<1>6. ~(Answer(r, "unauthorized") /\ UNCHANGED seen) =>
          \E step \in {"over", "decide"}, answer \in {"duplicate", "none", "error"} :
             /\ request' = [request EXCEPT ![r] = [request[r] EXCEPT !.delivery = d, !.at = now,
                                                       !.life = life, !.step = step, !.answer = answer]]
             /\ \/ step = "over" /\ answer = "duplicate" /\ d \in DOMAIN Recent /\ seen' = Recent
                \/ /\ \/ step = "decide" /\ answer = "none"
                      \/ step = "over" /\ answer = "error"
                   /\ d \notin DOMAIN Recent /\ seen' = Marked(d)
  <2> DEFINE req == [request[r] EXCEPT !.delivery = d, !.at = now, !.life = life]
             Become(state) == request' = [request EXCEPT ![r] = state]
             Changed(step, answer) == [request[r] EXCEPT !.delivery = d, !.at = now,
                                           !.life = life, !.step = step, !.answer = answer]
  <2>1. request[r] \in RequestStates
    BY <1>1
  <2>2. /\ [req EXCEPT !.step = "over", !.answer = "duplicate"] = Changed("over", "duplicate")
        /\ [req EXCEPT !.step = "over", !.answer = "error"] = Changed("over", "error")
    BY <2>1 DEF RequestStates
  <2>3. [req EXCEPT !.step = "decide"] = Changed("decide", "none")
    BY <1>3, <2>1 DEF RequestStates
  <2> HIDE DEF req
  <2> QED
    BY <2>2, <2>3 DEF Receive, req
<1> QED
  BY <1>4, <1>5, <1>6
-----------------------------------------------------------------------------
\* The key pair.

\* A step of a request that is not signing, and does not begin to.
LEMMA KeysKept ==
    ASSUME KeyInv, UNCHANGED <<signing, private, public, generated, broken>>,
           signing \in Requests \union {NoRequest},
           \A s \in Requests :
               /\ request'[s].signature = request[s].signature
               /\ \/ request'[s].step = request[s].step
                  \/ s # signing /\ request[s].step \notin Making /\ request'[s].step \notin Making
    PROVE  KeyInv'
<1>1. OneSigner'
  BY DEF KeyInv, OneSigner
<1>2. signing # NoRequest => request'[signing].step = request[signing].step
  OBVIOUS
<1>3. FilesFollowMaker' /\ Published'
  BY <1>2 DEF KeyInv, FilesFollowMaker, Published, Publishing
<1>4. OneKeyPair'
  BY DEF KeyInv, OneKeyPair
<1> QED
  BY <1>1, <1>3, <1>4 DEF KeyInv

\* The step of the request that signs: what it leaves alone.
LEMMA SignerAlone ==
    ASSUME IngestTypeOK, KeyInv, NEW r \in Requests, signing \in {NoRequest, r}
    PROVE  \A s \in Requests : s # r => request[s].step \notin Making
  BY IngestionAssumption DEF KeyInv, OneSigner

LEMMA KeyWords ==
    /\ Absent \notin Keys /\ Partial \notin Keys /\ Bundle \notin Keys /\ Unsigned \notin Keys
    /\ Absent # Partial
    /\ "sign" \notin Making /\ "over" \notin Making /\ "store" \notin Making
  BY IngestionAssumption DEF Absent, Partial, Bundle, Unsigned, Keys, Making

\* The signer is done, or fails: no pair is being made any more.
LEMMA SignerLeaves ==
    ASSUME IngestTypeOK, KeyInv, NEW r \in Requests, signing \in {NoRequest, r},
           signing' = NoRequest,
           \A s \in Requests : s # r => request'[s] = request[s],
           request'[r].step \in {"over", "store"}
    PROVE  OneSigner' /\ FilesFollowMaker'
  BY SignerAlone, KeyWords DEF OneSigner, FilesFollowMaker

LEMMA RaiseKeys ==
    ASSUME IngestTypeOK, KeyInv, NEW r \in Requests, signing \in {NoRequest, r}, Raise(r),
           UNCHANGED <<private, public, generated>>, broken' \in BOOLEAN,
           broken' = (broken \/ request[r].step \in {"save private", "open public", "save public"})
    PROVE  KeyInv'
<1>1. /\ \A s \in Requests : s # r => request'[s] = request[s]
      /\ request'[r].step = "over" /\ request'[r].signature = request[r].signature
      /\ signing' = NoRequest
  BY AnswerType, StepWords DEF Raise, IngestTypeOK
<1>2. OneSigner' /\ FilesFollowMaker'
  BY <1>1, SignerLeaves
<1>3. OneKeyPair'
  BY <1>1 DEF KeyInv, OneKeyPair
<1>4. Published'
  BY <1>1, KeyWords DEF KeyInv, Published, Publishing
<1> QED
  BY <1>2, <1>3, <1>4 DEF KeyInv

LEMMA SignedKeys ==
    ASSUME IngestTypeOK, KeyInv, NEW r \in Requests, signing \in {NoRequest, r},
           NEW signature \in Keys \union {Bundle, Unsigned}, Signed(r, signature),
           UNCHANGED <<private, generated, broken>>, signature \in Keys => signature = private,
           \/ public' = public /\ ~Publishing
           \/ public' = private
    PROVE  KeyInv'
<1>1. /\ \A s \in Requests : s # r => request'[s] = request[s]
      /\ request'[r].step = "store" /\ request'[r].signature = signature
      /\ signing' = NoRequest
  BY SignedType DEF IngestTypeOK
<1>2. OneSigner' /\ FilesFollowMaker'
  BY <1>1, SignerLeaves
<1>3. OneKeyPair'
  BY <1>1 DEF KeyInv, OneKeyPair
<1>4. Published'
  BY <1>1 DEF KeyInv, Published
<1> QED
  BY <1>2, <1>3, <1>4 DEF KeyInv

LEMMA LoadSigningKeyKeys ==
    ASSUME IngestTypeOK, KeyInv, NEW r \in Requests, LoadSigningKey(r)
    PROVE  KeyInv'
<1>1. /\ request[r].step = "sign" /\ signing \in {NoRequest, r} /\ r # NoRequest
      /\ UNCHANGED <<private, public, generated, broken>>
      /\ broken \in BOOLEAN
  BY IngestionAssumption DEF LoadSigningKey, At, filesVars, IngestTypeOK
<1>2. ~Publishing
  BY <1>1 DEF Publishing
<1>3. CASE private \in Keys /\ Signed(r, private)
  BY <1>1, <1>2, <1>3, SignedKeys
<1>4. CASE Raise(r)
  BY <1>1, <1>4, RaiseKeys
<1>5. CASE private = Absent /\ Goto(r, "make") /\ signing' = r
  <2>1. /\ \A s \in Requests : s # r => request'[s] = request[s]
        /\ request'[r].step = "make" /\ request'[r].signature = request[r].signature
    BY <1>5, GotoType, StepWords DEF IngestTypeOK
  <2>2. \A s \in Requests : s # r => request[s].step \notin Making
    BY <1>1, SignerAlone
  <2>3. OneSigner' /\ FilesFollowMaker'
    BY <1>1, <1>5, <2>1, <2>2 DEF OneSigner, FilesFollowMaker, Making
  <2>4. OneKeyPair' /\ Published'
    BY <1>1, <1>5, <2>1, KeyWords DEF KeyInv, OneKeyPair, Published
  <2> QED
    BY <2>3, <2>4 DEF KeyInv
<1> QED
  BY <1>3, <1>4, <1>5 DEF LoadSigningKey

LEMMA SignWithSigstoreKeys ==
    ASSUME IngestTypeOK, KeyInv, NEW r \in Requests, SignWithSigstore(r)
    PROVE  KeyInv'
<1>1. /\ request[r].step = "sign" /\ signing = NoRequest /\ r # NoRequest
      /\ UNCHANGED <<private, public, generated, broken>>
      /\ broken \in BOOLEAN
  BY IngestionAssumption DEF SignWithSigstore, At, filesVars, IngestTypeOK
<1>2. ~Publishing
  BY <1>1 DEF Publishing
<1>3. CASE Signed(r, Bundle)
  BY <1>1, <1>2, <1>3, SignedKeys, KeyWords
<1>4. CASE Raise(r)
  BY <1>1, <1>4, RaiseKeys
<1>5. CASE signing' = r /\ UNCHANGED request
  <2>1. OneSigner' /\ FilesFollowMaker'
    <3>1. \A s \in Requests : request[s].step \notin Making
      BY <1>1, SignerAlone, KeyWords
    <3>2. "sign" \notin {"make", "save private", "open public", "save public"}
      OBVIOUS
    <3>3. OneSigner'
      BY <1>1, <1>5, <3>1 DEF OneSigner
    <3> QED
      BY <1>1, <1>5, <3>2, <3>3 DEF FilesFollowMaker
  <2>2. OneKeyPair' /\ Published'
    BY <1>1, <1>2, <1>5 DEF KeyInv, OneKeyPair, Published
  <2> QED
    BY <2>1, <2>2 DEF KeyInv
<1> QED
  BY <1>3, <1>4, <1>5 DEF SignWithSigstore

\* The making of the pair, a file at a time.
LEMMA MakerKeys ==
    ASSUME IngestTypeOK, KeyInv, NEW r \in Requests,
           GenerateKey(r) \/ SavePrivate(r) \/ OpenPublic(r)
    PROVE  KeyInv'
<1>1. /\ request[r].step \in Making /\ signing = r /\ r # NoRequest
      /\ UNCHANGED <<signing, broken>>
  BY IngestionAssumption
  DEF GenerateKey, SavePrivate, OpenPublic, At, KeyInv, OneSigner, Making
<1>2. \A s \in Requests : s # r => request[s].step \notin Making
  BY <1>1, SignerAlone
<1>3. PICK step \in {"save private", "open public", "save public"} : Goto(r, step)
  BY DEF GenerateKey, SavePrivate, OpenPublic
<1>4. /\ \A s \in Requests : s # r => request'[s] = request[s]
      /\ request'[r].step = step
      /\ \A s \in Requests : request'[s].signature = request[s].signature
  BY <1>3, GotoType, StepWords DEF IngestTypeOK
<1>5. OneSigner'
  BY <1>1, <1>2, <1>3, <1>4 DEF OneSigner, Making
<1>6. CASE GenerateKey(r)
  <2>1. /\ private = Absent /\ private' = Partial /\ public' = public
        /\ generated' \in Keys /\ step = "save private"
    BY <1>1, <1>4, <1>6, NextKey, GotoType, StepWords
    DEF GenerateKey, At, KeyInv, FilesFollowMaker, IngestTypeOK
  <2>2. public \notin Keys /\ \A s \in Requests : request[s].signature \notin Keys
    BY <2>1, KeyWords DEF KeyInv, OneKeyPair
  <2>3. OneKeyPair' /\ Published'
    BY <1>4, <2>1, <2>2, KeyWords DEF OneKeyPair, Published
  <2>4. FilesFollowMaker'
    BY <1>1, <1>4, <2>1 DEF FilesFollowMaker
  <2> QED
    BY <1>5, <2>3, <2>4 DEF KeyInv
<1>7. CASE SavePrivate(r)
  <2>1. /\ private = Partial /\ private' = generated /\ generated' = generated
        /\ generated \in Keys /\ public' = public
    BY <1>1, <1>7 DEF SavePrivate, At, KeyInv, FilesFollowMaker
  <2>2. step = "open public"
    BY <1>4, <1>7, GotoType, StepWords DEF SavePrivate, IngestTypeOK
  <2>3. public \notin Keys /\ \A s \in Requests : request[s].signature \notin Keys
    BY <2>1, KeyWords DEF KeyInv, OneKeyPair
  <2>4. OneKeyPair' /\ FilesFollowMaker' /\ Published'
    BY <1>1, <1>4, <2>1, <2>2, <2>3 DEF OneKeyPair, FilesFollowMaker, Published, Publishing
  <2> QED
    BY <1>5, <2>4 DEF KeyInv
<1>8. CASE OpenPublic(r)
  <2>1. /\ private = generated /\ generated \in Keys /\ public' = Partial
        /\ UNCHANGED <<private, generated>>
        /\ \A s \in Requests : request[s].signature \notin Keys
    BY <1>1, <1>8 DEF OpenPublic, At, KeyInv, FilesFollowMaker
  <2>2. step = "save public"
    BY <1>4, <1>8, GotoType, StepWords DEF OpenPublic, IngestTypeOK
  <2>3. OneKeyPair' /\ FilesFollowMaker' /\ Published'
    BY <1>1, <1>4, <2>1, <2>2, KeyWords DEF OneKeyPair, FilesFollowMaker, Published, Publishing
  <2> QED
    BY <1>5, <2>3 DEF KeyInv
<1> QED
  BY <1>6, <1>7, <1>8

LEMMA KeyStep == IngestTypeOK /\ DedupInv /\ KeyInv /\ [IngestNext]_ingestVars => KeyInv'
<1> SUFFICES ASSUME IngestTypeOK, DedupInv, KeyInv, [IngestNext]_ingestVars
             PROVE  KeyInv'
  OBVIOUS
<1>1. /\ signing \in Requests \union {NoRequest} /\ broken \in BOOLEAN
      /\ request \in [Requests -> RequestStates]
  BY DEF IngestTypeOK
<1>2. ASSUME NEW r \in Requests, Decide(r) \/ Store(r) \/ Tell(r)
      PROVE  KeyInv'
  <2>1. /\ request[r].step \in {"decide", "store", "tell"} /\ signing \in {NoRequest, r}
        /\ UNCHANGED <<signing, private, public, generated, broken>>
    BY <1>2 DEF Decide, Store, Tell, At, filesVars
  <2>2. /\ request'[r].signature = request[r].signature
        /\ request'[r].step \in {"tell", "store", "sign", "over"}
        /\ \A s \in Requests : s # r => request'[s] = request[s]
    <3>1. CASE \E step \in {"tell", "store", "sign"} : Goto(r, step)
      BY <1>1, <3>1, GotoType, StepWords
    <3>2. CASE \E answer \in {"denied", "pending", "issued", "error"} : Answer(r, answer)
      BY <1>1, <3>2, AnswerType, StepWords
    <3>3. CASE request' = [request EXCEPT ![r].step = "tell", ![r].stored = TRUE]
      BY <1>1, <3>3 DEF RequestStates
    <3> QED
      BY <1>2, <3>1, <3>2, <3>3 DEF Decide, Store, Tell
  <2>3. signing # r
    BY <2>1, IngestionAssumption DEF KeyInv, OneSigner, Making
  <2> QED
    BY <1>1, <2>1, <2>2, <2>3, KeysKept DEF Making
<1>3. ASSUME NEW r \in Requests, SavePublic(r)
      PROVE  KeyInv'
  <2>1. /\ signing = r /\ request[r].step = "save public" /\ r # NoRequest
        /\ UNCHANGED <<private, generated, broken>> /\ public' = generated /\ Signed(r, generated)
    BY <1>3, IngestionAssumption DEF SavePublic, At, KeyInv, OneSigner, Making
  <2>2. private = generated /\ generated \in Keys
    BY <2>1 DEF KeyInv, FilesFollowMaker
  <2> QED
    BY <2>1, <2>2, SignedKeys
<1>4. ASSUME NEW r \in Requests, MakingFails(r)
      PROVE  KeyInv'
  <2>1. signing = r
    BY <1>4 DEF MakingFails, KeyInv, OneSigner, Making
  <2>2. /\ Raise(r) /\ UNCHANGED <<private, public, generated>>
        /\ broken' = (broken \/ request[r].step \in {"save private", "open public", "save public"})
    BY <1>4 DEF MakingFails
  <2> QED
    BY <1>1, <2>1, <2>2, RaiseKeys
<1>5. ASSUME NEW r \in Requests, NEW d \in Deliveries, NEW genuine \in BOOLEAN, Receive(r, d, genuine)
      PROVE  KeyInv'
  <2>1. /\ request[r].step = "new" /\ signing \in {NoRequest, r}
        /\ UNCHANGED <<signing, private, public, generated, broken>>
    BY <1>5 DEF Receive, At, filesVars
  <2>2. signing # r
    BY <2>1, IngestionAssumption DEF KeyInv, OneSigner, Making
  <2>3. request[r] \in RequestStates
    BY <1>1
  <2>4. /\ request'[r].signature = request[r].signature
        /\ request'[r].step \in {"decide", "over"}
        /\ \A s \in Requests : s # r => request'[s] = request[s]
    <3>1. CASE Answer(r, "unauthorized")
      BY <1>1, <3>1, AnswerType, StepWords
    <3>2. CASE request' = [request EXCEPT ![r] = [request[r] EXCEPT
                   !.delivery = d, !.at = now, !.life = life, !.step = "over", !.answer = "duplicate"]]
      BY <1>1, <2>3, <3>2 DEF RequestStates
    <3>3. CASE request' = [request EXCEPT ![r] = [request[r] EXCEPT
                   !.delivery = d, !.at = now, !.life = life, !.step = "decide"]]
      BY <1>1, <2>3, <3>3 DEF RequestStates
    <3>4. CASE request' = [request EXCEPT ![r] = [request[r] EXCEPT
                   !.delivery = d, !.at = now, !.life = life, !.step = "over", !.answer = "error"]]
      BY <1>1, <2>3, <3>4 DEF RequestStates
    <3> QED
      BY <1>5, <3>1, <3>2, <3>3, <3>4 DEF Receive
  <2> QED
    BY <1>1, <2>1, <2>2, <2>4, KeysKept DEF Making
<1>6. CASE Restart
  <2>1. /\ request' = [r \in Requests |->
                          IF request[r].step \in {"new", "over"} THEN request[r]
                          ELSE [request[r] EXCEPT !.step = "over", !.answer = "lost"]]
        /\ signing' = NoRequest /\ UNCHANGED <<private, public, generated>>
        /\ broken' = (broken \/ (signing # NoRequest /\
               request[signing].step \in {"save private", "open public", "save public"}))
    BY <1>6 DEF Restart
  <2>2. \A s \in Requests : /\ request'[s].signature = request[s].signature
                            /\ request'[s].step \in {"new", "over"}
    <3>1. ASSUME NEW s \in Requests
          PROVE  /\ request'[s].signature = request[s].signature
                 /\ request'[s].step \in {"new", "over"}
      <4>1. request[s] \in RequestStates
        BY <1>1
      <4> QED
        BY <2>1, <4>1 DEF RequestStates
    <3> QED
      BY <3>1
  <2>3. OneSigner' /\ FilesFollowMaker' /\ OneKeyPair'
    BY <2>1, <2>2 DEF KeyInv, OneSigner, FilesFollowMaker, OneKeyPair, Making
  <2>4. Published'
    BY <2>1 DEF KeyInv, Published, Publishing
  <2> QED
    BY <2>3, <2>4 DEF KeyInv
<1>7. CASE Tick \/ UNCHANGED ingestVars
  BY <1>1, <1>7, KeysKept DEF Tick, ingestVars, filesVars
<1> QED
  BY <1>2, <1>3, <1>4, <1>5, <1>6, <1>7, LoadSigningKeyKeys, SignWithSigstoreKeys, MakerKeys
  DEF IngestNext

-----------------------------------------------------------------------------
\* The theorems.

LEMMA IngestStep == IngestInv /\ [IngestNext]_ingestVars => IngestInv'
<1> SUFFICES ASSUME IngestTypeOK, DedupInv, KeyInv, [IngestNext]_ingestVars
             PROVE  IngestTypeOK' /\ DedupInv' /\ KeyInv'
  BY DEF IngestInv
<1>1. KeyInv'
  BY KeyStep
<1>2. ASSUME NEW r \in Requests, Work(r)
      PROVE  IngestTypeOK' /\ DedupInv'
  <2>1. Worked(r) /\ IngestTypeOK'
    BY <1>2, WorkType
  <2>2. \A s \in Requests : Keeps(s)
    BY <2>1, WorkKeeps
  <2>3. now' = now /\ now \in Int /\ now >= now /\ UNCHANGED <<seen, life>>
    BY <2>1, NowType DEF Worked
  <2> QED
    BY <2>1, <2>2, <2>3, KeepsDedup
<1>3. CASE UNCHANGED ingestVars
  <2>1. IngestTypeOK'
    BY <1>3 DEF ingestVars, filesVars, IngestTypeOK
  <2>2. UNCHANGED <<request, seen, life>> /\ now' = now
    BY <1>3 DEF ingestVars
  <2>3. \A s \in Requests : Keeps(s)
    BY <2>2 DEF DedupInv, AnsweredWhenOver, Keeps, Accepted
  <2>4. now' = now /\ now \in Int /\ now >= now /\ UNCHANGED <<seen, life>>
    BY <2>2, NowType
  <2>5. DedupInv'
    BY <2>3, <2>4, KeepsDedup
  <2> QED
    BY <1>1, <2>1, <2>5
<1> QED
  BY <1>1, <1>2, <1>3, ReceiveDedup, RestartDedup, TickDedup DEF IngestNext, Work

\* The invariant the others rest on: marks of deliveries and answers agree, and so do
\* signatures and key files, through restarts and failing writes.
THEOREM IngestInductive == IngestSpec => []IngestInv
  BY IngestInitInv, IngestStep, PTL DEF IngestSpec

\* Requests, marks and key files stay what they should be.
THEOREM IngestTypeCorrect == IngestSpec => []IngestTypeOK
<1>1. IngestInv => IngestTypeOK
  BY DEF IngestInv
<1> QED
  BY <1>1, IngestInductive, PTL

\* However marks are pruned and attempts overlap, a delivery is refused exactly if
\* this process let an authentic one in within the lifetime of a mark.
THEOREM RefusesIffRepeated == IngestSpec => []RefusedIffRepeated
<1>1. IngestInv => RefusedIffRepeated
  BY DEF IngestInv, DedupInv
<1> QED
  BY <1>1, IngestInductive, PTL

\* Through restarts and writes cut short, one key signs everything and it is the one on disk.
THEOREM OnlyOneKeyPair == IngestSpec => []OneKeyPair
<1>1. IngestInv => OneKeyPair
  BY DEF IngestInv, KeyInv
<1> QED
  BY <1>1, IngestInductive, PTL

\* A key signs only once its public half is on disk, as long as no making was cut short.
LEMMA SignedIsPublished ==
    ASSUME KeyInv, ~broken, NEW r \in Requests, request[r].signature \in Keys
    PROVE  request[r].signature = public
<1>1. request[r].signature = private /\ private \in Keys
  BY DEF KeyInv, OneKeyPair
<1>2. ~Publishing
  BY DEF KeyInv, FilesFollowMaker, Publishing
<1> QED
  BY <1>1, <1>2 DEF KeyInv, Published

\* What is stored can be verified with the public key file, unless the making of the
\* pair was once cut short.
THEOREM IssuedCanBeVerified == IngestSpec => []IssuedIsVerifiable
<1>1. IngestInv => IssuedIsVerifiable
  <2> SUFFICES ASSUME IngestInv, NEW r \in Requests, ~broken
               PROVE  request[r].signature \in {Unsigned, Bundle, public}
    BY DEF IssuedIsVerifiable
  <2>1. request[r].signature \in Keys \union {Bundle, Unsigned}
    BY DEF IngestInv, IngestTypeOK, RequestStates
  <2> QED
    BY <2>1, SignedIsPublished DEF IngestInv
<1> QED
  BY <1>1, IngestInductive, PTL
-----------------------------------------------------------------------------
\* One pair for good, or none.

Early == {"new", "decide", "sign"} \union Making

\* A request is signed once, when it leaves its first steps.
UnsignedWhileEarly ==
    \A r \in Requests : request[r].step \in Early => request[r].signature = Unsigned

MadeAtMostOnce == generated = IF private = Absent THEN 0 ELSE 1

\* A making that was cut short left its files, and no other begins.
NeverMended ==
    broken => /\ private # Absent /\ public \notin Keys
              /\ \A r \in Requests : request[r].step \notin Making

PairInv == UnsignedWhileEarly /\ MadeAtMostOnce /\ NeverMended

\* A key on disk and a signature that was given stay what they are.
FinalStep ==
    /\ private \in Keys => private' = private
    /\ public \in Keys => public' = public
    /\ \A r \in Requests :
           request[r].signature # Unsigned => request'[r].signature = request[r].signature
KeysAreFinal == [][FinalStep]_ingestVars

\* A pair is made once, so that no bound on their number is met, and one that was cut
\* short is never published.
OnePairEver == generated <= 1 /\ (broken => public \notin Keys)

\* A request keeps its signature, or gets one as it leaves its first steps.
Signs(s) ==
    \/ /\ request'[s].signature = request[s].signature
       /\ request'[s].step \in Early => request[s].step \in Early
    \/ request[s].step \in Early /\ request'[s].step \notin Early

\* A step that writes no key file starts to make a pair only where none was made.
Quiet ==
    /\ UNCHANGED <<private, public, generated, broken>>
    /\ \A s \in Requests :
           request'[s].step \in Making => request[s].step \in Making \/ private = Absent

MakesPair(r) == GenerateKey(r) \/ SavePrivate(r) \/ OpenPublic(r) \/ SavePublic(r)

LEMMA RequestsSign ==
    ASSUME IngestTypeOK, NEW r \in Requests, Work(r)
    PROVE  /\ \A s \in Requests : Signs(s)
           /\ Quiet \/ MakesPair(r) \/ MakingFails(r)
<1>1. request \in [Requests -> RequestStates]
  BY DEF IngestTypeOK
<1>2. ASSUME NEW step \in Steps, Goto(r, step), step \in Early => request[r].step \in Early
      PROVE  \A s \in Requests : Signs(s)
  <2>1. /\ \A s \in Requests : s # r => request'[s] = request[s]
        /\ request'[r].step = step /\ request'[r].signature = request[r].signature
    BY <1>1, <1>2, GotoType
  <2>2. Signs(r)
    BY <1>2, <2>1 DEF Signs
  <2> QED
    BY <2>1, <2>2 DEF Signs
<1>3. ASSUME NEW step \in Steps, Goto(r, step), UNCHANGED <<private, public, generated, broken>>,
             step \notin Making \/ private = Absent
      PROVE  Quiet
  <2>1. /\ \A s \in Requests : s # r => request'[s] = request[s]
        /\ request'[r].step = step
    BY <1>1, <1>3, GotoType
  <2> QED
    BY <1>3, <2>1 DEF Quiet
<1>4. ASSUME NEW answer \in Answers, Answer(r, answer)
      PROVE  /\ \A s \in Requests : Signs(s)
             /\ UNCHANGED <<private, public, generated, broken>> => Quiet
  BY <1>1, <1>4, AnswerType DEF Signs, Quiet, Early, Making
<1>5. ASSUME NEW signature \in Keys \union {Bundle, Unsigned}, Signed(r, signature),
             request[r].step \in Early
      PROVE  /\ \A s \in Requests : Signs(s)
             /\ UNCHANGED <<private, public, generated, broken>> => Quiet
  BY <1>1, <1>5, SignedType DEF Signs, Quiet, Early, Making
<1>6. CASE Decide(r)
  BY <1>2, <1>3, <1>6, StepWords DEF Decide, At, Early, Making, filesVars
<1>7. CASE SignWithSigstore(r)
  <2>1. CASE Signed(r, Bundle)
    BY <1>5, <1>7, <2>1 DEF SignWithSigstore, At, Early, filesVars
  <2>2. CASE Raise(r)
    BY <1>4, <1>7, <2>2, StepWords DEF SignWithSigstore, Raise, filesVars
  <2>3. CASE UNCHANGED request
    BY <1>7, <2>3 DEF SignWithSigstore, Signs, Quiet, filesVars
  <2> QED
    BY <1>7, <2>1, <2>2, <2>3 DEF SignWithSigstore
<1>8. CASE LoadSigningKey(r)
  <2>1. CASE private \in Keys /\ Signed(r, private)
    BY <1>5, <1>8, <2>1 DEF LoadSigningKey, At, Early, filesVars
  <2>2. CASE Raise(r)
    BY <1>4, <1>8, <2>2, StepWords DEF LoadSigningKey, Raise, filesVars
  <2>3. CASE private = Absent /\ Goto(r, "make")
    BY <1>2, <1>3, <1>8, <2>3, StepWords DEF LoadSigningKey, At, Early, filesVars
  <2> QED
    BY <1>8, <2>1, <2>2, <2>3 DEF LoadSigningKey
<1>9. CASE GenerateKey(r) \/ SavePrivate(r) \/ OpenPublic(r)
  <2>1. PICK step \in {"save private", "open public", "save public"} : Goto(r, step)
    BY <1>9 DEF GenerateKey, SavePrivate, OpenPublic
  <2>2. request[r].step \in Early
    BY <1>9 DEF GenerateKey, SavePrivate, OpenPublic, At, Early, Making
  <2>3. step \in Steps
    BY StepWords
  <2> QED
    BY <1>2, <1>9, <2>1, <2>2, <2>3 DEF MakesPair
<1>10. CASE SavePublic(r)
  <2>1. request[r].step \in Early
    BY <1>10 DEF SavePublic, At, Early, Making
  <2>2. request' = [request EXCEPT ![r].step = "store", ![r].signature = generated]
    BY <1>10 DEF SavePublic, Signed
  <2>3. request'[r].step = "store" /\ \A s \in Requests : s # r => request'[s] = request[s]
    BY <1>1, <2>2 DEF RequestStates
  <2> QED
    BY <1>10, <2>1, <2>3 DEF MakesPair, Signs, Early, Making
<1>11. CASE MakingFails(r)
  BY <1>4, <1>11, StepWords DEF MakingFails, Raise
<1>12. CASE Store(r)
  <2>1. request[r].step = "store" /\ UNCHANGED <<private, public, generated, broken>>
    BY <1>12 DEF Store, At, filesVars
  <2>2. CASE request' = [request EXCEPT ![r].step = "tell", ![r].stored = TRUE]
    <3>1. /\ request'[r].step = "tell" /\ request'[r].signature = request[r].signature
          /\ \A s \in Requests : s # r => request'[s] = request[s]
      BY <1>1, <2>2 DEF RequestStates
    <3> QED
      BY <2>1, <3>1 DEF Signs, Quiet, Early, Making
  <2>3. CASE Answer(r, "error")
    BY <1>4, <2>1, <2>3, StepWords
  <2> QED
    BY <1>12, <2>2, <2>3 DEF Store
<1>13. CASE Tell(r)
  <2>1. /\ UNCHANGED <<private, public, generated, broken>>
        /\ \E answer \in {"denied", "pending", "issued", "error"} : Answer(r, answer)
    BY <1>13 DEF Tell, filesVars
  <2> QED
    BY <1>4, <2>1, StepWords
<1> QED
  BY <1>6, <1>7, <1>8, <1>9, <1>10, <1>11, <1>12, <1>13 DEF Work

LEMMA ReceiveSigns ==
    ASSUME IngestTypeOK, NEW r \in Requests, NEW d \in Deliveries, NEW genuine \in BOOLEAN,
           Receive(r, d, genuine)
    PROVE  (\A s \in Requests : Signs(s)) /\ Quiet
<1>1. /\ request \in [Requests -> RequestStates] /\ request[r] \in RequestStates
      /\ request[r].step = "new" /\ UNCHANGED <<private, public, generated, broken>>
  BY DEF IngestTypeOK, Receive, At, filesVars
<1>2. /\ request'[r].signature = request[r].signature
      /\ request'[r].step \in {"decide", "over"}
      /\ \A s \in Requests : s # r => request'[s] = request[s]
  <2>1. CASE Answer(r, "unauthorized")
    BY <1>1, <2>1, AnswerType, StepWords
  <2>2. CASE request' = [request EXCEPT ![r] = [request[r] EXCEPT
                 !.delivery = d, !.at = now, !.life = life, !.step = "over", !.answer = "duplicate"]]
    BY <1>1, <2>2 DEF RequestStates
  <2>3. CASE request' = [request EXCEPT ![r] = [request[r] EXCEPT
                 !.delivery = d, !.at = now, !.life = life, !.step = "decide"]]
    BY <1>1, <2>3 DEF RequestStates
  <2>4. CASE request' = [request EXCEPT ![r] = [request[r] EXCEPT
                 !.delivery = d, !.at = now, !.life = life, !.step = "over", !.answer = "error"]]
    BY <1>1, <2>4 DEF RequestStates
  <2> QED
    BY <2>1, <2>2, <2>3, <2>4 DEF Receive
<1> QED
  BY <1>1, <1>2 DEF Signs, Quiet, Early, Making

LEMMA RestartSigns ==
    ASSUME IngestTypeOK, Restart
    PROVE  /\ \A s \in Requests : Signs(s)
           /\ \A s \in Requests : request'[s].step \notin Making
<1>1. /\ request \in [Requests -> RequestStates]
      /\ request' = [r \in Requests |->
                        IF request[r].step \in {"new", "over"} THEN request[r]
                        ELSE [request[r] EXCEPT !.step = "over", !.answer = "lost"]]
  BY DEF IngestTypeOK, Restart
<1>2. ASSUME NEW s \in Requests
      PROVE  Signs(s) /\ request'[s].step \notin Making
  <2>1. request[s] \in RequestStates
    BY <1>1
  <2>2. /\ request'[s].signature = request[s].signature
        /\ request'[s].step = request[s].step \/ request'[s].step = "over"
        /\ request'[s].step \in {"new", "over"}
    BY <1>1, <2>1 DEF RequestStates
  <2> QED
    BY <2>2 DEF Signs, Early, Making
<1> QED
  BY <1>2

\* A request's signature is given once.
LEMMA SignedForGood ==
    ASSUME UnsignedWhileEarly, \A s \in Requests : Signs(s)
    PROVE  /\ UnsignedWhileEarly'
           /\ \A r \in Requests : request[r].signature # Unsigned =>
                  request'[r].signature = request[r].signature
  BY DEF UnsignedWhileEarly, Signs

\* What the key files hold after a step.
FilesAfter ==
    /\ MadeAtMostOnce' /\ NeverMended'
    /\ private \in Keys => private' = private
    /\ public \in Keys => public' = public

LEMMA QuietFiles ==
    ASSUME PairInv, Quiet
    PROVE  FilesAfter
  BY DEF PairInv, MadeAtMostOnce, NeverMended, Quiet, FilesAfter

LEMMA MakerFiles ==
    ASSUME IngestTypeOK, KeyInv, PairInv, NEW r \in Requests, MakesPair(r)
    PROVE  FilesAfter
<1>1. /\ request[r].step \in Making /\ signing = r /\ r # NoRequest
      /\ broken' = broken /\ broken \in BOOLEAN
  BY IngestionAssumption
  DEF MakesPair, GenerateKey, SavePrivate, OpenPublic, SavePublic, At, KeyInv, OneSigner, Making,
      IngestTypeOK
<1>2. ~broken'
  BY <1>1 DEF PairInv, NeverMended
<1>3. CASE GenerateKey(r)
  <2>1. private = Absent /\ private' = Partial /\ public' = public /\ generated' = generated + 1
    BY <1>1, <1>3 DEF GenerateKey, At, KeyInv, FilesFollowMaker
  <2>2. generated' = 1
    BY <2>1 DEF PairInv, MadeAtMostOnce
  <2> QED
    BY <1>2, <2>1, <2>2, KeyWords DEF FilesAfter, MadeAtMostOnce, NeverMended, Absent, Partial
<1>4. CASE SavePrivate(r)
  <2>1. /\ private = Partial /\ private' = generated /\ generated' = generated
        /\ generated \in Keys /\ public' = public
    BY <1>1, <1>4 DEF SavePrivate, At, KeyInv, FilesFollowMaker
  <2> QED
    BY <1>2, <2>1, KeyWords DEF FilesAfter, PairInv, MadeAtMostOnce, NeverMended, Absent, Partial
<1>5. CASE OpenPublic(r) \/ SavePublic(r)
  <2>1. /\ public \notin Keys /\ UNCHANGED <<private, generated>>
    BY <1>1, <1>5 DEF OpenPublic, SavePublic, At, KeyInv, FilesFollowMaker
  <2> QED
    BY <1>2, <2>1 DEF FilesAfter, PairInv, MadeAtMostOnce, NeverMended
<1> QED
  BY <1>3, <1>4, <1>5 DEF MakesPair

\* A making that is cut short, by a failure or by the end of the process.
LEMMA CutShortFiles ==
    ASSUME KeyInv, PairInv, broken \in BOOLEAN, UNCHANGED <<private, public, generated>>,
           \A s \in Requests : request'[s].step \notin Making,
           broken' => broken \/ (signing # NoRequest /\
               request[signing].step \in {"save private", "open public", "save public"})
    PROVE  FilesAfter
<1>1. CASE ~broken'
  BY <1>1 DEF FilesAfter, PairInv, MadeAtMostOnce, NeverMended
<1>2. CASE broken
  BY <1>2 DEF FilesAfter, PairInv, MadeAtMostOnce, NeverMended
<1>3. CASE /\ signing # NoRequest
           /\ request[signing].step \in {"save private", "open public", "save public"}
  <2>1. private # Absent
    BY <1>3, KeyWords DEF KeyInv, FilesFollowMaker
  <2>2. public \notin Keys
    BY <1>3, KeyWords DEF KeyInv, FilesFollowMaker, OneKeyPair
  <2> QED
    BY <2>1, <2>2 DEF FilesAfter, PairInv, MadeAtMostOnce, NeverMended
<1> QED
  BY <1>1, <1>2, <1>3

LEMMA PairStep ==
    ASSUME IngestInv, PairInv, [IngestNext]_ingestVars
    PROVE  PairInv' /\ FinalStep
<1>1. IngestTypeOK /\ KeyInv /\ broken \in BOOLEAN
  BY DEF IngestInv, IngestTypeOK
<1>2. (\A s \in Requests : Signs(s)) /\ FilesAfter
  <2>1. ASSUME NEW r \in Requests, Work(r)
        PROVE  (\A s \in Requests : Signs(s)) /\ FilesAfter
    <3>1. ASSUME MakingFails(r)
          PROVE  FilesAfter
      <4>1. signing = r /\ request[r].step \in Making /\ r # NoRequest
        BY <1>1, <3>1, IngestionAssumption DEF MakingFails, KeyInv, OneSigner, Making
      <4>2. \A s \in Requests : s # r => request[s].step \notin Making
        BY <1>1, <4>1 DEF KeyInv, OneSigner
      <4>3. /\ \A s \in Requests : s # r => request'[s] = request[s]
            /\ request'[r].step = "over"
        BY <1>1, <3>1, AnswerType, StepWords DEF MakingFails, Raise, IngestTypeOK
      <4>4. \A s \in Requests : request'[s].step \notin Making
        BY <4>2, <4>3 DEF Making
      <4>5. /\ UNCHANGED <<private, public, generated>>
            /\ broken' => broken \/ request[r].step \in {"save private", "open public", "save public"}
        BY <3>1 DEF MakingFails
      <4> QED
        BY <1>1, <4>1, <4>4, <4>5, CutShortFiles
    <3> QED
      BY <1>1, <2>1, <3>1, RequestsSign, QuietFiles, MakerFiles
  <2>2. ASSUME NEW r \in Requests, NEW d \in Deliveries, NEW genuine \in BOOLEAN,
               Receive(r, d, genuine)
        PROVE  (\A s \in Requests : Signs(s)) /\ FilesAfter
    BY <1>1, <2>2, ReceiveSigns, QuietFiles
  <2>3. CASE Restart
    <3>1. /\ UNCHANGED <<private, public, generated>>
          /\ broken' => broken \/ (signing # NoRequest /\
                 request[signing].step \in {"save private", "open public", "save public"})
      BY <2>3 DEF Restart
    <3> QED
      BY <1>1, <2>3, <3>1, RestartSigns, CutShortFiles
  <2>4. CASE Tick \/ UNCHANGED ingestVars
    <3>1. UNCHANGED <<request, private, public, generated, broken>>
      BY <2>4 DEF Tick, ingestVars, filesVars
    <3>2. (\A s \in Requests : Signs(s)) /\ Quiet
      BY <3>1 DEF Signs, Quiet
    <3> QED
      BY <3>2, QuietFiles
  <2> QED
    BY <2>1, <2>2, <2>3, <2>4 DEF IngestNext, Work
<1>3. /\ UnsignedWhileEarly'
      /\ \A r \in Requests : request[r].signature # Unsigned =>
             request'[r].signature = request[r].signature
  BY <1>2, SignedForGood DEF PairInv
<1>4. PairInv'
  BY <1>2, <1>3 DEF PairInv, FilesAfter
<1>5. FinalStep
  BY <1>2, <1>3 DEF FilesAfter, FinalStep
<1> QED
  BY <1>4, <1>5

LEMMA PairInitInv == IngestInit => PairInv
<1> SUFFICES ASSUME IngestInit PROVE PairInv
  OBVIOUS
<1>1. \A r \in Requests : request[r].signature = Unsigned
  BY DEF IngestInit
<1>2. UnsignedWhileEarly
  BY <1>1 DEF UnsignedWhileEarly
<1>3. MadeAtMostOnce /\ NeverMended
  BY DEF IngestInit, MadeAtMostOnce, NeverMended
<1> QED
  BY <1>2, <1>3 DEF PairInv

LEMMA PairInductive == IngestSpec => [](IngestInv /\ PairInv)
<1>1. IngestInit => IngestInv /\ PairInv
  BY IngestInitInv, PairInitInv
<1>2. IngestInv /\ PairInv /\ [IngestNext]_ingestVars => (IngestInv /\ PairInv)'
  BY IngestStep, PairStep
<1> QED
  BY <1>1, <1>2, PTL DEF IngestSpec

\* However requests overlap, writes fail and the process starts again, sign makes a pair at
\* most once in the life of the two files, and one whose making was cut short stays
\* unpublished: nothing mends it, and nothing replaces it (signer.py).
THEOREM OnePairForGood == IngestSpec => []OnePairEver
<1>1. PairInv => OnePairEver
  BY DEF PairInv, MadeAtMostOnce, NeverMended, OnePairEver
<1> QED
  BY <1>1, PairInductive, PTL

\* No step overwrites a key that is on disk or a signature that was given: a capsule that
\* could be verified once always can.
THEOREM KeysStayAsTheyAre == IngestSpec => KeysAreFinal
<1>1. IngestInv /\ PairInv /\ [IngestNext]_ingestVars => [FinalStep]_ingestVars
  BY PairStep
<1> QED
  BY <1>1, PairInductive, PTL DEF IngestSpec, KeysAreFinal
=============================================================================
