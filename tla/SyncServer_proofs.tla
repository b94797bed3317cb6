-------------------------- MODULE SyncServer_proofs ---------------------------
(***************************************************************************)
(* Proofs about SyncServer, for every set of capsules and of calls, every  *)
(* bound of the clock and any number of lines.                             *)
(***************************************************************************)
EXTENDS SyncServer, TLAPS

-----------------------------------------------------------------------------
\* The inductive invariant.

\* While a line is under a capsule, that capsule is a row not older than what was
\* newest when the line was read, and had not expired then.
UnderNewest ==
    line.step \in {"check", "read"} \/ line.verdict = "allowed" =>
        /\ line.capsule \in DOMAIN row
        /\ \A c \in line.since : row[c] <= row[line.capsule]
        /\ line.at <= line.capsule.expiry

\* What a line has passed, it has passed under the capsule it was loaded.
Passed ==
    /\ line.step = "read" \/ line.verdict = "allowed" => line.call.tool \in line.capsule.tools
    /\ line.verdict = "allowed" => Below(line.call.path, line.capsule)

\* A verdict comes last, and an audit row of this line after it; lines count from one.
VerdictLast ==
    /\ line.step # "idle" => line.number > 0
    /\ line.step \in {"load", "check", "read"} => line.verdict = "none"
    /\ line.step = "record" => line.verdict \in {"allowed", "blocked"}
    /\ line.step \in {"load", "check", "read", "record"} =>
           \A e \in recorded : e.number # line.number

RowSaysVerdict ==
    line.step \in {"send", "idle"} /\ line.verdict \in {"allowed", "blocked"} =>
        \/ line.unrecorded
        \/ /\ \E e \in recorded : e.number = line.number
           /\ \A e \in recorded : e.number = line.number => e.verdict = line.verdict

SyncInv == SyncTypeOK /\ UnderNewest /\ Passed /\ VerdictLast /\ RowSaysVerdict

LEMMA SyncInitInv == SyncInit => SyncInv
<1> SUFFICES ASSUME SyncInit PROVE SyncInv
  OBVIOUS
<1>1. SyncTypeOK
  BY SyncServerAssumption DEF SyncInit, SyncTypeOK, SyncSteps, Verdicts
<1>2. UnderNewest /\ Passed /\ VerdictLast /\ RowSaysVerdict
  BY DEF SyncInit, UnderNewest, Passed, VerdictLast, RowSaysVerdict
<1> QED
  BY <1>1, <1>2 DEF SyncInv
-----------------------------------------------------------------------------
\* The steps.

LEMMA ReadLineInv ==
    ASSUME SyncInv, NEW call \in Asked, ReadLine(call)
    PROVE  SyncInv'
<1>1. /\ SyncTypeOK /\ line.step = "idle" /\ line.number < MaxLines
      /\ line' = [line EXCEPT !.number = @ + 1, !.step = "load", !.call = call,
                              !.verdict = "none", !.since = Newest, !.at = clock,
                              !.unrecorded = FALSE]
      /\ UNCHANGED <<row, clock, recorded>>
  BY DEF ReadLine, SyncInv
<1>2. /\ Newest \subseteq DOMAIN row
      /\ clock \in 0..clock
      /\ line.number + 1 \in 0..MaxLines
  BY <1>1, SyncServerAssumption DEF Newest, SyncTypeOK
<1>3. /\ line'.step = "load" /\ line'.verdict = "none" /\ line'.number = line.number + 1
      /\ line'.number > 0
  BY <1>1, SyncServerAssumption DEF SyncTypeOK
<1>4. \A e \in recorded : e.number # line.number + 1
  BY <1>1 DEF SyncTypeOK
<1>5. SyncTypeOK'
  <2>1. line' \in [number : 0..MaxLines, step : SyncSteps, call : Asked \union {NoCall},
                   capsule : Capsules \union {NoCapsule}, verdict : Verdicts,
                   since : SUBSET DOMAIN row, at : 0..clock, unrecorded : BOOLEAN]
    BY <1>1, <1>2 DEF SyncTypeOK, SyncSteps, Verdicts
  <2>2. recorded \subseteq [number : 1..line'.number, verdict : {"allowed", "blocked"}]
    BY <1>1, <1>3 DEF SyncTypeOK
  <2> QED
    BY <1>1, <2>1, <2>2 DEF SyncTypeOK
<1> QED
  BY <1>1, <1>3, <1>4, <1>5 DEF SyncInv, UnderNewest, Passed, VerdictLast, RowSaysVerdict

LEMMA LoadCapsuleInv ==
    ASSUME SyncInv, LoadCapsule
    PROVE  SyncInv'
<1>1. SyncTypeOK /\ line.step = "load" /\ UNCHANGED <<row, clock, recorded>>
  BY DEF LoadCapsule, SyncInv
<1>2. /\ line.verdict = "none"
      /\ \A e \in recorded : e.number # line.number
  BY <1>1 DEF SyncInv, VerdictLast
<1>3. CASE line' = [line EXCEPT !.step = "record", !.capsule = NoCapsule, !.verdict = "blocked"]
  <2>1. SyncTypeOK'
    BY <1>1, <1>3 DEF SyncTypeOK, SyncSteps, Verdicts
  <2>2. line'.step = "record" /\ line'.verdict = "blocked" /\ line'.number = line.number
    BY <1>1, <1>3 DEF SyncTypeOK
  <2> QED
    BY <1>1, <1>2, <2>1, <2>2 DEF SyncInv, UnderNewest, Passed, VerdictLast, RowSaysVerdict
<1>4. ASSUME NEW c \in Newest, ~IsExpired(c),
             line' = [line EXCEPT !.step = "check", !.capsule = c]
      PROVE  SyncInv'
  <2>1. c \in DOMAIN row /\ c \in Capsules /\ \A d \in DOMAIN row : row[d] <= row[c]
    BY <1>1 DEF Newest, SyncTypeOK
  <2>2. SyncTypeOK'
    BY <1>1, <1>4, <2>1 DEF SyncTypeOK, SyncSteps
  <2>3. /\ line'.step = "check" /\ line'.verdict = "none" /\ line'.number = line.number
        /\ line'.capsule = c /\ line'.since = line.since /\ line'.at = line.at
    BY <1>1, <1>2, <1>4 DEF SyncTypeOK
  <2>4. line.at <= c.expiry
    <3>1. line.at <= clock /\ line.at \in Int /\ clock \in Int
      BY <1>1 DEF SyncTypeOK
    <3>2. c.expiry \in Nat /\ clock <= c.expiry
      BY <1>4, <2>1, <3>1, SyncServerAssumption DEF IsExpired
    <3> QED
      BY <3>1, <3>2
  <2>5. \A d \in line.since : row[d] <= row[c]
    BY <1>1, <2>1 DEF SyncTypeOK
  <2>6. UnderNewest'
    BY <1>1, <2>1, <2>3, <2>4, <2>5 DEF UnderNewest
  <2> QED
    BY <1>1, <1>2, <2>2, <2>3, <2>6 DEF SyncInv, Passed, VerdictLast, RowSaysVerdict
<1>5. \/ line' = [line EXCEPT !.step = "record", !.capsule = NoCapsule, !.verdict = "blocked"]
      \/ \E c \in Newest : ~IsExpired(c) /\ line' = [line EXCEPT !.step = "check", !.capsule = c]
  BY DEF LoadCapsule, Loaded
<1> QED
  BY <1>3, <1>4, <1>5

LEMMA CheckToolInv ==
    ASSUME SyncInv, CheckTool
    PROVE  SyncInv'
<1>1. SyncTypeOK /\ line.step = "check" /\ UNCHANGED <<row, clock, recorded>>
  BY DEF CheckTool, SyncInv
<1>2. /\ line.verdict = "none"
      /\ \A e \in recorded : e.number # line.number
      /\ UnderNewest
  BY <1>1 DEF SyncInv, VerdictLast
<1>3. CASE line' = [line EXCEPT !.step = "record", !.verdict = "blocked"]
  <2>1. SyncTypeOK'
    BY <1>1, <1>3 DEF SyncTypeOK, SyncSteps, Verdicts
  <2>2. line'.step = "record" /\ line'.verdict = "blocked" /\ line'.number = line.number
    BY <1>1, <1>3 DEF SyncTypeOK
  <2> QED
    BY <1>1, <1>2, <2>1, <2>2 DEF SyncInv, UnderNewest, Passed, VerdictLast, RowSaysVerdict
<1>4. CASE line' = [line EXCEPT !.step = "read"] /\ line.call.tool \in line.capsule.tools
  <2>1. SyncTypeOK'
    BY <1>1, <1>4 DEF SyncTypeOK, SyncSteps
  <2>2. /\ line'.step = "read" /\ line'.verdict = "none" /\ line'.number = line.number
        /\ line'.capsule = line.capsule /\ line'.since = line.since /\ line'.at = line.at
        /\ line'.call = line.call
    BY <1>1, <1>2, <1>4 DEF SyncTypeOK
  <2>3. UnderNewest'
    BY <1>1, <1>2, <2>2 DEF UnderNewest
  <2> QED
    BY <1>1, <1>2, <1>4, <2>1, <2>2, <2>3 DEF SyncInv, Passed, VerdictLast, RowSaysVerdict
<1>5. CASE line' = [line EXCEPT !.step = "send", !.verdict = "not implemented"]
  <2>1. SyncTypeOK'
    BY <1>1, <1>5 DEF SyncTypeOK, SyncSteps, Verdicts
  <2>2. /\ line'.step = "send" /\ line'.verdict = "not implemented"
        /\ line'.number = line.number /\ line.number > 0
    BY <1>1, <1>5 DEF SyncTypeOK, SyncInv, VerdictLast
  <2> QED
    BY <2>1, <2>2 DEF SyncInv, UnderNewest, Passed, VerdictLast, RowSaysVerdict
<1> QED
  BY <1>3, <1>4, <1>5 DEF CheckTool

LEMMA ReadFileInv ==
    ASSUME SyncInv, ReadFile
    PROVE  SyncInv'
<1>1. SyncTypeOK /\ line.step = "read" /\ UNCHANGED <<row, clock, recorded>>
  BY DEF ReadFile, SyncInv
<1>2. /\ \A e \in recorded : e.number # line.number
      /\ UnderNewest /\ line.call.tool \in line.capsule.tools
  BY <1>1 DEF SyncInv, VerdictLast, Passed
<1>3. PICK verdict \in {"allowed", "blocked"} :
          /\ line' = [line EXCEPT !.step = "record", !.verdict = verdict]
          /\ verdict = "allowed" => Below(line.call.path, line.capsule)
  BY DEF ReadFile
<1>4. SyncTypeOK'
  BY <1>1, <1>3 DEF SyncTypeOK, SyncSteps, Verdicts
<1>5. /\ line'.step = "record" /\ line'.verdict = verdict /\ line'.number = line.number
      /\ line'.capsule = line.capsule /\ line'.since = line.since /\ line'.at = line.at
      /\ line'.call = line.call
  BY <1>1, <1>3 DEF SyncTypeOK
<1>6. UnderNewest'
  BY <1>1, <1>2, <1>5 DEF UnderNewest
<1>7. Passed'
  BY <1>2, <1>3, <1>5 DEF Passed, Below
<1> QED
  BY <1>1, <1>2, <1>3, <1>4, <1>5, <1>6, <1>7 DEF SyncInv, VerdictLast, RowSaysVerdict

LEMMA LogAuditInv ==
    ASSUME SyncInv, LogAudit
    PROVE  SyncInv'
<1>1. /\ SyncTypeOK /\ line.step = "record" /\ line.verdict \in {"allowed", "blocked"}
      /\ UNCHANGED <<row, clock>>
      /\ UnderNewest /\ Passed
      /\ \A e \in recorded : e.number # line.number
  BY DEF LogAudit, SyncInv, VerdictLast
<1>2. PICK lost \in BOOLEAN :
          /\ line' = [line EXCEPT !.step = "send", !.unrecorded = IF lost THEN TRUE ELSE @]
          /\ recorded' = IF lost THEN recorded
                         ELSE recorded \union {[number |-> line.number, verdict |-> line.verdict]}
  <2>1. CASE Record(line.verdict)
    BY <1>1, <2>1 DEF Record, SyncTypeOK
  <2>2. CASE line' = [line EXCEPT !.step = "send", !.unrecorded = TRUE] /\ UNCHANGED recorded
    BY <2>2
  <2> QED
    BY <2>1, <2>2 DEF LogAudit
<1>3. /\ line'.step = "send" /\ line'.verdict = line.verdict /\ line'.number = line.number
      /\ line'.capsule = line.capsule /\ line'.since = line.since /\ line'.at = line.at
      /\ line'.call = line.call
      /\ lost => line'.unrecorded
  BY <1>1, <1>2 DEF SyncTypeOK
<1>4. line.number \in 1..line.number /\ line.number > 0
  BY <1>1 DEF SyncTypeOK, SyncInv, VerdictLast
<1> DEFINE new == [number |-> line.number, verdict |-> line.verdict]
<1>5. SyncTypeOK'
  <2>1. line' \in [number : 0..MaxLines, step : SyncSteps, call : Asked \union {NoCall},
                   capsule : Capsules \union {NoCapsule}, verdict : Verdicts,
                   since : SUBSET DOMAIN row, at : 0..clock, unrecorded : BOOLEAN]
    BY <1>1, <1>2 DEF SyncTypeOK, SyncSteps
  <2>2. new \in [number : 1..line.number, verdict : {"allowed", "blocked"}]
    BY <1>1, <1>4
  <2>3. recorded' \subseteq [number : 1..line.number, verdict : {"allowed", "blocked"}]
    BY <1>1, <1>2, <2>2 DEF SyncTypeOK
  <2> QED
    BY <1>1, <1>3, <2>1, <2>3 DEF SyncTypeOK
<1>6. UnderNewest' /\ Passed'
  BY <1>1, <1>3 DEF UnderNewest, Passed, Below
<1>7. RowSaysVerdict'
  <2>1. CASE lost
    BY <1>3, <2>1 DEF RowSaysVerdict
  <2>2. CASE ~lost
    <3>1. recorded' = recorded \union {new} /\ new.number = line.number /\ new.verdict = line.verdict
      BY <1>2, <2>2
    <3>2. new \in recorded' /\ \A e \in recorded' : e.number = line.number => e = new
      BY <1>1, <3>1
    <3> QED
      BY <1>3, <3>1, <3>2 DEF RowSaysVerdict
  <2> QED
    BY <2>1, <2>2
<1> QED
  BY <1>3, <1>4, <1>5, <1>6, <1>7 DEF SyncInv, VerdictLast
LEMMA SendInv ==
    ASSUME SyncInv, Send
    PROVE  SyncInv'
<1>1. /\ SyncTypeOK /\ line.step = "send" /\ line' = [line EXCEPT !.step = "idle"]
      /\ UNCHANGED <<row, clock, recorded>>
      /\ UnderNewest /\ Passed /\ RowSaysVerdict
  BY DEF Send, SyncInv
<1>2. SyncTypeOK'
  BY <1>1 DEF SyncTypeOK, SyncSteps
<1>3. /\ line'.step = "idle" /\ line'.verdict = line.verdict /\ line'.number = line.number
      /\ line'.capsule = line.capsule /\ line'.since = line.since /\ line'.at = line.at
      /\ line'.call = line.call /\ line'.unrecorded = line.unrecorded
  BY <1>1 DEF SyncTypeOK
<1>4. UnderNewest' /\ Passed' /\ RowSaysVerdict'
  BY <1>1, <1>3 DEF UnderNewest, Passed, Below, RowSaysVerdict
<1> QED
  BY <1>2, <1>3, <1>4 DEF SyncInv, VerdictLast

LEMMA StopInv ==
    ASSUME SyncInv, Stop
    PROVE  SyncInv'
<1>1. /\ SyncTypeOK
      /\ line' = [line EXCEPT !.step = "idle", !.capsule = NoCapsule, !.verdict = "none"]
      /\ UNCHANGED <<row, clock, recorded>>
  BY DEF Stop, SyncInv
<1>2. SyncTypeOK'
  BY <1>1 DEF SyncTypeOK, SyncSteps, Verdicts
<1>3. line'.step = "idle" /\ line'.verdict = "none"
  BY <1>1 DEF SyncTypeOK
<1> QED
  BY <1>2, <1>3 DEF SyncInv, UnderNewest, Passed, VerdictLast, RowSaysVerdict

\* A new row disturbs no line: those that were there keep their place.
LEMMA ApprovedInv ==
    ASSUME SyncInv, NEW c \in Capsules, Approved(c)
    PROVE  SyncInv'
<1>1. /\ SyncTypeOK /\ c \notin DOMAIN row /\ UNCHANGED <<clock, line, recorded>>
      /\ row' = [d \in DOMAIN row \union {c} |-> IF d = c THEN clock ELSE row[d]]
      /\ UnderNewest
  BY DEF Approved, SyncInv
<1>2. /\ DOMAIN row' = DOMAIN row \union {c}
      /\ \A d \in DOMAIN row : row'[d] = row[d]
      /\ row' \in [DOMAIN row' -> 0..clock]
  BY <1>1, SyncServerAssumption DEF SyncTypeOK
<1>3. SyncTypeOK'
  <2>1. line' \in [number : 0..MaxLines, step : SyncSteps, call : Asked \union {NoCall},
                   capsule : Capsules \union {NoCapsule}, verdict : Verdicts,
                   since : SUBSET DOMAIN row', at : 0..clock, unrecorded : BOOLEAN]
    BY <1>1, <1>2 DEF SyncTypeOK
  <2> QED
    BY <1>1, <1>2, <2>1 DEF SyncTypeOK
<1>4. UnderNewest'
  BY <1>1, <1>2 DEF UnderNewest, SyncTypeOK
<1> QED
  BY <1>1, <1>3, <1>4 DEF SyncInv, Passed, Below, VerdictLast, RowSaysVerdict

LEMMA ClockTickInv ==
    ASSUME SyncInv, ClockTick
    PROVE  SyncInv'
<1>1. /\ SyncTypeOK /\ clock < MaxClock /\ clock' = clock + 1
      /\ UNCHANGED <<row, line, recorded>>
  BY DEF ClockTick, SyncInv
<1>2. clock' \in 0..MaxClock /\ 0..clock \subseteq 0..clock'
  BY <1>1, SyncServerAssumption DEF SyncTypeOK
<1>3. SyncTypeOK'
  <2>1. line' \in [number : 0..MaxLines, step : SyncSteps, call : Asked \union {NoCall},
                   capsule : Capsules \union {NoCapsule}, verdict : Verdicts,
                   since : SUBSET DOMAIN row, at : 0..clock', unrecorded : BOOLEAN]
    BY <1>1, <1>2 DEF SyncTypeOK
  <2>2. row \in [DOMAIN row -> 0..clock']
    BY <1>1, <1>2 DEF SyncTypeOK
  <2> QED
    BY <1>1, <1>2, <2>1, <2>2 DEF SyncTypeOK
<1> QED
  BY <1>1, <1>3 DEF SyncInv, UnderNewest, Passed, Below, VerdictLast, RowSaysVerdict

LEMMA SyncStep == SyncInv /\ [SyncNext]_syncVars => SyncInv'
<1>1. SyncInv /\ UNCHANGED syncVars => SyncInv'
  BY DEF syncVars, SyncInv, SyncTypeOK, UnderNewest, Passed, Below, VerdictLast, RowSaysVerdict
<1> QED
  BY <1>1, ReadLineInv, LoadCapsuleInv, CheckToolInv, ReadFileInv, LogAuditInv, SendInv, StopInv,
     ApprovedInv, ClockTickInv DEF SyncNext

-----------------------------------------------------------------------------
\* The theorems.

\* The invariant the others rest on: what the line at work knows of its row, its verdict
\* and its audit row stays true while rows are replaced around it.
THEOREM SyncInductive == SyncSpec => []SyncInv
  BY SyncInitInv, SyncStep, PTL DEF SyncSpec

\* Rows, the line at work and the audit rows stay what they should be.
THEOREM SyncTypeCorrect == SyncSpec => []SyncTypeOK
<1>1. SyncInv => SyncTypeOK
  BY DEF SyncInv
<1> QED
  BY <1>1, SyncInductive, PTL

\* The sync server sends no text under a capsule that was replaced, or had expired,
\* when the line was read, nor outside the tools and paths of the one it loaded.
THEOREM SyncServesByNewest == SyncSpec => []ServedByNewest
<1>1. SyncInv => ServedByNewest
  BY DEF SyncInv, UnderNewest, Passed, ServedByNewest
<1> QED
  BY <1>1, SyncInductive, PTL

\* The one audit row of an answered call says what its answer said, unless it was not written.
THEOREM SyncAnswersAgree == SyncSpec => []AnswersAgreeWithAudit
<1>1. SyncInv => AnswersAgreeWithAudit
  <2> SUFFICES ASSUME SyncInv, line.step = "idle", line.verdict \in {"allowed", "blocked"},
                      ~line.unrecorded
               PROVE  {e.verdict : e \in {f \in recorded : f.number = line.number}} = {line.verdict}
    BY DEF AnswersAgreeWithAudit
  <2>1. /\ \E e \in recorded : e.number = line.number
        /\ \A e \in recorded : e.number = line.number => e.verdict = line.verdict
    BY DEF SyncInv, RowSaysVerdict
  <2> QED
    BY <2>1
<1> QED
  BY <1>1, SyncInductive, PTL
-----------------------------------------------------------------------------
\* The audit rows, one after the other.

\* A new row is of the line at work, later than all that are there, and says that a call
\* was allowed only where it was, under the capsule it was loaded.
RowIsJustified(e) ==
    /\ e.number = line.number /\ \A f \in recorded : f.number < e.number
    /\ e.verdict = "allowed" =>
           /\ line.capsule \in DOMAIN row /\ \A c \in line.since : row[c] <= row[line.capsule]
           /\ line.at <= line.capsule.expiry
           /\ line.call.tool \in line.capsule.tools /\ Below(line.call.path, line.capsule)

AuditStep == recorded \subseteq recorded' /\ \A e \in recorded' \ recorded : RowIsJustified(e)
AuditOnlyGrows == [][AuditStep]_syncVars

\* No row is changed or taken back, and each line adds one at most, also if the server stops
\* between its row and its answer and another goes on: rows are in the order of the lines,
\* and "allowed" is written only of calls that the newest unexpired row allows (_log_audit).
THEOREM SyncAuditOnlyGrows == SyncSpec => AuditOnlyGrows
<1>1. ASSUME SyncInv, LogAudit
      PROVE  AuditStep
  <2>1. /\ line.step = "record" /\ line.number \in Nat
        /\ \A e \in recorded : e.number # line.number /\ e.number \in Nat /\ e.number <= line.number
    BY <1>1 DEF LogAudit, SyncInv, VerdictLast, SyncTypeOK
  <2>2. \/ recorded' = recorded
        \/ recorded' = recorded \union {[number |-> line.number, verdict |-> line.verdict]}
    BY <1>1 DEF LogAudit, Record
  <2>3. \A f \in recorded : f.number < line.number
    BY <2>1
  <2>4. ASSUME line.verdict = "allowed"
        PROVE  /\ line.capsule \in DOMAIN row /\ \A c \in line.since : row[c] <= row[line.capsule]
               /\ line.at <= line.capsule.expiry
               /\ line.call.tool \in line.capsule.tools /\ Below(line.call.path, line.capsule)
    BY <1>1, <2>4 DEF SyncInv, UnderNewest, Passed
  <2> QED
    BY <2>2, <2>3, <2>4 DEF AuditStep, RowIsJustified
<1>2. ASSUME SyncInv, [SyncNext]_syncVars, ~LogAudit
      PROVE  recorded' = recorded
  BY <1>2 DEF SyncNext, ReadLine, LoadCapsule, CheckTool, ReadFile, Send, Stop, Approved,
              ClockTick, syncVars
<1>3. SyncInv /\ [SyncNext]_syncVars => [AuditStep]_syncVars
  BY <1>1, <1>2 DEF AuditStep
<1> QED
  BY <1>3, SyncInductive, PTL DEF SyncSpec, AuditOnlyGrows
=============================================================================
