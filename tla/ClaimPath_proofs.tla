--------------------------- MODULE ClaimPath_proofs ---------------------------
(***************************************************************************)
(* What holds of a claim's way through the services for any number of      *)
(* requests, workers, keys and incidents: no claim is paid out without     *)
(* being funded, none becomes eligible without an attestation, and none    *)
(* ends in the database other than it ended on the ledger.  Each part has  *)
(* one invariant that says what every request or worker knows at the step  *)
(* it is at; the three parts share nothing but the claim.                  *)
(***************************************************************************)
EXTENDS IssuanceFunding, RiskEvaluation, ClaimClosing, TLAPS

-----------------------------------------------------------------------------
(* Risk evaluation and attestation.                                        *)

PublishedPcs == {"settle", "activate"}
IndexedPcs == {"read", "publish"} \cup PublishedPcs
EligiblePcs == {"load", "sign", "begin", "register", "submitted", "reconcile"} \cup IndexedPcs
TrustedPcs == {"continue", "complete"} \cup EligiblePcs
WorkerPcs == {"idle", "prepare", "find", "evaluate", "commit", "fail"} \cup TrustedPcs

AnalysisRow == [state : {"DRAFT", "DATA_PENDING", "ANALYZED", "ELIGIBLE", "REVIEW", "REJECTED", "CONTROLLED"},
                version : Nat]
OperationStates == {"NONE", "QUEUED", "RUNNING", "RETRYABLE", "FAILED", "COMPLETED"}
OperationRow == [lapsed : BOOLEAN, attempts : Nat, status : OperationStates]
Decisions == {"none", "ELIGIBLE", "REVIEW", "INELIGIBLE"}
AttestationStates == {"NONE", "PENDING_REGISTRATION", "ACTIVE"}
JournalStates == {"NONE", "PREPARED", "SUBMITTED", "RECONCILED"}
Registration == [status : {"absent", "active", "revoked"}, inflight : BOOLEAN, indexed : BOOLEAN]

NoAnalysis == CHOOSE o \in Analyses : TRUE
Evaluator == [pc : WorkerPcs, op : Analyses \cup {NoAnalysis}, version : Nat, attempt : Nat,
              decision : Decisions, seen : {"none"} \cup AttestationStates,
              fresh : BOOLEAN, retry : BOOLEAN]

(* What a worker knows of its operation where it is.                       *)
WorkerFits(v) ==
  /\ v.pc # "idle" => v.op \in Analyses
  /\ v.pc = "commit" => v.decision # "none"
  /\ v.pc \in TrustedPcs => v.decision # "none" /\ evaluations[v.op] = v.decision
  /\ v.pc \in EligiblePcs => v.decision = "ELIGIBLE"
  /\ v.pc \in IndexedPcs => registry[v.op].indexed
  /\ v.pc \in PublishedPcs => attestations[v.op] = "ACTIVE"

WorkersFit == evaluators \in [Evaluators -> Evaluator] /\ \A w \in Evaluators : WorkerFits(evaluators[w])

RiskTyped ==
  /\ aged \in BOOLEAN /\ blocked \in BOOLEAN
  /\ analysis \in AnalysisRow /\ operations \in [Analyses -> OperationRow]
  /\ evaluations \in [Analyses -> Decisions] /\ attestations \in [Analyses -> AttestationStates]
  /\ journal \in [Analyses -> JournalStates] /\ registry \in [Analyses -> Registration]
  /\ riskFaults \in Nat

RegistryFits == \A o \in Analyses : registry[o].indexed => registry[o].status # "absent"

(* An analysis that may make its claim eligible.                           *)
Attested(o) == evaluations[o] = "ELIGIBLE" /\ attestations[o] = "ACTIVE" /\ registry[o].indexed

EligibleFits == analysis.state \in {"ELIGIBLE", "CONTROLLED"} => \E o \in Analyses : Attested(o)

RiskInv == RiskTyped /\ RegistryFits /\ EligibleFits /\ WorkersFit

(* What was trusted, indexed or published stays so.                        *)
RiskKeeps ==
  \A o \in Analyses :
    /\ evaluations[o] # "none" => evaluations'[o] = evaluations[o]
    /\ registry[o].indexed => registry'[o].indexed
    /\ attestations[o] = "ACTIVE" => attestations'[o] = "ACTIVE"

LEMMA WorkerGoes ==
  ASSUME RiskInv, RiskKeeps, NEW w \in Evaluators, NEW v \in Evaluator,
         evaluators' = [evaluators EXCEPT ![w] = v], WorkerFits(v)'
  PROVE  WorkersFit'
<1>1. evaluators' \in [Evaluators -> Evaluator]
  BY DEF RiskInv, WorkersFit
<1>2. ASSUME NEW u \in Evaluator, WorkerFits(u) PROVE WorkerFits(u)'
  BY <1>2 DEF WorkerFits, RiskKeeps, TrustedPcs, EligiblePcs, IndexedPcs, PublishedPcs
<1>3. ASSUME NEW x \in Evaluators PROVE WorkerFits(evaluators[x])'
  <2>1. PICK u : u = evaluators'[x]
    OBVIOUS
  <2>2. WorkerFits(u)'
    BY <1>2, <2>1 DEF RiskInv, WorkersFit
  <2>. QED
    BY <2>1, <2>2 DEF WorkerFits
<1>. QED
  BY <1>1, <1>3 DEF WorkersFit

LEMMA WorkersRest ==
  ASSUME RiskInv, RiskKeeps, evaluators' = evaluators
  PROVE  WorkersFit'
<1>1. ASSUME NEW u \in Evaluator, WorkerFits(u) PROVE WorkerFits(u)'
  BY <1>1 DEF WorkerFits, RiskKeeps, TrustedPcs, EligiblePcs, IndexedPcs, PublishedPcs
<1>2. ASSUME NEW x \in Evaluators PROVE WorkerFits(evaluators[x])'
  <2>1. PICK u : u = evaluators[x]
    OBVIOUS
  <2>2. WorkerFits(u)'
    BY <1>1, <2>1 DEF RiskInv, WorkersFit
  <2>. QED
    BY <2>1, <2>2 DEF WorkerFits
<1>. QED
  BY <1>2 DEF RiskInv, WorkersFit

LEMMA WorkerQuits ==
  ASSUME RiskInv, RiskKeeps, NEW w \in Evaluators, Quit(w)
  PROVE  WorkersFit'
<1>1. IdleEvaluator \in Evaluator
  BY DEF IdleEvaluator, Evaluator, WorkerPcs, NoAnalysis, Decisions
<1>2. WorkerFits(IdleEvaluator)'
  BY DEF IdleEvaluator, WorkerFits, TrustedPcs, EligiblePcs, IndexedPcs, PublishedPcs
<1>. QED
  BY <1>1, <1>2, WorkerGoes DEF Quit

LEMMA WorkerThrows ==
  ASSUME RiskInv, RiskKeeps, NEW w \in Evaluators, NEW retry \in BOOLEAN, Throw(w, retry), ~ At(w, "idle")
  PROVE  WorkersFit'
<1>1. PICK v : v = [evaluators[w] EXCEPT !.pc = "fail", !.retry = retry]
  OBVIOUS
<1>2. v \in Evaluator /\ v.pc = "fail" /\ v.op \in Analyses
  BY <1>1 DEF RiskInv, WorkersFit, WorkerFits, Evaluator, WorkerPcs, At
<1>3. WorkerFits(v)'
  BY <1>2 DEF WorkerFits, TrustedPcs, EligiblePcs, IndexedPcs, PublishedPcs
<1>. QED
  BY <1>1, <1>2, <1>3, WorkerGoes DEF Throw

(* A worker goes where what it knows, or has just learned, lets it be.     *)
LEMMA WorkerSteps ==
  ASSUME RiskInv, RiskKeeps, NEW w \in Evaluators, NEW pc \in WorkerPcs, Goto(w, pc), ~ At(w, "idle"),
         NEW o, o = Op(w),
         pc \notin {"commit"},
         pc \in TrustedPcs => evaluators[w].pc \in TrustedPcs \/
           (evaluators[w].decision # "none" /\ evaluations'[o] = evaluators[w].decision),
         pc \in EligiblePcs => evaluators[w].decision = "ELIGIBLE",
         pc \in IndexedPcs => evaluators[w].pc \in IndexedPcs \/ registry'[o].indexed,
         pc \in PublishedPcs => evaluators[w].pc \in PublishedPcs \/ attestations'[o] = "ACTIVE"
  PROVE  WorkersFit'
<1>1. PICK v : v = [evaluators[w] EXCEPT !.pc = pc]
  OBVIOUS
<1>2. PICK before : before = evaluators[w].pc
  OBVIOUS
<1>3. v \in Evaluator /\ v.pc = pc /\ v.op = o /\ v.op \in Analyses /\ v.decision = evaluators[w].decision
  BY <1>1 DEF RiskInv, WorkersFit, WorkerFits, Evaluator, Op, At
<1>4. /\ before \in TrustedPcs => v.decision # "none" /\ evaluations[o] = v.decision
      /\ before \in IndexedPcs => registry[o].indexed
      /\ before \in PublishedPcs => attestations[o] = "ACTIVE"
  BY <1>2, <1>3 DEF RiskInv, WorkersFit, WorkerFits, Op
<1>5. WorkerFits(v)'
  BY <1>2, <1>3, <1>4 DEF WorkerFits, RiskKeeps
<1>6. evaluators' = [evaluators EXCEPT ![w] = v]
  BY <1>1 DEF Goto, RiskInv, WorkersFit
<1>. QED
  BY <1>3, <1>5, <1>6, WorkerGoes

(* A step that makes no claim eligible keeps the eligible ones attested.   *)
LEMMA RiskStep ==
  ASSUME RiskInv, RiskKeeps, RiskTyped', RegistryFits', WorkersFit',
         \/ analysis'.state \notin {"ELIGIBLE", "CONTROLLED"}
         \/ analysis.state \in {"ELIGIBLE", "CONTROLLED"}
         \/ \E o \in Analyses : Attested(o)'
  PROVE  RiskInv'
<1>1. EligibleFits'
  BY DEF RiskInv, EligibleFits, Attested, RiskKeeps
<1>. QED
  BY <1>1 DEF RiskInv

(* A step of a worker that leaves every row alone.                         *)
LEMMA RowsRest ==
  ASSUME RiskInv, UNCHANGED <<riskRows, riskSnapshot, registry>>, riskFaults' \in Nat
  PROVE  RiskKeeps /\ (WorkersFit' => RiskInv')
<1>1. RiskKeeps
  BY DEF RiskKeeps, riskRows
<1>2. RiskTyped'
  BY DEF RiskInv, RiskTyped, riskRows, riskSnapshot
<1>3. RegistryFits'
  BY DEF RiskInv, RegistryFits
<1>. QED
  BY <1>1, <1>2, <1>3, RiskStep DEF riskRows

LEMMA FaultCounts ==
  ASSUME RiskInv
  PROVE  (Fault => riskFaults' \in Nat) /\ (UNCHANGED riskFaults => riskFaults' \in Nat)
BY DEF Fault, RiskInv, RiskTyped

LEMMA StatusTyped ==
  ASSUME RiskInv, NEW o \in Analyses, NEW status \in OperationStates,
         SetStatus(o, status)
  PROVE  operations' \in [Analyses -> OperationRow]
BY DEF SetStatus, RiskInv, RiskTyped, OperationRow

-----------------------------------------------------------------------------
(* Around the worker.                                                      *)

LEMMA AroundStays ==
  ASSUME RiskInv, NEW o \in Analyses,
         analyze(o) \/ indexRegistration(o) \/ landRegistration(o) \/ revokeOnChain(o) \/ lapse(o)
  PROVE  RiskInv' /\ RiskKeeps
<1>1. CASE analyze(o)
  <2>1. RiskKeeps
    BY <1>1 DEF analyze, RiskKeeps
  <2>2. RiskTyped'
    <3>1. operations' \in [Analyses -> OperationRow]
      BY <1>1, StatusTyped DEF analyze, OperationStates
    <3>2. analysis' \in AnalysisRow
      BY <1>1 DEF analyze, AnalysisRow, RiskInv, RiskTyped
    <3>. QED
      BY <1>1, <3>1, <3>2 DEF analyze, RiskInv, RiskTyped, riskSnapshot
  <2>3. RegistryFits' /\ WorkersFit'
    BY <1>1, <2>1, WorkersRest DEF analyze, RiskInv, RegistryFits
  <2>. QED
    BY <1>1, <2>1, <2>2, <2>3, RiskStep DEF analyze
<1>2. CASE indexRegistration(o)
  <2>1. PICK v : v = [registry[o] EXCEPT !.indexed = TRUE]
    OBVIOUS
  <2>2. /\ registry' = [registry EXCEPT ![o] = v] /\ v.indexed /\ v.status # "absent"
        /\ v \in Registration
    BY <1>2, <2>1 DEF indexRegistration, RiskInv, RiskTyped, Registration
  <2>3. RiskKeeps
    BY <1>2, <2>2 DEF indexRegistration, RiskKeeps, riskRows, RiskInv, RiskTyped
  <2>4. RiskTyped'
    BY <1>2, <2>2 DEF indexRegistration, RiskInv, RiskTyped, riskRows, riskSnapshot
  <2>5. RegistryFits' /\ WorkersFit'
    BY <1>2, <2>2, <2>3, WorkersRest DEF indexRegistration, RiskInv, RiskTyped, RegistryFits
  <2>. QED
    BY <1>2, <2>3, <2>4, <2>5, RiskStep DEF indexRegistration, riskRows
<1>3. CASE landRegistration(o) \/ revokeOnChain(o)
  <2>1. PICK v : v = IF landRegistration(o)
          THEN [registry[o] EXCEPT !.inflight = FALSE,
                  !.status = IF registry[o].status = "absent" THEN "active" ELSE registry[o].status]
          ELSE [registry[o] EXCEPT !.status = "revoked"]
    OBVIOUS
  <2>2. /\ registry' = [registry EXCEPT ![o] = v] /\ v.indexed = registry[o].indexed /\ v.status # "absent"
        /\ v \in Registration
    BY <1>3, <2>1 DEF landRegistration, revokeOnChain, RiskInv, RiskTyped, Registration
  <2>3. UNCHANGED <<riskRows, riskSnapshot, evaluators, riskFaults>>
    BY <1>3 DEF landRegistration, revokeOnChain
  <2>4. RiskKeeps
    BY <2>2, <2>3 DEF RiskKeeps, riskRows, RiskInv, RiskTyped
  <2>5. RiskTyped'
    BY <2>2, <2>3 DEF RiskInv, RiskTyped, riskRows, riskSnapshot
  <2>6. RegistryFits' /\ WorkersFit'
    BY <2>2, <2>3, <2>4, WorkersRest DEF RiskInv, RiskTyped, RegistryFits
  <2>. QED
    BY <2>3, <2>4, <2>5, <2>6, RiskStep DEF riskRows
<1>4. CASE lapse(o)
  <2>1. RiskKeeps
    BY <1>4 DEF lapse, RiskKeeps
  <2>2. RiskTyped'
    <3>1. operations' \in [Analyses -> OperationRow]
      BY <1>4 DEF lapse, RiskInv, RiskTyped, OperationRow
    <3>2. riskFaults' \in Nat
      BY <1>4, FaultCounts DEF lapse
    <3>. QED
      BY <1>4, <3>1, <3>2 DEF lapse, RiskInv, RiskTyped, riskSnapshot
  <2>3. RegistryFits' /\ WorkersFit'
    BY <1>4, <2>1, WorkersRest DEF lapse, RiskInv, RegistryFits
  <2>. QED
    BY <1>4, <2>1, <2>2, <2>3, RiskStep DEF lapse
<1>. QED
  BY <1>1, <1>2, <1>3, <1>4

LEMMA ClaimMovesOn ==
  ASSUME RiskInv, verifyControl \/ ageSnapshot
  PROVE  RiskInv' /\ RiskKeeps
<1>1. RiskKeeps
  BY DEF verifyControl, ageSnapshot, RiskKeeps, riskRows
<1>2. RiskTyped'
  <2>1. analysis' \in AnalysisRow
    BY DEF verifyControl, ageSnapshot, AnalysisRow, RiskInv, RiskTyped, riskRows
  <2>2. aged' \in BOOLEAN /\ UNCHANGED blocked
    BY DEF verifyControl, ageSnapshot, RiskInv, RiskTyped, riskSnapshot
  <2>. QED
    BY <2>1, <2>2 DEF verifyControl, ageSnapshot, RiskInv, RiskTyped, riskRows
<1>3. RegistryFits' /\ WorkersFit'
  BY <1>1, WorkersRest DEF verifyControl, ageSnapshot, RiskInv, RegistryFits
<1>. QED
  BY <1>1, <1>2, <1>3, RiskStep DEF verifyControl, ageSnapshot, riskRows

-----------------------------------------------------------------------------
(* The run of a worker.                                                    *)

(* The operations row alone changes, and at most the claim beside it.      *)
LEMMA OperationStep ==
  ASSUME RiskInv, UNCHANGED <<analysis, evaluations, attestations, journal, riskSnapshot, registry>>,
         operations' \in [Analyses -> OperationRow],
         riskFaults' \in Nat
  PROVE  RiskKeeps /\ (WorkersFit' => RiskInv')
<1>1. RiskKeeps
  BY DEF RiskKeeps
<1>2. RiskTyped' /\ RegistryFits'
  BY DEF RiskInv, RiskTyped, RegistryFits, riskSnapshot
<1>. QED
  BY <1>1, <1>2, RiskStep

LEMMA ClaimWorkStays ==
  ASSUME RiskInv, NEW w \in Evaluators, NEW o \in Analyses, claimWork(w, o)
  PROVE  RiskInv' /\ RiskKeeps
<1>1. RiskKeeps /\ (WorkersFit' => RiskInv')
  BY OperationStep, StatusTyped, FaultCounts DEF claimWork, OperationStates
<1>2. PICK v : v = [IdleEvaluator EXCEPT !.pc = "prepare", !.op = o, !.attempt = operations[o].attempts]
  OBVIOUS
<1>3. v \in Evaluator /\ v.pc = "prepare" /\ v.op = o
  BY <1>2 DEF IdleEvaluator, Evaluator, WorkerPcs, RiskInv, RiskTyped, OperationRow, Decisions
<1>4. WorkerFits(v)'
  BY <1>3 DEF WorkerFits, TrustedPcs, EligiblePcs, IndexedPcs, PublishedPcs
<1>. QED
  BY <1>1, <1>2, <1>3, <1>4, WorkerGoes DEF claimWork

LEMMA PrepareWorkStays ==
  ASSUME RiskInv, NEW w \in Evaluators, prepare(w)
  PROVE  RiskInv' /\ RiskKeeps
<1>1. RiskKeeps /\ (WorkersFit' => RiskInv')
  BY RowsRest, FaultCounts DEF prepare
<1>2. CASE Throw(w, FALSE)
  BY <1>1, <1>2, WorkerThrows DEF prepare, At
<1>3. CASE evaluators' = [evaluators EXCEPT ![w] = [evaluators[w] EXCEPT !.pc = "find", !.version = analysis.version]]
  <2>1. PICK v : v = [evaluators[w] EXCEPT !.pc = "find", !.version = analysis.version]
    OBVIOUS
  <2>2. v \in Evaluator /\ v.pc = "find" /\ v.op \in Analyses
    <3>1. evaluators[w] \in Evaluator /\ analysis.version \in Nat
      BY DEF RiskInv, RiskTyped, WorkersFit, AnalysisRow
    <3>2. evaluators[w].op \in Analyses
      BY DEF prepare, At, RiskInv, WorkersFit, WorkerFits
    <3>. QED
      BY <2>1, <3>1, <3>2 DEF Evaluator, WorkerPcs
  <2>3. WorkerFits(v)'
    BY <2>2 DEF WorkerFits, TrustedPcs, EligiblePcs, IndexedPcs, PublishedPcs
  <2>. QED
    BY <1>1, <1>3, <2>1, <2>2, <2>3, WorkerGoes
<1>. QED
  BY <1>2, <1>3 DEF prepare

LEMMA FindStays ==
  ASSUME RiskInv, NEW w \in Evaluators, findTrusted(w)
  PROVE  RiskInv' /\ RiskKeeps
<1>1. RiskKeeps /\ (WorkersFit' => RiskInv')
  BY RowsRest, FaultCounts DEF findTrusted
<1>2. CASE Throw(w, FALSE)
  BY <1>1, <1>2, WorkerThrows DEF findTrusted, At
<1>3. CASE Goto(w, "evaluate")
  BY <1>1, <1>3, WorkerSteps DEF findTrusted, At, WorkerPcs, TrustedPcs, EligiblePcs, IndexedPcs, PublishedPcs
<1>4. CASE /\ evaluations[Op(w)] # "none"
           /\ evaluators' = [evaluators EXCEPT ![w] =
                [evaluators[w] EXCEPT !.pc = "continue", !.decision = evaluations[Op(w)]]]
  <2>1. PICK v : v = [evaluators[w] EXCEPT !.pc = "continue", !.decision = evaluations[Op(w)]]
    OBVIOUS
  <2>2. Op(w) \in Analyses
    BY DEF findTrusted, At, Op, RiskInv, WorkersFit, WorkerFits
  <2>3. /\ v \in Evaluator /\ v.pc = "continue" /\ v.op \in Analyses
        /\ v.decision # "none" /\ evaluations[v.op] = v.decision
    <3>1. evaluations[Op(w)] \in Decisions /\ evaluators[w] \in Evaluator
      BY <2>2 DEF RiskInv, RiskTyped, WorkersFit
    <3>2. "continue" \in WorkerPcs
      BY DEF WorkerPcs, TrustedPcs
    <3>. QED
      BY <1>4, <2>1, <2>2, <3>1, <3>2 DEF Evaluator, Op
  <2>4. WorkerFits(v)'
    BY <1>1, <2>3 DEF WorkerFits, RiskKeeps, EligiblePcs, IndexedPcs, PublishedPcs
  <2>. QED
    BY <1>1, <1>4, <2>1, <2>3, <2>4, WorkerGoes
<1>. QED
  BY <1>2, <1>3, <1>4 DEF findTrusted

(* A worker in the middle of its run serves an analysis.                   *)
LEMMA Serves ==
  ASSUME RiskInv, NEW w \in Evaluators, ~ At(w, "idle")
  PROVE  Op(w) \in Analyses /\ evaluators[w] \in Evaluator /\ WorkerFits(evaluators[w])
BY DEF RiskInv, WorkersFit, WorkerFits, Op, At

LEMMA EvaluateStays ==
  ASSUME RiskInv, NEW w \in Evaluators, evaluate(w)
  PROVE  RiskInv' /\ RiskKeeps
<1>1. ~ At(w, "idle")
  BY DEF evaluate, At
<1>2. Op(w) \in Analyses /\ evaluators[w] \in Evaluator
  BY <1>1, Serves
<1>3. operations' \in [Analyses -> OperationRow]
  <2>1. PICK o : o = Op(w)
    OBVIOUS
  <2>2. PICK n : n = operations[o].attempts + 1
    OBVIOUS
  <2>3. operations[o] \in OperationRow /\ n \in Nat
    BY <1>2, <2>1, <2>2 DEF RiskInv, RiskTyped, OperationRow
  <2>4. operations' = [operations EXCEPT ![o] = [operations[o] EXCEPT !.attempts = n]]
    BY <1>2, <2>1, <2>2 DEF evaluate
  <2>5. [operations[o] EXCEPT !.attempts = n] \in OperationRow
    BY <2>3 DEF OperationRow
  <2>. QED
    BY <2>4, <2>5 DEF RiskInv, RiskTyped
<1>4. riskFaults' \in Nat
  BY FaultCounts DEF evaluate
<1>5. RiskKeeps /\ (WorkersFit' => RiskInv')
  BY <1>3, <1>4, OperationStep DEF evaluate
<1>6. ASSUME NEW v \in Evaluator, evaluators' = [evaluators EXCEPT ![w] = v], v.op \in Analyses,
             \/ v.pc = "commit" /\ v.decision # "none"
             \/ v.pc \in {"fail", "evaluate"}
      PROVE  RiskInv' /\ RiskKeeps
  <2>1. WorkerFits(v)'
    BY <1>6 DEF WorkerFits, TrustedPcs, EligiblePcs, IndexedPcs, PublishedPcs
  <2>. QED
    BY <1>5, <1>6, <2>1, WorkerGoes
<1>7. ASSUME NEW answer \in Answers,
             evaluators' = [evaluators EXCEPT ![w] = [evaluators[w] EXCEPT
               !.pc = "commit", !.decision = Trusted(answer), !.fresh = TRUE]]
      PROVE  RiskInv' /\ RiskKeeps
  <2>1. Trusted(answer) \in {"ELIGIBLE", "REVIEW", "INELIGIBLE"}
    BY DEF Answers, Predictions, Trusted
  <2>2. PICK v : v = [evaluators[w] EXCEPT !.pc = "commit", !.decision = Trusted(answer), !.fresh = TRUE]
    OBVIOUS
  <2>3. v \in Evaluator /\ v.op \in Analyses /\ v.pc = "commit" /\ v.decision # "none"
    BY <1>2, <2>1, <2>2 DEF Evaluator, WorkerPcs, Decisions, Op
  <2>. QED
    BY <1>6, <1>7, <2>2, <2>3
<1>8. CASE ClientFails(w)
  <2>1. CASE Throw(w, FALSE)
    BY <1>1, <1>5, <2>1, WorkerThrows
  <2>2. CASE ~ Throw(w, FALSE)
    <3>0. PICK n : n = evaluators[w].attempt + 1
      OBVIOUS
    <3>9. n \in Nat
      BY <1>2, <3>0 DEF Evaluator
    <3>1. PICK v : v = [evaluators[w] EXCEPT
            !.attempt = n, !.retry = TRUE,
            !.pc = IF n = MaxAttempts THEN "fail" ELSE "evaluate"]
      OBVIOUS
    <3>2. v \in Evaluator /\ v.op \in Analyses /\ v.pc \in {"fail", "evaluate"}
      BY <1>2, <3>1, <3>9 DEF Evaluator, WorkerPcs, Op
    <3>3. evaluators' = [evaluators EXCEPT ![w] = v]
      BY <1>8, <2>2, <3>0, <3>1 DEF ClientFails
    <3>. QED
      BY <1>6, <3>2, <3>3
  <2>. QED
    BY <2>1, <2>2
<1>. QED
  BY <1>7, <1>8 DEF evaluate

(* The commit keeps the first evaluation, and makes no claim eligible.     *)
LEMMA RiskCommitStays ==
  ASSUME RiskInv, NEW w \in Evaluators, commitEvaluation(w)
  PROVE  RiskInv' /\ RiskKeeps
<1>1. ~ At(w, "idle")
  BY DEF commitEvaluation, At
<1>2. PICK o, d : o = Op(w) /\ d = evaluators[w].decision
  OBVIOUS
<1>3. o \in Analyses /\ evaluators[w] \in Evaluator /\ d \in Decisions /\ d # "none"
  BY <1>1, <1>2, Serves DEF Evaluator, commitEvaluation, At, WorkerFits
<1>4. UNCHANGED <<operations, attestations, journal, riskSnapshot, registry, riskFaults>>
  BY DEF commitEvaluation
<1>5. CASE UNCHANGED <<evaluations, analysis>>
  <2>1. RiskKeeps /\ (WorkersFit' => RiskInv')
    BY <1>4, <1>5, RowsRest, FaultCounts DEF riskRows
  <2>2. Throw(w, FALSE) \/ (Goto(w, "continue") /\ evaluations[o] = d)
    <3>1. CASE operations[o].status \notin {"RUNNING", "COMPLETED"} \/ evaluations[o] \notin {"none", d}
      BY <1>2, <3>1 DEF commitEvaluation
    <3>2. CASE ~(operations[o].status \notin {"RUNNING", "COMPLETED"} \/ evaluations[o] \notin {"none", d})
      <4>1. CASE evaluations[o] = d
        BY <1>2, <3>2, <4>1 DEF commitEvaluation
      <4>2. CASE evaluations[o] # d
        <5>1. ~ (evaluations' = [evaluations EXCEPT ![o] = d])
          BY <1>3, <1>5, <4>2 DEF RiskInv, RiskTyped
        <5>. QED
          BY <1>2, <3>2, <4>2, <5>1 DEF commitEvaluation
      <4>. QED
        BY <4>1, <4>2
    <3>. QED
      BY <3>1, <3>2
  <2>3. CASE Throw(w, FALSE)
    BY <1>1, <2>1, <2>3, WorkerThrows
  <2>4. CASE Goto(w, "continue") /\ evaluations[o] = d
    BY <1>1, <1>2, <1>3, <1>5, <2>1, <2>4, WorkerSteps DEF WorkerPcs, TrustedPcs, EligiblePcs, IndexedPcs, PublishedPcs
  <2>. QED
    BY <2>2, <2>3, <2>4
<1>6. CASE /\ evaluations[o] = "none" /\ evaluations' = [evaluations EXCEPT ![o] = d]
           /\ UNCHANGED analysis \/ (d # "ELIGIBLE" /\ Decide(w))
           /\ Goto(w, "continue")
  <2>1. RiskKeeps /\ evaluations'[o] = d /\ evaluations' \in [Analyses -> Decisions]
    BY <1>3, <1>4, <1>6 DEF RiskKeeps, RiskInv, RiskTyped
  <2>2. analysis' \in AnalysisRow /\ (UNCHANGED analysis \/ analysis'.state \in {"REVIEW", "REJECTED"})
    <3>1. CASE UNCHANGED analysis
      BY <3>1 DEF RiskInv, RiskTyped
    <3>2. CASE d # "ELIGIBLE" /\ Decide(w)
      BY <1>2, <3>2 DEF Decide, RiskInv, RiskTyped, AnalysisRow
    <3>. QED
      BY <1>6, <3>1, <3>2
  <2>3. RiskTyped' /\ RegistryFits'
    BY <1>4, <2>1, <2>2 DEF RiskInv, RiskTyped, RegistryFits, riskSnapshot
  <2>4. WorkersFit'
    BY <1>1, <1>2, <1>3, <1>6, <2>1, WorkerSteps DEF WorkerPcs, TrustedPcs, EligiblePcs, IndexedPcs, PublishedPcs
  <2>. QED
    BY <2>1, <2>2, <2>3, <2>4, RiskStep
<1>7. \/ UNCHANGED <<evaluations, analysis>>
      \/ /\ evaluations[o] = "none" /\ evaluations' = [evaluations EXCEPT ![o] = d]
         /\ UNCHANGED analysis \/ (d # "ELIGIBLE" /\ Decide(w))
         /\ Goto(w, "continue")
  <2>1. CASE operations[o].status \notin {"RUNNING", "COMPLETED"} \/ evaluations[o] \notin {"none", d}
    BY <1>2, <2>1 DEF commitEvaluation
  <2>2. CASE ~(operations[o].status \notin {"RUNNING", "COMPLETED"} \/ evaluations[o] \notin {"none", d})
    <3>1. CASE evaluations[o] = d
      BY <1>2, <2>2, <3>1 DEF commitEvaluation
    <3>2. CASE evaluations[o] # d /\ (d = "ELIGIBLE" \/ AppliesTo(w))
      BY <1>2, <2>2, <3>2 DEF commitEvaluation
    <3>3. CASE evaluations[o] # d /\ ~ (d = "ELIGIBLE" \/ AppliesTo(w))
      BY <1>2, <2>2, <3>3 DEF commitEvaluation
    <3>. QED
      BY <3>1, <3>2, <3>3
  <2>. QED
    BY <2>1, <2>2
<1>. QED
  BY <1>5, <1>6, <1>7

LEMMA EndOfRunStays ==
  ASSUME RiskInv, NEW w \in Evaluators, continueAfterTrusted(w) \/ markCompleted(w) \/ markFailed(w)
  PROVE  RiskInv' /\ RiskKeeps
<1>1. ~ At(w, "idle")
  BY DEF continueAfterTrusted, markCompleted, markFailed, At
<1>2. Op(w) \in Analyses /\ evaluators[w] \in Evaluator /\ WorkerFits(evaluators[w])
  BY <1>1, Serves
<1>3. CASE continueAfterTrusted(w)
  <2>1. RiskKeeps /\ (WorkersFit' => RiskInv')
    BY <1>3, RowsRest, FaultCounts DEF continueAfterTrusted
  <2>2. evaluators[w].pc \in TrustedPcs
    BY <1>3 DEF continueAfterTrusted, At, TrustedPcs
  <2>3. CASE evaluators[w].decision = "ELIGIBLE" /\ Goto(w, "load")
    BY <1>1, <2>1, <2>2, <2>3, WorkerSteps DEF WorkerPcs, TrustedPcs, EligiblePcs, IndexedPcs, PublishedPcs
  <2>4. CASE Goto(w, "complete")
    BY <1>1, <2>1, <2>2, <2>4, WorkerSteps DEF WorkerPcs, TrustedPcs, EligiblePcs, IndexedPcs, PublishedPcs
  <2>. QED
    BY <1>3, <2>3, <2>4 DEF continueAfterTrusted
<1>4. CASE markCompleted(w)
  BY <1>2, <1>4, StatusTyped, FaultCounts, OperationStep, WorkerQuits DEF markCompleted, OperationStates
<1>5. CASE markFailed(w)
  <2>1. RiskKeeps /\ (WorkersFit' => RiskInv')
    BY <1>2, <1>5, StatusTyped, FaultCounts, OperationStep DEF markFailed, OperationStates
  <2>2. CASE Quit(w)
    BY <2>1, <2>2, WorkerQuits
  <2>3. CASE evaluators' = [evaluators EXCEPT ![w].fresh = FALSE]
    <3>1. PICK v : v = [evaluators[w] EXCEPT !.fresh = FALSE]
      OBVIOUS
    <3>2. v \in Evaluator /\ v.pc = "fail" /\ v.op \in Analyses /\ evaluators' = [evaluators EXCEPT ![w] = v]
      BY <1>2, <1>5, <2>3, <3>1 DEF Evaluator, markFailed, At, Op, RiskInv, WorkersFit
    <3>3. WorkerFits(v)'
      BY <3>2 DEF WorkerFits, TrustedPcs, EligiblePcs, IndexedPcs, PublishedPcs
    <3>. QED
      BY <2>1, <3>2, <3>3, WorkerGoes
  <2>. QED
    BY <1>5, <2>2, <2>3 DEF markFailed
<1>. QED
  BY <1>3, <1>4, <1>5

-----------------------------------------------------------------------------
(* The lifecycle after the evaluation.                                     *)

LEMMA LoadStays ==
  ASSUME RiskInv, NEW w \in Evaluators, loadEvidence(w)
  PROVE  RiskInv' /\ RiskKeeps
<1>1. ~ At(w, "idle")
  BY DEF loadEvidence, At
<1>2. Op(w) \in Analyses /\ evaluators[w] \in Evaluator /\ WorkerFits(evaluators[w])
  BY <1>1, Serves
<1>3. RiskKeeps /\ (WorkersFit' => RiskInv')
  BY RowsRest, FaultCounts DEF loadEvidence
<1>4. PICK pc : pc = IF analysis.state \notin {"ANALYZED", "ELIGIBLE"} THEN "fail"
              ELSE IF attestations[Op(w)] = "NONE" THEN "sign" ELSE "begin"
  OBVIOUS
<1>5. PICK v : v = [evaluators[w] EXCEPT !.seen = attestations[Op(w)], !.retry = FALSE, !.pc = pc]
  OBVIOUS
<1>6. attestations[Op(w)] \in AttestationStates /\ pc \in {"fail", "sign", "begin"}
  BY <1>2, <1>4 DEF RiskInv, RiskTyped
<1>7. /\ v \in Evaluator /\ v.pc \in {"fail", "sign", "begin"} /\ v.op = Op(w)
      /\ v.decision = evaluators[w].decision
  BY <1>2, <1>5, <1>6 DEF Evaluator, WorkerPcs, TrustedPcs, EligiblePcs, Op
<1>8. v.decision = "ELIGIBLE" /\ evaluations[v.op] = v.decision /\ v.op \in Analyses
  BY <1>2, <1>7 DEF WorkerFits, loadEvidence, At, TrustedPcs, EligiblePcs, Op
<1>9. WorkerFits(v)'
  BY <1>3, <1>7, <1>8 DEF WorkerFits, RiskKeeps, IndexedPcs, PublishedPcs
<1>10. evaluators' = [evaluators EXCEPT ![w] = v]
  BY <1>4, <1>5 DEF loadEvidence
<1>. QED
  BY <1>3, <1>7, <1>9, <1>10, WorkerGoes

(* An attestation moves on, the journal of a registration moves on.        *)
LEMMA EvidenceStep ==
  ASSUME RiskInv, UNCHANGED <<analysis, operations, evaluations, riskSnapshot, registry>>,
         attestations' \in [Analyses -> AttestationStates], journal' \in [Analyses -> JournalStates],
         \A o \in Analyses : attestations[o] = "ACTIVE" => attestations'[o] = "ACTIVE",
         riskFaults' \in Nat
  PROVE  RiskKeeps /\ (WorkersFit' => RiskInv')
<1>1. RiskKeeps
  BY DEF RiskKeeps
<1>2. RiskTyped' /\ RegistryFits'
  BY DEF RiskInv, RiskTyped, RegistryFits, riskSnapshot
<1>. QED
  BY <1>1, <1>2, RiskStep

LEMMA SignStays ==
  ASSUME RiskInv, NEW w \in Evaluators, signEnvelope(w)
  PROVE  RiskInv' /\ RiskKeeps
<1>1. ~ At(w, "idle")
  BY DEF signEnvelope, At
<1>2. PICK o : o = Op(w)
  OBVIOUS
<1>3. o \in Analyses /\ evaluators[w] \in Evaluator /\ WorkerFits(evaluators[w])
  BY <1>1, <1>2, Serves
<1>4. /\ attestations' \in [Analyses -> AttestationStates]
      /\ \A a \in Analyses : attestations[a] = "ACTIVE" => attestations'[a] = "ACTIVE"
  BY <1>2, <1>3 DEF signEnvelope, RiskInv, RiskTyped, AttestationStates
<1>5. riskFaults' \in Nat /\ journal' \in [Analyses -> JournalStates]
  BY FaultCounts DEF signEnvelope, RiskInv, RiskTyped
<1>6. RiskKeeps /\ (WorkersFit' => RiskInv')
  BY <1>4, <1>5, EvidenceStep DEF signEnvelope
<1>7. ASSUME NEW retry \in BOOLEAN, Throw(w, retry) PROVE WorkersFit'
  BY <1>1, <1>6, <1>7, WorkerThrows
<1>8. CASE evaluators' = [evaluators EXCEPT ![w] = [evaluators[w] EXCEPT !.pc = "begin", !.seen = attestations'[Op(w)]]]
  <2>1. PICK seen : seen = attestations'[o]
    OBVIOUS
  <2>2. PICK v : v = [evaluators[w] EXCEPT !.pc = "begin", !.seen = seen]
    OBVIOUS
  <2>3. seen \in AttestationStates
    BY <1>3, <1>4, <2>1
  <2>4. /\ v \in Evaluator /\ v.pc = "begin" /\ v.op = o /\ v.decision = evaluators[w].decision
    BY <1>2, <1>3, <2>2, <2>3 DEF Evaluator, WorkerPcs, TrustedPcs, EligiblePcs, Op
  <2>5. v.decision = "ELIGIBLE" /\ evaluations[v.op] = v.decision /\ v.op \in Analyses
    BY <1>2, <1>3, <2>4 DEF WorkerFits, signEnvelope, At, TrustedPcs, EligiblePcs, Op
  <2>6. WorkerFits(v)'
    BY <1>6, <2>4, <2>5 DEF WorkerFits, RiskKeeps, IndexedPcs, PublishedPcs
  <2>7. evaluators' = [evaluators EXCEPT ![w] = v]
    BY <1>2, <1>8, <2>1, <2>2
  <2>. QED
    BY <2>4, <2>6, <2>7, <1>6, WorkerGoes
<1>. QED
  BY <1>6, <1>7, <1>8 DEF signEnvelope

LEMMA JournalStays ==
  ASSUME RiskInv, NEW w \in Evaluators, beginRegistration(w) \/ markSubmitted(w) \/ markReconciled(w)
  PROVE  RiskInv' /\ RiskKeeps
<1>1. ~ At(w, "idle")
  BY DEF beginRegistration, markSubmitted, markReconciled, At
<1>2. PICK o : o = Op(w)
  OBVIOUS
<1>3. o \in Analyses /\ evaluators[w] \in Evaluator /\ WorkerFits(evaluators[w])
  BY <1>1, <1>2, Serves
<1>4. journal' \in [Analyses -> JournalStates]
  BY <1>2, <1>3 DEF beginRegistration, markSubmitted, markReconciled, RiskInv, RiskTyped, JournalStates
<1>5. /\ UNCHANGED <<analysis, operations, evaluations, attestations, riskSnapshot, registry, riskFaults>>
      /\ riskFaults' \in Nat /\ attestations' \in [Analyses -> AttestationStates]
  BY DEF beginRegistration, markSubmitted, markReconciled, RiskInv, RiskTyped
<1>6. RiskKeeps /\ (WorkersFit' => RiskInv')
  BY <1>4, <1>5, EvidenceStep
<1>7. evaluators[w].decision = "ELIGIBLE" /\ evaluators[w].pc \in TrustedPcs
  BY <1>3 DEF WorkerFits, beginRegistration, markSubmitted, markReconciled, At, TrustedPcs, EligiblePcs, IndexedPcs,
    PublishedPcs
<1>8. ASSUME NEW pc \in {"register", "reconcile"}, Goto(w, pc) PROVE WorkersFit'
  BY <1>1, <1>6, <1>7, <1>8, WorkerSteps DEF WorkerPcs, TrustedPcs, EligiblePcs, IndexedPcs, PublishedPcs
<1>9. CASE markReconciled(w)
  <2>1. evaluators[w].pc \in PublishedPcs /\ evaluators[w].pc \in IndexedPcs
    BY <1>9 DEF markReconciled, At, IndexedPcs, PublishedPcs
  <2>2. WorkersFit'
    BY <1>1, <1>6, <1>7, <1>9, <2>1, WorkerSteps DEF markReconciled, WorkerPcs, TrustedPcs, EligiblePcs, IndexedPcs,
      PublishedPcs
  <2>. QED
    BY <1>6, <2>2
<1>. QED
  BY <1>6, <1>8, <1>9 DEF beginRegistration, markSubmitted

LEMMA RegisterStays ==
  ASSUME RiskInv, NEW w \in Evaluators, register(w)
  PROVE  RiskInv' /\ RiskKeeps
<1>1. ~ At(w, "idle")
  BY DEF register, At
<1>2. PICK o : o = Op(w)
  OBVIOUS
<1>3. o \in Analyses /\ evaluators[w] \in Evaluator /\ WorkerFits(evaluators[w])
  BY <1>1, <1>2, Serves
<1>4. PICK active, inflight :
        /\ active = [registry[o] EXCEPT !.inflight = FALSE, !.status = "active"]
        /\ inflight = [registry[o] EXCEPT !.inflight = TRUE]
  OBVIOUS
<1>5. registry[o] \in Registration
  BY <1>3 DEF RiskInv, RiskTyped
<1>6. /\ active \in Registration /\ active.indexed = registry[o].indexed /\ active.status # "absent"
      /\ inflight \in Registration /\ inflight.indexed = registry[o].indexed
      /\ inflight.status = registry[o].status
  BY <1>4, <1>5 DEF Registration
<1>7. registry' = registry \/ \E v \in {active, inflight} : registry' = [registry EXCEPT ![o] = v]
  <2>1. registry' = [registry EXCEPT ![Op(w)].inflight = TRUE] => registry' = [registry EXCEPT ![o] = inflight]
    BY <1>2, <1>4
  <2>. QED
    BY <1>2, <1>4, <2>1 DEF register
<1>8. registry' \in [Analyses -> Registration] /\ RegistryFits' /\ \A a \in Analyses : registry'[a].indexed = registry[a].indexed
  <2>1. CASE registry' = registry
    BY <2>1 DEF RiskInv, RiskTyped, RegistryFits
  <2>2. ASSUME NEW v \in {active, inflight}, registry' = [registry EXCEPT ![o] = v]
        PROVE  registry' \in [Analyses -> Registration] /\ RegistryFits'
                 /\ \A a \in Analyses : registry'[a].indexed = registry[a].indexed
    BY <1>3, <1>6, <2>2 DEF RiskInv, RiskTyped, RegistryFits
  <2>. QED
    BY <1>7, <2>1, <2>2
<1>9. UNCHANGED <<riskRows, riskSnapshot>> /\ riskFaults' \in Nat
  BY FaultCounts DEF register
<1>10. RiskKeeps
  BY <1>8, <1>9 DEF RiskKeeps, riskRows
<1>11. RiskTyped'
  BY <1>8, <1>9 DEF RiskInv, RiskTyped, riskRows, riskSnapshot
<1>12. WorkersFit'
  <2>1. ASSUME NEW retry \in BOOLEAN, Throw(w, retry) PROVE WorkersFit'
    BY <1>1, <1>10, <2>1, WorkerThrows
  <2>2. CASE Goto(w, "submitted")
    <3>1. evaluators[w].decision = "ELIGIBLE" /\ evaluators[w].pc \in TrustedPcs
      BY <1>3 DEF WorkerFits, register, At, TrustedPcs, EligiblePcs
    <3>. QED
      BY <1>1, <1>10, <2>2, <3>1, WorkerSteps DEF WorkerPcs, TrustedPcs, EligiblePcs, IndexedPcs, PublishedPcs
  <2>. QED
    BY <2>1, <2>2 DEF register
<1>. QED
  BY <1>8, <1>9, <1>10, <1>11, <1>12, RiskStep DEF riskRows

LEMMA RiskReconcileStays ==
  ASSUME RiskInv, NEW w \in Evaluators, reconcile(w) \/ readLive(w)
  PROVE  RiskInv' /\ RiskKeeps
<1>1. ~ At(w, "idle")
  BY DEF reconcile, readLive, At
<1>2. Op(w) \in Analyses /\ WorkerFits(evaluators[w])
  BY <1>1, Serves
<1>3. RiskKeeps /\ (WorkersFit' => RiskInv')
  BY RowsRest, FaultCounts DEF reconcile, readLive
<1>4. ASSUME NEW retry \in BOOLEAN, Throw(w, retry) PROVE WorkersFit'
  BY <1>1, <1>3, <1>4, WorkerThrows
<1>5. evaluators[w].decision = "ELIGIBLE" /\ evaluators[w].pc \in TrustedPcs
  BY <1>2 DEF WorkerFits, reconcile, readLive, At, TrustedPcs, EligiblePcs, IndexedPcs
<1>6. CASE reconcile(w) /\ registry[Op(w)].indexed /\ Goto(w, "read")
  <2>1. PICK o : o = Op(w)
    OBVIOUS
  <2>2. registry'[o].indexed
    BY <1>2, <1>3, <1>6, <2>1 DEF RiskKeeps
  <2>. QED
    BY <1>1, <1>3, <1>5, <1>6, <2>1, <2>2, WorkerSteps DEF WorkerPcs, TrustedPcs, EligiblePcs, IndexedPcs, PublishedPcs
<1>7. CASE readLive(w) /\ Goto(w, "publish")
  <2>1. evaluators[w].pc \in IndexedPcs
    BY <1>7 DEF readLive, At, IndexedPcs
  <2>. QED
    BY <1>1, <1>3, <1>5, <1>7, <2>1, WorkerSteps DEF WorkerPcs, TrustedPcs, EligiblePcs, IndexedPcs, PublishedPcs
<1>. QED
  BY <1>3, <1>4, <1>6, <1>7 DEF reconcile, readLive

LEMMA PublishStays ==
  ASSUME RiskInv, NEW w \in Evaluators, publish(w)
  PROVE  RiskInv' /\ RiskKeeps
<1>1. ~ At(w, "idle")
  BY DEF publish, At
<1>2. PICK o : o = Op(w)
  OBVIOUS
<1>3. o \in Analyses /\ WorkerFits(evaluators[w])
  BY <1>1, <1>2, Serves
<1>4. CASE Throw(w, FALSE) /\ UNCHANGED attestations
  <2>1. RiskKeeps /\ (WorkersFit' => RiskInv')
    BY <1>4, RowsRest, FaultCounts DEF publish, riskRows
  <2>. QED
    BY <1>1, <1>4, <2>1, WorkerThrows
<1>5. CASE attestations' = [attestations EXCEPT ![o] = "ACTIVE"] /\ Goto(w, "settle")
  <2>1. /\ attestations' \in [Analyses -> AttestationStates] /\ attestations'[o] = "ACTIVE"
        /\ \A a \in Analyses : attestations[a] = "ACTIVE" => attestations'[a] = "ACTIVE"
    BY <1>3, <1>5 DEF RiskInv, RiskTyped, AttestationStates
  <2>2. riskFaults' \in Nat /\ journal' \in [Analyses -> JournalStates]
    BY DEF publish, RiskInv, RiskTyped
  <2>3. RiskKeeps /\ (WorkersFit' => RiskInv')
    BY <2>1, <2>2, EvidenceStep DEF publish
  <2>4. evaluators[w].pc \in IndexedPcs /\ evaluators[w].pc \in TrustedPcs /\ evaluators[w].decision = "ELIGIBLE"
    BY <1>3 DEF publish, At, WorkerFits, IndexedPcs, TrustedPcs, EligiblePcs
  <2>. QED
    BY <1>1, <1>2, <1>5, <2>1, <2>3, <2>4, WorkerSteps DEF WorkerPcs, TrustedPcs, EligiblePcs, IndexedPcs, PublishedPcs
<1>. QED
  BY <1>2, <1>4, <1>5 DEF publish

(* The claim becomes eligible by a worker that has seen all of it.         *)
LEMMA ActivateStays ==
  ASSUME RiskInv, NEW w \in Evaluators, activate(w)
  PROVE  RiskInv' /\ RiskKeeps
<1>1. ~ At(w, "idle")
  BY DEF activate, At
<1>2. PICK o : o = Op(w)
  OBVIOUS
<1>3. o \in Analyses /\ WorkerFits(evaluators[w])
  BY <1>1, <1>2, Serves
<1>4. /\ evaluators[w].decision = "ELIGIBLE" /\ evaluators[w].pc \in TrustedPcs /\ Attested(o)
  BY <1>2, <1>3 DEF activate, At, WorkerFits, IndexedPcs, PublishedPcs, TrustedPcs, EligiblePcs, Attested, Op
<1>5. UNCHANGED <<evaluations, attestations, journal, riskSnapshot, registry, riskFaults>>
  BY DEF activate
<1>6. RiskKeeps /\ Attested(o)' /\ RegistryFits'
  BY <1>4, <1>5 DEF RiskKeeps, Attested, RiskInv, RegistryFits
<1>7. operations' \in [Analyses -> OperationRow]
  BY <1>2, <1>3, StatusTyped DEF activate, OperationStates, RiskInv, RiskTyped
<1>8. analysis' \in AnalysisRow
  <2>1. CASE UNCHANGED analysis
    BY <2>1 DEF RiskInv, RiskTyped
  <2>2. CASE Decide(w)
    BY <1>4, <2>2 DEF Decide, RiskInv, RiskTyped, AnalysisRow
  <2>. QED
    BY <2>1, <2>2 DEF activate
<1>9. RiskTyped'
  BY <1>5, <1>7, <1>8 DEF RiskInv, RiskTyped, riskSnapshot
<1>10. WorkersFit'
  <2>1. CASE Throw(w, FALSE)
    BY <1>1, <1>6, <2>1, WorkerThrows
  <2>2. CASE Goto(w, "complete")
    BY <1>1, <1>4, <1>6, <2>2, WorkerSteps DEF WorkerPcs, TrustedPcs, EligiblePcs, IndexedPcs, PublishedPcs
  <2>. QED
    BY <2>1, <2>2 DEF activate
<1>. QED
  BY <1>3, <1>6, <1>9, <1>10, RiskStep

LEMMA CrashedWorkerStays ==
  ASSUME RiskInv, NEW w \in Evaluators, crashEvaluator(w)
  PROVE  RiskInv' /\ RiskKeeps
<1>1. RiskKeeps /\ (WorkersFit' => RiskInv')
  BY RowsRest, FaultCounts DEF crashEvaluator
<1>. QED
  BY <1>1, WorkerQuits DEF crashEvaluator

-----------------------------------------------------------------------------

LEMMA RiskStarts == RiskInit => RiskInv
<1>. SUFFICES ASSUME RiskInit PROVE RiskInv
  OBVIOUS
<1>1. RiskTyped
  <2>1. analysis \in AnalysisRow
    BY DEF RiskInit, AnalysisRow
  <2>2. operations \in [Analyses -> OperationRow]
    BY DEF RiskInit, OperationRow, OperationStates
  <2>3. registry \in [Analyses -> Registration]
    BY DEF RiskInit, Registration
  <2>4. /\ evaluations \in [Analyses -> Decisions] /\ attestations \in [Analyses -> AttestationStates]
        /\ journal \in [Analyses -> JournalStates]
    BY DEF RiskInit, Decisions, AttestationStates, JournalStates
  <2>5. aged \in BOOLEAN /\ blocked \in BOOLEAN /\ riskFaults \in Nat
    BY DEF RiskInit
  <2>. QED
    BY <2>1, <2>2, <2>3, <2>4, <2>5 DEF RiskTyped
<1>2. RegistryFits /\ EligibleFits
  BY DEF RiskInit, RegistryFits, EligibleFits
<1>3. IdleEvaluator \in Evaluator /\ WorkerFits(IdleEvaluator)
  BY DEF IdleEvaluator, Evaluator, WorkerPcs, NoAnalysis, Decisions, WorkerFits, TrustedPcs, EligiblePcs, IndexedPcs,
    PublishedPcs
<1>4. WorkersFit
  BY <1>3 DEF RiskInit, WorkersFit
<1>. QED
  BY <1>1, <1>2, <1>4 DEF RiskInv

LEMMA RiskStays == RiskInv /\ [RiskNext]_riskVars => RiskInv' /\ RiskKeeps
<1>. SUFFICES ASSUME RiskInv, [RiskNext]_riskVars PROVE RiskInv' /\ RiskKeeps
  OBVIOUS
<1>1. ASSUME NEW o \in Analyses,
             analyze(o) \/ indexRegistration(o) \/ landRegistration(o) \/ revokeOnChain(o) \/ lapse(o)
      PROVE  RiskInv' /\ RiskKeeps
  BY <1>1, AroundStays
<1>2. CASE verifyControl \/ ageSnapshot
  BY <1>2, ClaimMovesOn
<1>3. ASSUME NEW w \in Evaluators, WorkerStep(w) PROVE RiskInv' /\ RiskKeeps
  <2>1. CASE \E o \in Analyses : claimWork(w, o)
    BY <2>1, ClaimWorkStays
  <2>2. CASE prepare(w) \/ findTrusted(w) \/ evaluate(w) \/ commitEvaluation(w)
    BY <2>2, PrepareWorkStays, FindStays, EvaluateStays, RiskCommitStays
  <2>3. CASE continueAfterTrusted(w) \/ markCompleted(w) \/ markFailed(w)
    BY <2>3, EndOfRunStays
  <2>4. CASE loadEvidence(w) \/ signEnvelope(w) \/ register(w)
    BY <2>4, LoadStays, SignStays, RegisterStays
  <2>5. CASE beginRegistration(w) \/ markSubmitted(w) \/ markReconciled(w)
    BY <2>5, JournalStays
  <2>6. CASE reconcile(w) \/ readLive(w) \/ publish(w) \/ activate(w)
    BY <2>6, RiskReconcileStays, PublishStays, ActivateStays
  <2>. QED
    BY <1>3, <2>1, <2>2, <2>3, <2>4, <2>5, <2>6 DEF WorkerStep
<1>4. ASSUME NEW w \in Evaluators, crashEvaluator(w) PROVE RiskInv' /\ RiskKeeps
  BY <1>4, CrashedWorkerStays
<1>5. CASE UNCHANGED riskVars
  <2>1. RiskKeeps /\ (WorkersFit' => RiskInv')
    BY <1>5, RowsRest, FaultCounts DEF riskVars
  <2>. QED
    BY <1>5, <2>1, WorkersRest DEF riskVars
<1>. QED
  BY <1>1, <1>2, <1>3, <1>4, <1>5 DEF RiskNext

(* The rows of an evaluation, its attestation and its registration hold    *)
(* what the columns and the contract allow.                                *)
THEOREM RiskTypeCorrect == RiskSpec => []RiskTypeOK
<1>1. RiskInv => RiskTypeOK
  BY DEF RiskInv, RiskTyped, RiskTypeOK, AnalysisRow, OperationRow, OperationStates, Decisions, AttestationStates,
    JournalStates, Registration
<1>. QED
  BY <1>1, RiskStarts, RiskStays, PTL DEF RiskSpec

(* A claim is ELIGIBLE only by the run of a worker that found, in this     *)
(* order, an eligible evaluation stored, its registration indexed and its  *)
(* attestation published, however many workers held the operation and      *)
(* whichever of them crashed, lapsed or lost an answer.                    *)
THEOREM EligibleWasAttested == RiskSpec => []EligibleIsAttested
<1>1. RiskInv => EligibleIsAttested
  BY DEF RiskInv, EligibleFits, Attested, RegistryFits, EligibleIsAttested
<1>. QED
  BY <1>1, RiskStarts, RiskStays, PTL DEF RiskSpec

(* The evaluation an operation is trusted for is never another one: of two *)
(* workers that hold the operation the first commit stays.                 *)
THEOREM TrustStands == RiskSpec => TrustedOnce
<1>1. RiskInv /\ [RiskNext]_riskVars =>
        [\A o \in Analyses : evaluations[o] # "none" => evaluations'[o] = evaluations[o]]_riskVars
  BY RiskStays DEF RiskKeeps
<1>. QED
  BY <1>1, RiskStarts, RiskStays, PTL DEF RiskSpec, TrustedOnce

-----------------------------------------------------------------------------
(* Issuance and funding.                                                   *)

Keys == IssueKeys \cup FundKeys
IssuePcs == {"facts", "look", "create", "confirm", "issue", "recover", "record", "complete"}
SagaPcs == {"reconcile", "begin", "preconditions", "issuer", "prepare", "submit", "commit", "mark", "anchor", "finish"}

Marks == {"none", "PAUSED", "FAILED", "COMPENSATION_REQUIRED", "WAITING_EXTERNAL"}

Handler == [pc : {"idle"} \cup IssuePcs \cup SagaPcs, key : Keys \cup {"none"},
            action : Actions \cup {"none"}, mark : Marks]
Row == [state : {"ELIGIBLE", "CONTROLLED", "PAUSED", "SUSPENDED", "FUNDED"}, version : Nat]
Evidence == [latest : {"NONE", "PENDING", "VERIFIED", "REJECTED", "REVOKED"}, older : BOOLEAN]
LedgerClaim == [state : {"absent", "Created", "Controlled", "Issued", "Funded"}, jclaim : BOOLEAN,
                by : [Actions -> Keys \cup {"none"}]]
Issue == [status : {"NONE", "SUBMITTING", "PENDING_RECONCILIATION"}, version : Nat,
          submission : {"NONE", "SUBMITTED", "MISMATCH"}, answered : BOOLEAN]
Steps == [FundSteps -> {"NONE", "WAITING", "SUCCEEDED", "FAILED"}]
Saga == [status : Marks \cup {"NONE", "PENDING", "COMPLETED", "COMPENSATED"}, version : Nat, answered : BOOLEAN, steps : Steps]
Submitted == [FundKeys -> [Actions -> {"NONE", "PENDING", "SUBMITTED", "RECONCILED", "MISMATCH"}]]

FundingTyped ==
  /\ row \in Row /\ evidence \in Evidence /\ subs \in Submitted /\ incidents \in Nat
  /\ onchain \in LedgerClaim /\ indexed \subseteq Actions
  /\ issues \in [IssueKeys -> Issue] /\ sagas \in [FundKeys -> Saga]

(* The claim is issued, or was; the saga of key k has funded it.           *)
WasIssued == onchain.by["ISSUE"] # "none"
FundedBy(k) == onchain.state = "Funded" /\ onchain.by["FUND"] = k
IsRecorded(k) == WasIssued /\ issues[k].submission # "NONE"

LedgerFits ==
  /\ \A a \in indexed : onchain.by[a] # "none"
  /\ onchain.by["FUND"] # "none" => onchain.state = "Funded"

IssuesFit == \A k \in IssueKeys : issues[k].answered => IsRecorded(k)

(* Steps that say a claim is funded or its seller paid.                    *)
StepsFit(k, steps) ==
  steps["FUND"] = "SUCCEEDED" \/ steps["ANCHOR_PAYOUT"] = "SUCCEEDED" => FundedBy(k)

SagasFit == \A k \in FundKeys : StepsFit(k, sagas[k].steps)

(* What a handler knows where it is.                                       *)
HandlerFits(v) ==
  /\ v.pc \in IssuePcs => v.key \in IssueKeys
  /\ v.pc \in SagaPcs => v.key \in FundKeys
  /\ v.pc \in {"prepare", "submit", "commit", "reconcile"} => v.action \in Actions
  /\ v.pc = "record" => WasIssued
  /\ v.pc = "complete" => IsRecorded(v.key)
  /\ v.pc = "anchor" => FundedBy(v.key)

HandlersFit == handlers \in [Handlers -> Handler] /\ \A h \in Handlers : HandlerFits(handlers[h])

FundingInv == FundingTyped /\ LedgerFits /\ IssuesFit /\ SagasFit /\ HandlersFit

(* What was issued, funded or recorded stays so.                           *)
Keeps ==
  /\ WasIssued => WasIssued'
  /\ \A k : FundedBy(k) => FundedBy(k)'
  /\ \A k \in IssueKeys : issues[k].submission # "NONE" => issues'[k].submission # "NONE"

(* The rows a handler's knowledge is about rest.                           *)
Rest == UNCHANGED <<onchain, indexed, issues, sagas>>

LEMMA RestKeeps ==
  ASSUME FundingInv, Rest
  PROVE  /\ Keeps /\ LedgerFits' /\ IssuesFit' /\ SagasFit'
         /\ onchain' \in LedgerClaim /\ indexed' \subseteq Actions
         /\ issues' \in [IssueKeys -> Issue] /\ sagas' \in [FundKeys -> Saga]
BY DEF Rest, FundingInv, FundingTyped, Keeps, LedgerFits, IssuesFit, SagasFit, StepsFit, WasIssued, FundedBy, IsRecorded

(* A handler goes where it knows enough to be; the others know what they   *)
(* knew.                                                                   *)
LEMMA HandlerGoes ==
  ASSUME FundingInv, Keeps, NEW h \in Handlers, NEW v \in Handler,
         handlers' = [handlers EXCEPT ![h] = v], HandlerFits(v)'
  PROVE  HandlersFit'
<1>1. handlers' \in [Handlers -> Handler]
  BY DEF FundingInv, HandlersFit
<1>2. ASSUME NEW u, HandlerFits(u) PROVE HandlerFits(u)'
  BY <1>2 DEF HandlerFits, Keeps, IsRecorded, IssuePcs
<1>3. ASSUME NEW g \in Handlers PROVE HandlerFits(handlers[g])'
  <2>1. PICK u : u = handlers'[g]
    OBVIOUS
  <2>2. HandlerFits(u)'
    BY <1>2, <2>1 DEF FundingInv, HandlersFit
  <2>. QED
    BY <2>1, <2>2 DEF HandlerFits, IsRecorded
<1>. QED
  BY <1>1, <1>3 DEF HandlersFit

LEMMA HandlersRest ==
  ASSUME FundingInv, Keeps, handlers' = handlers
  PROVE  HandlersFit'
<1>2. ASSUME NEW u, HandlerFits(u) PROVE HandlerFits(u)'
  BY <1>2 DEF HandlerFits, Keeps, IsRecorded, IssuePcs
<1>3. ASSUME NEW g \in Handlers PROVE HandlerFits(handlers[g])'
  <2>1. PICK u : u = handlers[g]
    OBVIOUS
  <2>2. HandlerFits(u)'
    BY <1>2, <2>1 DEF FundingInv, HandlersFit
  <2>. QED
    BY <2>1, <2>2 DEF HandlerFits, IsRecorded
<1>. QED
  BY <1>3 DEF FundingInv, HandlersFit

LEMMA HandlerLeaves ==
  ASSUME FundingInv, Keeps, NEW h \in Handlers, Leave(h)
  PROVE  HandlersFit'
<1>1. IdleHandler \in Handler
  BY DEF IdleHandler, Handler, Marks
<1>2. HandlerFits(IdleHandler)'
  BY DEF IdleHandler, HandlerFits, IssuePcs, SagaPcs
<1>. QED
  BY <1>1, <1>2, HandlerGoes DEF Leave

LEMMA HandlerSteps ==
  ASSUME FundingInv, Keeps, NEW h \in Handlers, NEW pc \in IssuePcs \cup SagaPcs, Step(h, pc),
         NEW v, v = [handlers[h] EXCEPT !.pc = pc], HandlerFits(v)'
  PROVE  HandlersFit'
<1>1. v \in Handler
  BY DEF FundingInv, HandlersFit, Handler
<1>2. handlers' = [handlers EXCEPT ![h] = v]
  BY DEF Step, FundingInv, HandlersFit
<1>. QED
  BY <1>1, <1>2, HandlerGoes

LEMMA HandlerMarks ==
  ASSUME FundingInv, Keeps, NEW h \in Handlers, NEW status \in Marks, Mark(h, status), Key(h) \in FundKeys
  PROVE  HandlersFit'
<1>1. PICK v : v = [handlers[h] EXCEPT !.pc = "mark", !.mark = status]
  OBVIOUS
<1>2. v \in Handler /\ v.pc = "mark" /\ v.key \in FundKeys
  BY <1>1 DEF FundingInv, HandlersFit, Handler, SagaPcs, Key, Keys
<1>3. handlers' = [handlers EXCEPT ![h] = v]
  BY <1>1 DEF Mark
<1>4. HandlerFits(v)'
  BY <1>2 DEF HandlerFits, IssuePcs
<1>. QED
  BY <1>2, <1>3, <1>4, HandlerGoes

LEMMA HandlerCatches ==
  ASSUME FundingInv, Keeps, NEW h \in Handlers, NEW retryable, Catch(h, retryable), Key(h) \in FundKeys
  PROVE  HandlersFit'
<1>1. \/ Leave(h)
      \/ \E status \in {"PAUSED", "FAILED", "COMPENSATION_REQUIRED"} : Mark(h, status)
  BY DEF Catch
<1>. QED
  BY <1>1, HandlerLeaves, HandlerMarks DEF Marks

(* Where a saga goes on.                                                   *)
LEMMA NextStepIs ==
  ASSUME NEW steps, NEW next, next = NextStep(steps)
  PROVE  /\ next.pc \in {"preconditions", "issuer", "prepare", "anchor", "finish"}
         /\ next.action \in Actions \cup {"none"}
         /\ next.pc = "prepare" => next.action \in Actions
         /\ next.pc = "anchor" => steps["FUND"] = "SUCCEEDED"
BY DEF NextStep, Actions

LEMMA HandlerContinues ==
  ASSUME FundingInv, Keeps, NEW h \in Handlers, NEW k \in FundKeys, NEW steps, Continue(h, k, steps),
         steps["FUND"] = "SUCCEEDED" => FundedBy(k)'
  PROVE  HandlersFit'
<1>1. PICK next : next = NextStep(steps)
  OBVIOUS
<1>2. /\ next.pc \in {"preconditions", "issuer", "prepare", "anchor", "finish"}
      /\ next.action \in Actions \cup {"none"}
      /\ next.pc = "prepare" => next.action \in Actions
      /\ next.pc = "anchor" => steps["FUND"] = "SUCCEEDED"
  BY <1>1, NextStepIs
<1>3. PICK v : v = [handlers[h] EXCEPT !.key = k, !.pc = next.pc, !.action = next.action]
  OBVIOUS
<1>4. v \in Handler /\ v.pc = next.pc /\ v.key = k /\ v.action = next.action
  BY <1>2, <1>3 DEF FundingInv, HandlersFit, Handler, Keys, SagaPcs
<1>5. handlers' = [handlers EXCEPT ![h] = v]
  BY <1>1, <1>3 DEF Continue
<1>6. HandlerFits(v)'
  BY <1>2, <1>4 DEF HandlerFits, IssuePcs
<1>. QED
  BY <1>4, <1>5, <1>6, HandlerGoes

(* The update of one saga.                                                 *)
LEMMA SagaMoves ==
  ASSUME FundingInv, \A k : FundedBy(k) => FundedBy(k)', NEW k \in FundKeys, NEW v \in Saga,
         sagas' = [sagas EXCEPT ![k] = v], StepsFit(k, v.steps)'
  PROVE  sagas' \in [FundKeys -> Saga] /\ SagasFit'
<1>1. sagas' \in [FundKeys -> Saga]
  BY DEF FundingInv, FundingTyped
<1>2. ASSUME NEW j \in FundKeys PROVE StepsFit(j, sagas[j].steps)'
  <2>1. CASE j = k
    BY <2>1 DEF FundingInv, FundingTyped, StepsFit
  <2>2. CASE j # k
    BY <2>2 DEF FundingInv, FundingTyped, SagasFit, StepsFit
  <2>. QED
    BY <2>1, <2>2
<1>. QED
  BY <1>1, <1>2 DEF SagasFit

(* The update of one issuance operation.                                   *)
LEMMA IssueMoves ==
  ASSUME FundingInv, UNCHANGED onchain, NEW k \in IssueKeys, NEW v \in Issue,
         issues' = [issues EXCEPT ![k] = v],
         issues[k].submission # "NONE" => v.submission # "NONE",
         v.answered => WasIssued /\ v.submission # "NONE"
  PROVE  issues' \in [IssueKeys -> Issue] /\ IssuesFit' /\ Keeps
<1>1. issues' \in [IssueKeys -> Issue]
  BY DEF FundingInv, FundingTyped
<1>2. Keeps
  BY DEF FundingInv, FundingTyped, Keeps, WasIssued, FundedBy
<1>3. ASSUME NEW j \in IssueKeys, issues'[j].answered PROVE IsRecorded(j)'
  <2>1. CASE j = k
    BY <1>3, <2>1 DEF FundingInv, FundingTyped, IsRecorded, WasIssued
  <2>2. CASE j # k
    BY <1>3, <2>2 DEF FundingInv, FundingTyped, IssuesFit, IsRecorded, WasIssued
  <2>. QED
    BY <2>1, <2>2
<1>. QED
  BY <1>1, <1>2, <1>3 DEF IssuesFit

LEMMA RowMoves ==
  ASSUME FundingInv, NEW state \in {"ELIGIBLE", "CONTROLLED", "PAUSED", "SUSPENDED", "FUNDED"}, MoveRow(state)
  PROVE  row' \in Row
BY DEF MoveRow, FundingInv, FundingTyped, Row

LEMMA IncidentCounts ==
  ASSUME FundingInv, Incident
  PROVE  incidents' \in Nat
BY DEF Incident, FundingInv, FundingTyped

(* A step that leaves the operations, the sagas and the ledger alone.      *)
LEMMA RestingStep ==
  ASSUME FundingInv, Rest, HandlersFit',
         row' \in Row, evidence' \in Evidence, subs' \in Submitted, incidents' \in Nat
  PROVE  FundingInv'
BY RestKeeps DEF FundingInv, FundingTyped

(* A step that leaves all but one operation alone.                         *)
LEMMA IssueStep ==
  ASSUME FundingInv, UNCHANGED <<onchain, indexed, sagas, evidence, subs>>, HandlersFit',
         issues' \in [IssueKeys -> Issue], IssuesFit', row' \in Row, incidents' \in Nat
  PROVE  FundingInv'
<1>1. LedgerFits' /\ SagasFit'
  BY DEF FundingInv, LedgerFits, SagasFit, StepsFit, FundedBy
<1>. QED
  BY <1>1 DEF FundingInv, FundingTyped

(* A step that leaves all but one saga alone.                              *)
LEMMA SagaStep ==
  ASSUME FundingInv, UNCHANGED <<onchain, indexed, issues, evidence>>, HandlersFit',
         sagas' \in [FundKeys -> Saga], SagasFit', row' \in Row, subs' \in Submitted, incidents' \in Nat
  PROVE  FundingInv'
<1>1. LedgerFits' /\ IssuesFit'
  BY DEF FundingInv, LedgerFits, IssuesFit, IsRecorded, WasIssued
<1>. QED
  BY <1>1 DEF FundingInv, FundingTyped

-----------------------------------------------------------------------------
(* Commands on the control evidence.                                       *)

LEMMA CommandStays ==
  ASSUME FundingInv, ControlCommand
  PROVE  FundingInv'
<1>1. Commanded
  BY DEF ControlCommand, submitEvidence, decide, pause
<1>2. Rest /\ handlers' = handlers /\ subs' \in Submitted /\ incidents' \in Nat
  BY <1>1 DEF Commanded, Rest, FundingInv, FundingTyped
<1>3. HandlersFit'
  BY <1>2, RestKeeps, HandlersRest
<1>4. row' \in Row /\ evidence' \in Evidence
  <2>1. CASE submitEvidence
    BY <2>1, RowMoves DEF submitEvidence, FundingInv, FundingTyped, Evidence, VerifiedEvidence
  <2>2. CASE pause
    BY <2>2, RowMoves DEF pause, FundingInv, FundingTyped
  <2>3. ASSUME NEW status \in {"VERIFIED", "REJECTED", "REVOKED"}, decide(status)
        PROVE  row' \in Row /\ evidence' \in Evidence
    <3>1. evidence' \in Evidence
      BY <2>3 DEF decide, FundingInv, FundingTyped, Evidence
    <3>2. row.state \in {"ELIGIBLE", "CONTROLLED", "PAUSED", "SUSPENDED", "FUNDED"}
      BY DEF FundingInv, FundingTyped, Row
    <3>3. row' \in Row
      BY <2>3, <3>2, RowMoves DEF decide
    <3>. QED
      BY <3>1, <3>3
  <2>. QED
    BY <2>1, <2>2, <2>3 DEF ControlCommand
<1>. QED
  BY <1>2, <1>3, <1>4, RestingStep

-----------------------------------------------------------------------------
(* POST /issue.                                                            *)

LEMMA OpenIssueStays ==
  ASSUME FundingInv, NEW h \in Handlers, NEW k \in IssueKeys, openIssue(h, k)
  PROVE  FundingInv'
<1>1. PICK v : v = [issues[k] EXCEPT !.version = row.version,
                      !.status = IF issues[k].status = "NONE" THEN "SUBMITTING" ELSE issues[k].status]
  OBVIOUS
<1>2. v \in Issue /\ v.answered = issues[k].answered /\ v.submission = issues[k].submission
  BY <1>1 DEF FundingInv, FundingTyped, Issue, Row
<1>3. issues' = [issues EXCEPT ![k] = v]
  BY <1>1 DEF openIssue
<1>4. issues' \in [IssueKeys -> Issue] /\ IssuesFit' /\ Keeps
  <2>1. UNCHANGED onchain
    BY DEF openIssue, world
  <2>2. v.answered => WasIssued /\ v.submission # "NONE"
    BY <1>2 DEF FundingInv, IssuesFit, IsRecorded
  <2>. QED
    BY <1>2, <1>3, <2>1, <2>2, IssueMoves
<1>5. PICK u : u = [handlers[h] EXCEPT !.pc = "facts", !.key = k]
  OBVIOUS
<1>6. u \in Handler /\ u.pc = "facts" /\ u.key = k
  BY <1>5 DEF FundingInv, HandlersFit, Handler, Keys, IssuePcs
<1>7. handlers' = [handlers EXCEPT ![h] = u]
  BY <1>5 DEF openIssue
<1>8. HandlersFit'
  <2>1. HandlerFits(u)'
    BY <1>6 DEF HandlerFits, SagaPcs
  <2>. QED
    BY <1>4, <1>6, <1>7, <2>1, HandlerGoes
<1>. QED
  BY <1>4, <1>8, IssueStep DEF openIssue, world, FundingInv, FundingTyped

(* Of a handler of POST /issue only what it knows matters.                 *)
LEMMA IssuerSteps ==
  ASSUME FundingInv, Keeps, NEW h \in Handlers, NEW pc \in IssuePcs, Step(h, pc),
         NEW k \in IssueKeys, k = Key(h),
         pc = "record" => WasIssued', pc = "complete" => IsRecorded(k)'
  PROVE  HandlersFit'
<1>1. PICK v : v = [handlers[h] EXCEPT !.pc = pc]
  OBVIOUS
<1>3. v.pc = pc /\ v.key = k
  BY <1>1 DEF FundingInv, HandlersFit, Handler, Key
<1>5. HandlerFits(v)'
  BY <1>3 DEF HandlerFits, SagaPcs, IssuePcs
<1>. QED
  BY <1>1, <1>5, HandlerSteps

LEMMA IssuerAt ==
  ASSUME FundingInv, NEW h \in Handlers, handlers[h].pc \in IssuePcs
  PROVE  Key(h) \in IssueKeys
BY DEF FundingInv, HandlersFit, HandlerFits, Key

LEMMA FactsStays ==
  ASSUME FundingInv, NEW h \in Handlers, facts(h)
  PROVE  FundingInv'
<1>1. Rest /\ row' \in Row /\ evidence' \in Evidence /\ subs' \in Submitted /\ incidents' \in Nat
  BY DEF facts, world, Rest, FundingInv, FundingTyped
<1>2. Key(h) \in IssueKeys
  BY IssuerAt DEF facts, In, IssuePcs
<1>3. HandlersFit'
  BY <1>1, <1>2, RestKeeps, HandlerLeaves, IssuerSteps DEF facts, IssuePcs
<1>. QED
  BY <1>1, <1>3, RestingStep

LEMMA LookStays ==
  ASSUME FundingInv, NEW h \in Handlers, onchainState(h)
  PROVE  FundingInv'
<1>1. Rest /\ row' \in Row /\ evidence' \in Evidence /\ subs' \in Submitted
  BY DEF onchainState, world, Rest, FundingInv, FundingTyped
<1>2. incidents' \in Nat
  BY IncidentCounts DEF onchainState, FundingInv, FundingTyped
<1>3. Key(h) \in IssueKeys
  BY IssuerAt DEF onchainState, In, IssuePcs
<1>4. Leave(h) \/ \E pc \in {"create", "confirm", "issue", "recover"} : Step(h, pc)
  BY DEF onchainState, FundingInv, FundingTyped, LedgerClaim
<1>5. HandlersFit'
  BY <1>1, <1>3, <1>4, RestKeeps, HandlerLeaves, IssuerSteps DEF IssuePcs
<1>. QED
  BY <1>1, <1>2, <1>5, RestingStep

(* A call of the ledger moves the claim on, and never past its funding.    *)
LEMMA FundingCallStays ==
  ASSUME FundingInv, NEW h \in Handlers, callLedger(h)
  PROVE  FundingInv'
<1>1. Key(h) \in IssueKeys
  BY IssuerAt DEF callLedger, LedgerCalls, IssuePcs
<1>2. /\ row' \in Row /\ evidence' \in Evidence /\ subs' \in Submitted
      /\ UNCHANGED <<indexed, issues, sagas>>
  BY DEF callLedger, FundingInv, FundingTyped
<1>3. incidents' \in Nat
  BY IncidentCounts DEF callLedger, Aborts, FundingInv, FundingTyped
<1>4. CASE UNCHANGED onchain
  <2>1. Rest
    BY <1>2, <1>4 DEF Rest
  <2>2. Leave(h) \/ onchain.state = CallFrom[handlers[h].pc]
    BY DEF callLedger, Aborts
  <2>3. onchain.state = CallFrom[handlers[h].pc] => Leave(h)
    <3>1. CASE /\ onchain.state = CallFrom[handlers[h].pc]
               /\ onchain' = [onchain EXCEPT !.state = CallTo[handlers[h].pc], !.jclaim = handlers[h].pc = "issue",
                    !.by["ISSUE"] = IF handlers[h].pc = "issue" THEN Key(h) ELSE onchain.by["ISSUE"]]
      BY <1>4, <3>1 DEF callLedger, LedgerCalls, CallFrom, CallTo, FundingInv, FundingTyped, LedgerClaim
    <3>. QED
      BY <3>1 DEF callLedger, Aborts
  <2>. QED
    BY <1>2, <1>3, <2>1, <2>2, <2>3, RestKeeps, HandlerLeaves, RestingStep
<1>5. CASE ~ UNCHANGED onchain
  <2>1. PICK call \in LedgerCalls : call = handlers[h].pc
    BY DEF callLedger
  <2>2. /\ onchain.state = CallFrom[call]
        /\ onchain' = [onchain EXCEPT !.state = CallTo[call], !.jclaim = call = "issue",
             !.by["ISSUE"] = IF call = "issue" THEN Key(h) ELSE onchain.by["ISSUE"]]
        /\ Step(h, AfterCall[call]) \/ Leave(h)
    BY <1>5, <2>1 DEF callLedger
  <2>3. /\ onchain.state # "Funded" /\ onchain' \in LedgerClaim
        /\ onchain'.by["FUND"] = onchain.by["FUND"] /\ onchain'.by["COMPENSATE"] = onchain.by["COMPENSATE"]
        /\ onchain'.by["ISSUE"] = IF call = "issue" THEN Key(h) ELSE onchain.by["ISSUE"]
    <3>1. CASE call = "create"
      BY <1>1, <2>2, <3>1 DEF LedgerCalls, CallFrom, CallTo, FundingInv, FundingTyped, LedgerClaim, Actions, Keys
    <3>2. CASE call = "confirm"
      BY <1>1, <2>2, <3>2 DEF LedgerCalls, CallFrom, CallTo, FundingInv, FundingTyped, LedgerClaim, Actions, Keys
    <3>3. CASE call = "issue"
      BY <1>1, <2>2, <3>3 DEF LedgerCalls, CallFrom, CallTo, FundingInv, FundingTyped, LedgerClaim, Actions, Keys
    <3>. QED
      BY <3>1, <3>2, <3>3 DEF LedgerCalls
  <2>4. Key(h) # "none"
    BY <1>1, FundingAssumption
  <2>5. Keeps /\ LedgerFits'
    BY <1>2, <2>3, <2>4 DEF Keeps, LedgerFits, WasIssued, FundedBy, FundingInv, FundingTyped, Actions
  <2>6. IssuesFit' /\ SagasFit'
    BY <1>2, <2>5 DEF Keeps, IssuesFit, SagasFit, StepsFit, IsRecorded, FundingInv
  <2>7. AfterCall[call] \in IssuePcs /\ AfterCall[call] # "complete" /\ (AfterCall[call] = "record" => call = "issue")
    BY DEF LedgerCalls, AfterCall, IssuePcs
  <2>8. HandlersFit'
    BY <1>1, <2>2, <2>3, <2>4, <2>5, <2>7, HandlerLeaves, IssuerSteps DEF WasIssued
  <2>. QED
    BY <1>2, <1>3, <2>3, <2>5, <2>6, <2>8 DEF FundingInv, FundingTyped
<1>. QED
  BY <1>4, <1>5

LEMMA IndexedIssueStays ==
  ASSUME FundingInv, NEW h \in Handlers, indexedIssue(h)
  PROVE  FundingInv'
<1>1. Rest /\ row' \in Row /\ evidence' \in Evidence /\ subs' \in Submitted /\ incidents' \in Nat
  BY DEF indexedIssue, world, Rest, FundingInv, FundingTyped
<1>2. Key(h) \in IssueKeys
  BY IssuerAt DEF indexedIssue, In, IssuePcs
<1>3. "ISSUE" \in indexed => WasIssued /\ WasIssued'
  BY <1>1, RestKeeps DEF FundingInv, LedgerFits, WasIssued, Keeps
<1>4. HandlersFit'
  BY <1>1, <1>2, <1>3, RestKeeps, HandlerLeaves, IssuerSteps DEF indexedIssue, IssuePcs
<1>. QED
  BY <1>1, <1>4, RestingStep

LEMMA FundingRecordStays ==
  ASSUME FundingInv, NEW h \in Handlers, recordSubmission(h)
  PROVE  FundingInv'
<1>1. PICK k : k = Key(h)
  OBVIOUS
<1>2. k \in IssueKeys /\ WasIssued
  BY <1>1, IssuerAt DEF recordSubmission, In, IssuePcs, FundingInv, HandlersFit, HandlerFits
<1>3. PICK v : v = IF issues[k].submission # "NONE" THEN issues[k]
                   ELSE [issues[k] EXCEPT !.submission = "SUBMITTED", !.status = "PENDING_RECONCILIATION"]
  OBVIOUS
<1>4. v \in Issue /\ v.answered = issues[k].answered /\ v.submission # "NONE"
  BY <1>2, <1>3 DEF FundingInv, FundingTyped, Issue
<1>5. UNCHANGED <<onchain, indexed, sagas, evidence, subs, row>> /\ incidents' \in Nat
  BY IncidentCounts DEF recordSubmission, Aborts, world, FundingInv, FundingTyped
<1>6. CASE Aborts(h) /\ UNCHANGED issues
  <2>1. Rest
    BY <1>5, <1>6 DEF Rest
  <2>2. HandlersFit'
    BY <1>6, <2>1, RestKeeps, HandlerLeaves DEF Aborts
  <2>. QED
    BY <1>5, <2>1, <2>2, RestingStep DEF FundingInv, FundingTyped
<1>7. CASE Step(h, "complete") /\ issues' = [issues EXCEPT ![k] = v]
  <2>1. issues' \in [IssueKeys -> Issue] /\ IssuesFit' /\ Keeps
    BY <1>2, <1>4, <1>5, <1>7, IssueMoves
  <2>2. IsRecorded(k)'
    BY <1>2, <1>4, <1>7, <2>1 DEF IsRecorded, Keeps, FundingInv, FundingTyped
  <2>4. HandlersFit'
    BY <1>1, <1>2, <1>7, <2>1, <2>2, IssuerSteps DEF IssuePcs
  <2>. QED
    BY <1>5, <2>1, <2>4, IssueStep DEF FundingInv, FundingTyped
<1>8. \/ Aborts(h) /\ UNCHANGED issues
      \/ Step(h, "complete") /\ issues' = [issues EXCEPT ![k] = v]
  BY <1>1, <1>2, <1>3 DEF recordSubmission, FundingInv, FundingTyped
<1>. QED
  BY <1>6, <1>7, <1>8

LEMMA CompleteStays ==
  ASSUME FundingInv, NEW h \in Handlers, completeIssue(h)
  PROVE  FundingInv'
<1>1. PICK k : k = Key(h)
  OBVIOUS
<1>2. k \in IssueKeys /\ IsRecorded(k)
  BY <1>1, IssuerAt DEF completeIssue, In, IssuePcs, FundingInv, HandlersFit, HandlerFits, Key
<1>3. PICK v : v = [issues[k] EXCEPT !.answered = TRUE]
  OBVIOUS
<1>4. v \in Issue /\ v.submission = issues[k].submission
  BY <1>2, <1>3 DEF FundingInv, FundingTyped, Issue
<1>5. UNCHANGED <<onchain, indexed, sagas, evidence, subs, row>> /\ incidents' \in Nat /\ Leave(h)
  BY IncidentCounts DEF completeIssue, Aborts, world, FundingInv, FundingTyped
<1>6. CASE UNCHANGED issues
  <2>1. Rest
    BY <1>5, <1>6 DEF Rest
  <2>2. HandlersFit'
    BY <1>5, <2>1, RestKeeps, HandlerLeaves
  <2>. QED
    BY <1>5, <2>1, <2>2, RestingStep DEF FundingInv, FundingTyped
<1>7. CASE issues' = [issues EXCEPT ![k] = v]
  <2>1. issues' \in [IssueKeys -> Issue] /\ IssuesFit' /\ Keeps
    BY <1>2, <1>4, <1>5, <1>7, IssueMoves DEF IsRecorded
  <2>2. HandlersFit'
    BY <1>5, <2>1, HandlerLeaves
  <2>. QED
    BY <1>5, <2>1, <2>2, IssueStep DEF FundingInv, FundingTyped
<1>8. UNCHANGED issues \/ issues' = [issues EXCEPT ![k] = v]
  BY <1>1, <1>3 DEF completeIssue
<1>. QED
  BY <1>6, <1>7, <1>8

-----------------------------------------------------------------------------
(* The funding saga.                                                       *)

LEMMA SagaAt ==
  ASSUME FundingInv, NEW h \in Handlers, handlers[h].pc \in SagaPcs
  PROVE  Key(h) \in FundKeys
BY DEF FundingInv, HandlersFit, HandlerFits, Key

(* A handler goes on, for the key and the action it has.                   *)
LEMMA SagaSteps ==
  ASSUME FundingInv, Keeps, NEW h \in Handlers, NEW pc \in {"submit", "commit", "begin"}, Step(h, pc),
         handlers[h].pc \in {"prepare", "submit", "reconcile"}
  PROVE  HandlersFit'
<1>1. PICK v : v = [handlers[h] EXCEPT !.pc = pc]
  OBVIOUS
<1>2. v.pc = pc /\ v.key \in FundKeys /\ v.action \in Actions
  BY <1>1 DEF FundingInv, HandlersFit, HandlerFits, Handler, SagaPcs
<1>3. HandlerFits(v)'
  BY <1>2 DEF HandlerFits, IssuePcs
<1>. QED
  BY <1>1, <1>3, HandlerSteps DEF SagaPcs

LEMMA OpenFundingStays ==
  ASSUME FundingInv, NEW h \in Handlers, NEW k \in FundKeys, openFunding(h, k)
  PROVE  FundingInv'
<1>1. PICK v : v = [sagas[k] EXCEPT !.version = row.version,
                      !.status = IF sagas[k].status = "NONE" THEN "PENDING" ELSE sagas[k].status]
  OBVIOUS
<1>2. v \in Saga /\ v.steps = sagas[k].steps
  BY <1>1 DEF FundingInv, FundingTyped, Saga, Row
<1>3. sagas' = [sagas EXCEPT ![k] = v]
  BY <1>1 DEF openFunding, FundingInv, FundingTyped, Saga
<1>4. /\ UNCHANGED <<onchain, indexed, issues, evidence>>
      /\ row' \in Row /\ subs' \in Submitted /\ incidents' \in Nat
  BY DEF openFunding, world, FundingInv, FundingTyped
<1>5. Keeps /\ StepsFit(k, sagas[k].steps)
  BY <1>4 DEF Keeps, WasIssued, FundedBy, FundingInv, SagasFit
<1>6. PICK steps : steps = sagas[k].steps
  OBVIOUS
<1>7. StepsFit(k, steps)'
  BY <1>5, <1>6 DEF Keeps, StepsFit
<1>8. sagas' \in [FundKeys -> Saga] /\ SagasFit'
  BY <1>2, <1>3, <1>5, <1>6, <1>7, SagaMoves DEF Keeps
<1>9. HandlersFit'
  BY <1>5, <1>6, <1>7, HandlerContinues DEF openFunding, StepsFit
<1>. QED
  BY <1>4, <1>8, <1>9, SagaStep

(* A step of a saga is entered, and the handler goes on from it.           *)
LEMMA StepEntered ==
  ASSUME FundingInv, UNCHANGED onchain, UNCHANGED issues, NEW k \in FundKeys, NEW steps \in Steps,
         sagas' = [sagas EXCEPT ![k].steps = steps],
         steps["FUND"] = "SUCCEEDED" => FundedBy(k),
         steps["ANCHOR_PAYOUT"] = "SUCCEEDED" => FundedBy(k)
  PROVE  /\ sagas' \in [FundKeys -> Saga] /\ SagasFit' /\ Keeps
         /\ \A h \in Handlers : Continue(h, k, steps) => HandlersFit'
<1>1. PICK v : v = [sagas[k] EXCEPT !.steps = steps]
  OBVIOUS
<1>2. v \in Saga /\ v.steps = steps /\ sagas' = [sagas EXCEPT ![k] = v]
  BY <1>1 DEF FundingInv, FundingTyped, Saga
<1>3. Keeps
  BY DEF Keeps, WasIssued, FundedBy
<1>4. StepsFit(k, steps)'
  BY <1>3 DEF StepsFit, Keeps
<1>5. sagas' \in [FundKeys -> Saga] /\ SagasFit'
  BY <1>2, <1>3, <1>4, SagaMoves DEF Keeps
<1>6. ASSUME NEW h \in Handlers, Continue(h, k, steps) PROVE HandlersFit'
  BY <1>3, <1>4, <1>6, HandlerContinues DEF StepsFit
<1>. QED
  BY <1>3, <1>5, <1>6

LEMMA PreconditionsStays ==
  ASSUME FundingInv, NEW h \in Handlers, ensurePreconditions(h)
  PROVE  FundingInv'
<1>1. PICK k : k = Key(h)
  OBVIOUS
<1>2. k \in FundKeys
  BY <1>1, SagaAt DEF ensurePreconditions, In, SagaPcs
<1>3. /\ UNCHANGED <<onchain, indexed, issues, evidence>>
      /\ row' \in Row /\ subs' \in Submitted /\ incidents' \in Nat
  BY DEF ensurePreconditions, world, FundingInv, FundingTyped
<1>4. PICK steps : steps = [sagas[k].steps EXCEPT !["PRECONDITIONS"] = "SUCCEEDED",
                  !["ISSUE"] = IF row.state = "ISSUED" THEN "SUCCEEDED" ELSE sagas[k].steps["ISSUE"]]
  OBVIOUS
<1>5. /\ steps \in Steps /\ steps["FUND"] = sagas[k].steps["FUND"]
      /\ steps["ANCHOR_PAYOUT"] = sagas[k].steps["ANCHOR_PAYOUT"]
  BY <1>2, <1>4 DEF FundingInv, FundingTyped, Saga, Steps, FundSteps
<1>6. StepsFit(k, sagas[k].steps)
  BY <1>2 DEF FundingInv, SagasFit
<1>7. \/ sagas' = [sagas EXCEPT ![k].steps = steps] /\ Continue(h, k, steps)
      \/ Leave(h) /\ UNCHANGED sagas
  <2>1. steps = [sagas[k].steps EXCEPT !["PRECONDITIONS"] = "SUCCEEDED",
                  !["ISSUE"] = IF row.state = "ISSUED" THEN "SUCCEEDED" ELSE @]
    BY <1>2, <1>4 DEF FundingInv, FundingTyped, Saga, Steps, FundSteps
  <2>. QED
    BY <1>1, <2>1 DEF ensurePreconditions
<1>8. CASE sagas' = [sagas EXCEPT ![k].steps = steps] /\ Continue(h, k, steps)
  BY <1>2, <1>3, <1>5, <1>6, <1>8, StepEntered, SagaStep DEF StepsFit
<1>9. CASE Leave(h) /\ UNCHANGED sagas
  <2>1. Rest
    BY <1>3, <1>9 DEF Rest
  <2>. QED
    BY <1>3, <1>9, <2>1, RestKeeps, HandlerLeaves, RestingStep DEF FundingInv, FundingTyped
<1>. QED
  BY <1>7, <1>8, <1>9

LEMMA IssuerStays ==
  ASSUME FundingInv, NEW h \in Handlers, issuerApproval(h)
  PROVE  FundingInv'
<1>1. PICK k : k = Key(h)
  OBVIOUS
<1>2. k \in FundKeys
  BY <1>1, SagaAt DEF issuerApproval, In, SagaPcs
<1>3. /\ UNCHANGED <<onchain, indexed, issues, evidence>>
      /\ row' \in Row /\ subs' \in Submitted /\ incidents' \in Nat
  BY DEF issuerApproval, world, FundingInv, FundingTyped
<1>4. PICK status \in {"SUCCEEDED", "WAITING", "FAILED"} :
        /\ sagas' = [sagas EXCEPT ![k].steps["ISSUER_APPROVAL"] = status]
        /\ \/ Continue(h, k, sagas'[k].steps)
           \/ \E mark \in {"WAITING_EXTERNAL", "FAILED"} : Mark(h, mark)
  BY <1>1 DEF issuerApproval
<1>5. PICK steps : steps = [sagas[k].steps EXCEPT !["ISSUER_APPROVAL"] = status]
  OBVIOUS
<1>6. /\ steps \in Steps /\ steps["FUND"] = sagas[k].steps["FUND"]
      /\ steps["ANCHOR_PAYOUT"] = sagas[k].steps["ANCHOR_PAYOUT"]
  BY <1>2, <1>5 DEF FundingInv, FundingTyped, Saga, Steps, FundSteps
<1>7. sagas' = [sagas EXCEPT ![k].steps = steps] /\ sagas'[k].steps = steps
  BY <1>2, <1>4, <1>5 DEF FundingInv, FundingTyped, Saga, Steps
<1>8. StepsFit(k, sagas[k].steps)
  BY <1>2 DEF FundingInv, SagasFit
<1>9. /\ sagas' \in [FundKeys -> Saga] /\ SagasFit' /\ Keeps
      /\ Continue(h, k, steps) => HandlersFit'
  BY <1>2, <1>3, <1>6, <1>7, <1>8, StepEntered DEF StepsFit
<1>10. HandlersFit'
  BY <1>1, <1>2, <1>4, <1>7, <1>9, HandlerMarks DEF Marks
<1>. QED
  BY <1>3, <1>9, <1>10, SagaStep

(* The status of one submission.                                           *)
LEMMA SubmissionMoves ==
  ASSUME FundingInv, NEW k \in FundKeys, NEW a \in Actions,
         NEW status \in {"NONE", "PENDING", "SUBMITTED", "RECONCILED", "MISMATCH"},
         subs' = [subs EXCEPT ![k][a] = status]
  PROVE  subs' \in Submitted
BY DEF FundingInv, FundingTyped, Submitted

LEMMA PrepareStays ==
  ASSUME FundingInv, NEW h \in Handlers, prepareChain(h)
  PROVE  FundingInv'
<1>1. PICK k, a : k = Key(h) /\ a = handlers[h].action
  OBVIOUS
<1>2. k \in FundKeys /\ a \in Actions
  BY <1>1, SagaAt DEF prepareChain, In, SagaPcs, FundingInv, HandlersFit, HandlerFits
<1>3. Rest /\ row' \in Row /\ evidence' \in Evidence /\ incidents' \in Nat
  BY DEF prepareChain, world, Rest, FundingInv, FundingTyped
<1>4. subs' \in Submitted
  <2>1. PICK status : status = IF subs[k][a] = "NONE" THEN "PENDING" ELSE subs[k][a]
    OBVIOUS
  <2>2. status \in {"NONE", "PENDING", "SUBMITTED", "RECONCILED", "MISMATCH"}
    BY <1>2, <2>1 DEF FundingInv, FundingTyped, Submitted
  <2>3. subs' = [subs EXCEPT ![k][a] = status]
    BY <1>1, <1>2, <2>1 DEF prepareChain, FundingInv, FundingTyped, Submitted
  <2>. QED
    BY <1>2, <2>2, <2>3, SubmissionMoves
<1>5. HandlersFit'
  BY <1>3, RestKeeps, SagaSteps DEF prepareChain, In
<1>. QED
  BY <1>3, <1>4, <1>5, RestingStep

LEMMA SubmitStays ==
  ASSUME FundingInv, NEW h \in Handlers, submitAction(h)
  PROVE  FundingInv'
<1>1. PICK k, a : k = Key(h) /\ a = handlers[h].action
  OBVIOUS
<1>2. k \in FundKeys /\ a \in Actions
  BY <1>1, SagaAt DEF submitAction, In, SagaPcs, FundingInv, HandlersFit, HandlerFits
<1>3. /\ UNCHANGED <<indexed, issues, sagas>>
      /\ row' \in Row /\ evidence' \in Evidence /\ subs' \in Submitted
  BY DEF submitAction, FundingInv, FundingTyped
<1>4. incidents' \in Nat
  BY IncidentCounts DEF submitAction, FundingInv, FundingTyped
<1>5. \/ UNCHANGED onchain
      \/ Accepts(a) /\ onchain' = Executed(a, k)
  BY <1>1 DEF submitAction
<1>6. Keeps /\ LedgerFits' /\ onchain' \in LedgerClaim
  <2>1. CASE UNCHANGED onchain
    BY <1>3, <2>1 DEF Keeps, LedgerFits, WasIssued, FundedBy, FundingInv, FundingTyped
  <2>2. CASE Accepts(a) /\ onchain' = Executed(a, k)
    <3>1. k # "none" /\ k \in Keys
      BY <1>2, FundingAssumption DEF Keys
    <3>2. CASE a = "ISSUE"
      BY <1>3, <2>2, <3>1, <3>2 DEF Accepts, Executed, Keeps, LedgerFits, WasIssued, FundedBy, FundingInv,
        FundingTyped, LedgerClaim, Actions
    <3>3. CASE a = "FUND"
      BY <1>3, <2>2, <3>1, <3>3 DEF Accepts, Executed, Keeps, LedgerFits, WasIssued, FundedBy, FundingInv,
        FundingTyped, LedgerClaim, Actions
    <3>4. CASE a = "COMPENSATE"
      BY <1>3, <2>2, <3>1, <3>4 DEF Accepts, Executed, Keeps, LedgerFits, WasIssued, FundedBy, FundingInv,
        FundingTyped, LedgerClaim, Actions
    <3>. QED
      BY <1>2, <3>2, <3>3, <3>4 DEF Actions
  <2>. QED
    BY <1>5, <2>1, <2>2
<1>7. IssuesFit' /\ SagasFit'
  BY <1>3, <1>6 DEF Keeps, IssuesFit, SagasFit, StepsFit, IsRecorded, FundingInv
<1>8. Step(h, "commit") \/ \E retryable \in BOOLEAN : Catch(h, retryable)
  BY DEF submitAction
<1>9. HandlersFit'
  BY <1>1, <1>2, <1>6, <1>8, SagaSteps, HandlerCatches DEF submitAction, In
<1>. QED
  BY <1>3, <1>4, <1>6, <1>7, <1>9 DEF FundingInv, FundingTyped

LEMMA FundingCommitStays ==
  ASSUME FundingInv, NEW h \in Handlers, commitChain(h)
  PROVE  FundingInv'
<1>1. PICK k, a : k = Key(h) /\ a = handlers[h].action
  OBVIOUS
<1>2. k \in FundKeys /\ a \in Actions
  BY <1>1, SagaAt DEF commitChain, In, SagaPcs, FundingInv, HandlersFit, HandlerFits
<1>3. /\ UNCHANGED <<onchain, indexed, issues, evidence>> /\ row' \in Row /\ incidents' \in Nat
  BY IncidentCounts DEF commitChain, world, FundingInv, FundingTyped
<1>4. CASE /\ subs' = [subs EXCEPT ![k][a] = "SUBMITTED"]
           /\ sagas' = [sagas EXCEPT ![k].steps[a] = "WAITING"]
           /\ Mark(h, "WAITING_EXTERNAL")
  <2>1. subs' \in Submitted
    BY <1>2, <1>4, SubmissionMoves
  <2>2. PICK steps : steps = [sagas[k].steps EXCEPT ![a] = "WAITING"]
    OBVIOUS
  <2>3. /\ steps \in Steps
        /\ \A s \in FundSteps : steps[s] = "SUCCEEDED" => sagas[k].steps[s] = "SUCCEEDED"
    BY <1>2, <2>2 DEF FundingInv, FundingTyped, Saga, Steps, FundSteps, Actions
  <2>4. sagas' = [sagas EXCEPT ![k].steps = steps]
    BY <1>2, <1>4, <2>2 DEF FundingInv, FundingTyped, Saga, Steps
  <2>5. StepsFit(k, sagas[k].steps)
    BY <1>2 DEF FundingInv, SagasFit
  <2>6. sagas' \in [FundKeys -> Saga] /\ SagasFit' /\ Keeps
    BY <1>2, <1>3, <2>3, <2>4, <2>5, StepEntered DEF StepsFit, FundSteps
  <2>7. HandlersFit'
    BY <1>1, <1>2, <1>4, <2>6, HandlerMarks DEF Marks
  <2>. QED
    BY <1>3, <2>1, <2>6, <2>7, SagaStep
<1>5. CASE Catch(h, FALSE) /\ UNCHANGED <<subs, sagas>>
  <2>1. Rest
    BY <1>3, <1>5 DEF Rest
  <2>. QED
    BY <1>1, <1>2, <1>3, <1>5, <2>1, RestKeeps, HandlerCatches, RestingStep DEF FundingInv, FundingTyped
<1>. QED
  BY <1>1, <1>4, <1>5 DEF commitChain

LEMMA MarkStays ==
  ASSUME FundingInv, NEW h \in Handlers, markStatus(h)
  PROVE  FundingInv'
<1>1. PICK k : k = Key(h)
  OBVIOUS
<1>2. k \in FundKeys /\ handlers[h].mark \in Marks
  BY <1>1, SagaAt DEF markStatus, In, SagaPcs, FundingInv, HandlersFit, Handler
<1>3. UNCHANGED <<onchain, indexed, issues, evidence>> /\ subs' \in Submitted /\ incidents' \in Nat
  BY IncidentCounts DEF markStatus, FundingInv, FundingTyped
<1>4. row' \in Row
  BY RowMoves DEF markStatus, FundingInv, FundingTyped
<1>5. CASE sagas' = [sagas EXCEPT ![k].status = handlers[h].mark] /\ Leave(h)
  <2>1. PICK v : v = [sagas[k] EXCEPT !.status = handlers[h].mark]
    OBVIOUS
  <2>2. v \in Saga /\ v.steps = sagas[k].steps /\ sagas' = [sagas EXCEPT ![k] = v]
    BY <1>2, <1>5, <2>1 DEF FundingInv, FundingTyped, Saga
  <2>3. Keeps
    BY <1>3 DEF Keeps, WasIssued, FundedBy
  <2>4. StepsFit(k, v.steps)'
    <3>1. StepsFit(k, v.steps)
      BY <1>2, <2>2 DEF FundingInv, SagasFit
    <3>. QED
      BY <1>3, <3>1 DEF StepsFit, FundedBy
  <2>5. sagas' \in [FundKeys -> Saga] /\ SagasFit'
    BY <1>2, <2>2, <2>3, <2>4, SagaMoves DEF Keeps
  <2>. QED
    BY <1>3, <1>4, <1>5, <2>3, <2>5, HandlerLeaves, SagaStep
<1>6. CASE UNCHANGED sagas /\ (Catch(h, FALSE) \/ Leave(h))
  <2>1. Rest
    BY <1>3, <1>6 DEF Rest
  <2>2. HandlersFit'
    BY <1>1, <1>2, <1>6, <2>1, RestKeeps, HandlerCatches, HandlerLeaves
  <2>. QED
    BY <1>3, <1>4, <2>1, <2>2, RestingStep DEF FundingInv, FundingTyped
<1>. QED
  BY <1>1, <1>5, <1>6 DEF markStatus

LEMMA AnchorStays ==
  ASSUME FundingInv, NEW h \in Handlers, anchorPayout(h)
  PROVE  FundingInv'
<1>1. PICK k : k = Key(h)
  OBVIOUS
<1>2. k \in FundKeys /\ FundedBy(k)
  BY <1>1, SagaAt DEF anchorPayout, In, SagaPcs, FundingInv, HandlersFit, HandlerFits, Key
<1>3. /\ UNCHANGED <<onchain, indexed, issues, evidence>>
      /\ row' \in Row /\ subs' \in Submitted /\ incidents' \in Nat
  BY IncidentCounts DEF anchorPayout, world, FundingInv, FundingTyped
<1>4. CASE /\ sagas' = [sagas EXCEPT ![k].steps["ANCHOR_PAYOUT"] = "SUCCEEDED"]
           /\ Continue(h, k, sagas'[k].steps)
  <2>1. PICK steps : steps = [sagas[k].steps EXCEPT !["ANCHOR_PAYOUT"] = "SUCCEEDED"]
    OBVIOUS
  <2>2. steps \in Steps
    BY <1>2, <2>1 DEF FundingInv, FundingTyped, Saga, Steps, FundSteps
  <2>3. sagas' = [sagas EXCEPT ![k].steps = steps] /\ sagas'[k].steps = steps
    BY <1>2, <1>4, <2>1 DEF FundingInv, FundingTyped, Saga, Steps
  <2>. QED
    BY <1>2, <1>3, <1>4, <2>2, <2>3, StepEntered, SagaStep
<1>5. CASE Mark(h, "PAUSED") /\ UNCHANGED sagas
  <2>1. Rest
    BY <1>3, <1>5 DEF Rest
  <2>2. HandlersFit'
    BY <1>1, <1>2, <1>5, <2>1, RestKeeps, HandlerMarks DEF Marks
  <2>. QED
    BY <1>3, <2>1, <2>2, RestingStep DEF FundingInv, FundingTyped
<1>. QED
  BY <1>1, <1>4, <1>5 DEF anchorPayout

LEMMA FinishStays ==
  ASSUME FundingInv, NEW h \in Handlers, finish(h)
  PROVE  FundingInv'
<1>1. PICK k : k = Key(h)
  OBVIOUS
<1>2. k \in FundKeys
  BY <1>1, SagaAt DEF finish, In, SagaPcs
<1>3. /\ UNCHANGED <<onchain, indexed, issues, evidence>>
      /\ row' \in Row /\ subs' \in Submitted /\ incidents' \in Nat
  BY DEF finish, world, FundingInv, FundingTyped
<1>4. PICK v : v = [sagas[k] EXCEPT !.status = "COMPLETED", !.answered = TRUE]
  OBVIOUS
<1>5. v \in Saga /\ v.steps = sagas[k].steps /\ sagas' = [sagas EXCEPT ![k] = v]
  BY <1>1, <1>2, <1>4 DEF finish, FundingInv, FundingTyped, Saga
<1>6. Keeps
  BY <1>3 DEF Keeps, WasIssued, FundedBy
<1>7. StepsFit(k, v.steps)'
  <2>1. StepsFit(k, v.steps)
    BY <1>2, <1>5 DEF FundingInv, SagasFit
  <2>. QED
    BY <1>3, <2>1 DEF StepsFit, FundedBy
<1>8. sagas' \in [FundKeys -> Saga] /\ SagasFit'
  BY <1>2, <1>5, <1>6, <1>7, SagaMoves DEF Keeps
<1>9. HandlersFit'
  BY <1>6, HandlerLeaves DEF finish
<1>. QED
  BY <1>3, <1>8, <1>9, SagaStep

LEMMA ResumeStays ==
  ASSUME FundingInv, NEW h \in Handlers, NEW k \in FundKeys, NEW a \in Actions, resume(h, k, a)
  PROVE  FundingInv'
<1>1. Rest /\ row' \in Row /\ evidence' \in Evidence /\ subs' \in Submitted /\ incidents' \in Nat
  BY DEF resume, world, Rest, FundingInv, FundingTyped
<1>2. PICK v : v = [handlers[h] EXCEPT !.pc = "reconcile", !.key = k, !.action = a]
  OBVIOUS
<1>3. v \in Handler /\ v.pc = "reconcile" /\ v.key = k /\ v.action = a
  BY <1>2 DEF FundingInv, HandlersFit, Handler, Keys, SagaPcs
<1>4. HandlerFits(v)'
  BY <1>3 DEF HandlerFits, IssuePcs
<1>5. handlers' = [handlers EXCEPT ![h] = v]
  BY <1>2 DEF resume
<1>. QED
  BY <1>1, <1>3, <1>4, <1>5, RestKeeps, HandlerGoes, RestingStep

(* A reconciled step is believed because the ledger named this key; for    *)
(* FUND this makes the claim this saga's own.                              *)
LEMMA ReconcileStays ==
  ASSUME FundingInv, NEW h \in Handlers, recordChainReconciliation(h)
  PROVE  FundingInv'
<1>0. PICK k, a : k = Key(h) /\ a = handlers[h].action
  OBVIOUS
<1>1. k \in FundKeys /\ a \in Actions
  BY <1>0, SagaAt DEF recordChainReconciliation, In, SagaPcs, FundingInv, HandlersFit, HandlerFits
<1>2. /\ UNCHANGED <<onchain, indexed, issues, evidence>>
      /\ subs' \in Submitted /\ incidents' \in Nat
  BY IncidentCounts DEF recordChainReconciliation, FundingInv, FundingTyped
<1>3. row' \in Row
  BY RowMoves DEF recordChainReconciliation, FundingInv, FundingTyped
<1>4. Keeps
  BY <1>2 DEF Keeps, WasIssued, FundedBy
<1>5. ItsSubmission(k, a) /\ a = "FUND" => FundedBy(k)
  <2>1. k # "none"
    BY <1>1, FundingAssumption
  <2>. QED
    BY <2>1 DEF ItsSubmission, FundedBy, FundingInv, LedgerFits
<1>6. PICK steps : steps = [sagas[k].steps EXCEPT ![a] = "SUCCEEDED"]
  OBVIOUS
<1>7. PICK failed : failed = [sagas[k].steps EXCEPT ![a] = "FAILED"]
  OBVIOUS
<1>8. StepsFit(k, sagas[k].steps) /\ sagas[k] \in Saga
  BY <1>1 DEF FundingInv, FundingTyped, SagasFit
<1>9. /\ steps \in Steps /\ failed \in Steps /\ StepsFit(k, failed)
      /\ ItsSubmission(k, a) => StepsFit(k, steps)
  <2>1. steps \in Steps /\ failed \in Steps
    BY <1>1, <1>6, <1>7, <1>8 DEF Saga, Steps, FundSteps, Actions
  <2>2. a = "FUND" \/ steps["FUND"] = sagas[k].steps["FUND"]
    BY <1>6, <1>8 DEF Saga, Steps, FundSteps
  <2>3. steps["ANCHOR_PAYOUT"] = sagas[k].steps["ANCHOR_PAYOUT"]
    BY <1>1, <1>6, <1>8 DEF Saga, Steps, FundSteps, Actions
  <2>4. \A s \in FundSteps : failed[s] = "SUCCEEDED" => sagas[k].steps[s] = "SUCCEEDED"
    BY <1>1, <1>7, <1>8 DEF Saga, Steps, FundSteps, Actions
  <2>5. ItsSubmission(k, a) => StepsFit(k, steps)
    BY <1>5, <1>8, <2>2, <2>3 DEF StepsFit
  <2>6. StepsFit(k, failed)
    BY <1>8, <2>4 DEF StepsFit, FundSteps
  <2>. QED
    BY <2>1, <2>5, <2>6
<1>10. ASSUME NEW v \in Saga, sagas' = [sagas EXCEPT ![k] = v], StepsFit(k, v.steps), HandlersFit'
       PROVE  FundingInv'
  <2>1. StepsFit(k, v.steps)'
    BY <1>2, <1>10 DEF StepsFit, FundedBy
  <2>2. sagas' \in [FundKeys -> Saga] /\ SagasFit'
    BY <1>1, <1>4, <1>10, <2>1, SagaMoves DEF Keeps
  <2>. QED
    BY <1>2, <1>3, <1>10, <2>2, SagaStep
<1>11. CASE Leave(h) /\ UNCHANGED sagas
  <2>1. Rest
    BY <1>2, <1>11 DEF Rest
  <2>. QED
    BY <1>2, <1>3, <1>11, <2>1, RestKeeps, HandlerLeaves, RestingStep DEF FundingInv, FundingTyped
<1>12. CASE /\ Leave(h)
            /\ sagas' = [sagas EXCEPT ![k] = [sagas[k] EXCEPT !.steps[a] = "FAILED", !.status = "FAILED"]]
  <2>1. PICK v : v = [sagas[k] EXCEPT !.steps[a] = "FAILED", !.status = "FAILED"]
    OBVIOUS
  <2>2. v \in Saga /\ v.steps = failed
    BY <1>7, <1>8, <1>9, <2>1 DEF Saga, Marks
  <2>3. HandlersFit'
    BY <1>4, <1>12, HandlerLeaves
  <2>. QED
    BY <1>9, <1>10, <1>12, <2>1, <2>2, <2>3
<1>13. CASE ItsSubmission(k, a) /\ Step(h, "begin") /\ sagas' = [sagas EXCEPT ![k].steps = steps]
  <2>1. PICK v : v = [sagas[k] EXCEPT !.steps = steps]
    OBVIOUS
  <2>2. v \in Saga /\ v.steps = steps /\ sagas' = [sagas EXCEPT ![k] = v]
    BY <1>8, <1>9, <1>13, <2>1 DEF Saga
  <2>3. HandlersFit'
    BY <1>4, <1>13, SagaSteps DEF recordChainReconciliation, In
  <2>. QED
    BY <1>9, <1>10, <1>13, <2>2, <2>3
<1>14. CASE /\ ItsSubmission(k, a) /\ Leave(h)
            /\ sagas' = [sagas EXCEPT ![k] = [sagas[k] EXCEPT !.steps = steps, !.status = "COMPENSATED", !.answered = TRUE]]
  <2>1. PICK v : v = [sagas[k] EXCEPT !.steps = steps, !.status = "COMPENSATED", !.answered = TRUE]
    OBVIOUS
  <2>2. v \in Saga /\ v.steps = steps
    BY <1>8, <1>9, <2>1 DEF Saga
  <2>3. HandlersFit'
    BY <1>4, <1>14, HandlerLeaves
  <2>. QED
    BY <1>9, <1>10, <1>14, <2>1, <2>2, <2>3
<1>. QED
  BY <1>0, <1>6, <1>11, <1>12, <1>13, <1>14 DEF recordChainReconciliation

LEMMA BeginStays ==
  ASSUME FundingInv, NEW h \in Handlers, begin(h)
  PROVE  FundingInv'
<1>1. Rest /\ row' \in Row /\ evidence' \in Evidence /\ subs' \in Submitted /\ incidents' \in Nat
  BY DEF begin, world, Rest, FundingInv, FundingTyped
<1>2. PICK k \in FundKeys : k = Key(h)
  BY SagaAt DEF begin, In, SagaPcs
<1>3. PICK steps : steps = sagas[k].steps
  OBVIOUS
<1>4. steps["FUND"] = "SUCCEEDED" => FundedBy(k)'
  BY <1>1, <1>2, <1>3 DEF FundingInv, SagasFit, StepsFit, Rest, FundedBy
<1>5. Leave(h) \/ Continue(h, k, steps)
  BY <1>2, <1>3 DEF begin
<1>. QED
  BY <1>1, <1>4, <1>5, RestKeeps, HandlerLeaves, HandlerContinues, RestingStep

LEMMA CompensateStays ==
  ASSUME FundingInv, NEW h \in Handlers, NEW k \in FundKeys, compensate(h, k)
  PROVE  FundingInv'
<1>1. Rest /\ row' \in Row /\ evidence' \in Evidence /\ subs' \in Submitted /\ incidents' \in Nat
  BY DEF compensate, world, Rest, FundingInv, FundingTyped
<1>2. PICK v : v = [handlers[h] EXCEPT !.pc = "prepare", !.key = k, !.action = "COMPENSATE"]
  OBVIOUS
<1>3. v \in Handler /\ v.pc = "prepare" /\ v.key = k /\ v.action = "COMPENSATE"
  BY <1>2 DEF FundingInv, HandlersFit, Handler, Keys, SagaPcs, Actions
<1>4. HandlerFits(v)'
  BY <1>3 DEF HandlerFits, IssuePcs, Actions
<1>5. handlers' = [handlers EXCEPT ![h] = v]
  BY <1>2 DEF compensate
<1>. QED
  BY <1>1, <1>3, <1>4, <1>5, RestKeeps, HandlerGoes, RestingStep

LEMMA CrashStays ==
  ASSUME FundingInv, NEW h \in Handlers, crashHandler(h)
  PROVE  FundingInv'
<1>1. Rest /\ row' \in Row /\ evidence' \in Evidence /\ subs' \in Submitted
  BY DEF crashHandler, world, Rest, FundingInv, FundingTyped
<1>2. incidents' \in Nat /\ HandlersFit'
  BY <1>1, IncidentCounts, RestKeeps, HandlerLeaves DEF crashHandler, Aborts
<1>. QED
  BY <1>1, <1>2, RestingStep

-----------------------------------------------------------------------------
(* The chain indexer.                                                      *)

LEMMA FundingIndexStays ==
  ASSUME FundingInv, NEW a \in Actions, indexAction(a)
  PROVE  FundingInv'
<1>1. /\ UNCHANGED <<row, evidence, onchain, issues, sagas, subs, handlers, incidents>>
      /\ indexed' = indexed \cup {a} /\ onchain.by[a] # "none"
  BY DEF indexAction
<1>2. FundingTyped'
  BY <1>1 DEF FundingInv, FundingTyped
<1>3. LedgerFits' /\ IssuesFit' /\ SagasFit' /\ Keeps
  BY <1>1 DEF FundingInv, LedgerFits, IssuesFit, SagasFit, StepsFit, Keeps, IsRecorded, WasIssued, FundedBy
<1>. QED
  BY <1>1, <1>2, <1>3, HandlersRest DEF FundingInv

LEMMA JudgeIssueStays ==
  ASSUME FundingInv, NEW k \in IssueKeys, judgeIssue(k)
  PROVE  FundingInv'
<1>1. UNCHANGED <<onchain, indexed, sagas, evidence, subs, handlers>>
  BY DEF judgeIssue
<1>2. row' \in Row /\ incidents' \in Nat
  BY RowMoves, IncidentCounts DEF judgeIssue, PauseRow, Judged, FundingInv, FundingTyped
<1>3. PICK v : v = [issues[k] EXCEPT !.submission = "MISMATCH"]
  OBVIOUS
<1>4. v \in Issue /\ v.submission # "NONE" /\ v.answered = issues[k].answered /\ issues' = [issues EXCEPT ![k] = v]
  BY <1>3 DEF judgeIssue, FundingInv, FundingTyped, Issue
<1>5. issues' \in [IssueKeys -> Issue] /\ IssuesFit' /\ Keeps
  BY <1>1, <1>4, IssueMoves DEF FundingInv, IssuesFit, IsRecorded
<1>. QED
  BY <1>1, <1>2, <1>5, HandlersRest, IssueStep

(* A verdict that completes a saga is about a transaction of its own.      *)
LEMMA JudgeSagaStays ==
  ASSUME FundingInv, NEW k \in FundKeys, NEW a \in Actions, judgeSaga(k, a)
  PROVE  FundingInv'
<1>1. UNCHANGED <<onchain, indexed, issues, evidence>> /\ handlers' = handlers
  BY DEF judgeSaga
<1>2. row' \in Row /\ incidents' \in Nat
  BY RowMoves, IncidentCounts DEF judgeSaga, PauseRow, Judged, FundingInv, FundingTyped
<1>3. subs' \in Submitted
  BY SubmissionMoves DEF judgeSaga
<1>4. Keeps
  BY <1>1, <1>2 DEF Keeps, WasIssued, FundedBy
<1>5. CASE UNCHANGED sagas
  <2>1. Rest
    BY <1>1, <1>5 DEF Rest
  <2>. QED
    BY <1>1, <1>2, <1>3, <2>1, RestKeeps, HandlersRest, RestingStep DEF FundingInv, FundingTyped
<1>6. CASE onchain.by["FUND"] = k /\ sagas' = [sagas EXCEPT ![k] = Completed(sagas[k])]
  <2>1. FundedBy(k)
    BY <1>6, FundingAssumption DEF FundedBy, FundingInv, LedgerFits
  <2>2. PICK v : v = Completed(sagas[k])
    OBVIOUS
  <2>3. v \in Saga
    <3>1. sagas[k] \in Saga
      BY DEF FundingInv, FundingTyped
    <3>. QED
      BY <2>2, <3>1 DEF Completed, Saga, Steps, FundSteps
  <2>4. StepsFit(k, v.steps)'
    BY <1>1, <2>1 DEF StepsFit, FundedBy
  <2>5. sagas' \in [FundKeys -> Saga] /\ SagasFit'
    BY <1>4, <1>6, <2>2, <2>3, <2>4, SagaMoves DEF Keeps
  <2>6. HandlersFit'
    BY <1>1, <1>4, HandlersRest
  <2>. QED
    BY <1>1, <1>2, <1>3, <2>5, <2>6, SagaStep
<1>. QED
  BY <1>5, <1>6 DEF judgeSaga, EventMatches

-----------------------------------------------------------------------------

LEMMA FundingStarts == FundingInit => FundingInv
<1>. SUFFICES ASSUME FundingInit PROVE FundingInv
  OBVIOUS
<1>1. FundingTyped
  <2>1. row \in Row /\ evidence \in Evidence /\ subs \in Submitted /\ incidents \in Nat /\ indexed \subseteq Actions
    BY DEF FundingInit, Row, Evidence, Submitted
  <2>2. onchain \in LedgerClaim
    BY DEF FundingInit, LedgerClaim
  <2>3. issues \in [IssueKeys -> Issue] /\ sagas \in [FundKeys -> Saga]
    BY DEF FundingInit, Issue, Saga, Steps
  <2>. QED
    BY <2>1, <2>2, <2>3 DEF FundingTyped
<1>2. LedgerFits /\ IssuesFit /\ SagasFit
  BY DEF FundingInit, LedgerFits, IssuesFit, SagasFit, StepsFit, Actions, FundSteps
<1>3. HandlersFit
  BY DEF FundingInit, HandlersFit, HandlerFits, Handler, IdleHandler, IssuePcs, SagaPcs, Marks
<1>. QED
  BY <1>1, <1>2, <1>3 DEF FundingInv

LEMMA FundingStays == FundingInv /\ [FundingNext]_fundingVars => FundingInv'
<1>. SUFFICES ASSUME FundingInv, [FundingNext]_fundingVars PROVE FundingInv'
  OBVIOUS
<1>1. CASE ControlCommand
  BY <1>1, CommandStays
<1>2. CASE IndexerStep
  BY <1>2, FundingIndexStays, JudgeIssueStays, JudgeSagaStays DEF IndexerStep
<1>3. ASSUME NEW h \in Handlers, HandlerStep(h) PROVE FundingInv'
  <2>1. ASSUME NEW k \in IssueKeys, openIssue(h, k) PROVE FundingInv'
    BY <2>1, OpenIssueStays
  <2>2. CASE facts(h) \/ onchainState(h) \/ callLedger(h) \/ indexedIssue(h)
    BY <2>2, FactsStays, LookStays, FundingCallStays, IndexedIssueStays
  <2>3. CASE recordSubmission(h) \/ completeIssue(h)
    BY <2>3, FundingRecordStays, CompleteStays
  <2>4. ASSUME NEW k \in FundKeys, openFunding(h, k) \/ compensate(h, k) PROVE FundingInv'
    BY <2>4, OpenFundingStays, CompensateStays
  <2>5. ASSUME NEW k \in FundKeys, NEW a \in Actions, resume(h, k, a) PROVE FundingInv'
    BY <2>5, ResumeStays
  <2>6. CASE ensurePreconditions(h) \/ issuerApproval(h) \/ prepareChain(h) \/ submitAction(h)
    BY <2>6, PreconditionsStays, IssuerStays, PrepareStays, SubmitStays
  <2>7. CASE commitChain(h) \/ markStatus(h) \/ anchorPayout(h) \/ finish(h) \/ crashHandler(h)
    BY <2>7, FundingCommitStays, MarkStays, AnchorStays, FinishStays, CrashStays
  <2>8. CASE recordChainReconciliation(h) \/ begin(h)
    BY <2>8, ReconcileStays, BeginStays
  <2>. QED
    BY <1>3, <2>1, <2>2, <2>3, <2>4, <2>5, <2>6, <2>7, <2>8 DEF HandlerStep
<1>4. CASE UNCHANGED fundingVars
  <2>1. /\ Rest /\ handlers' = handlers
        /\ row' \in Row /\ evidence' \in Evidence /\ subs' \in Submitted /\ incidents' \in Nat
    BY <1>4 DEF fundingVars, Rest, FundingInv, FundingTyped
  <2>. QED
    BY <2>1, RestKeeps, HandlersRest, RestingStep
<1>. QED
  BY <1>1, <1>2, <1>3, <1>4 DEF FundingNext

(* The rows of the claim and of what is submitted for it hold what the     *)
(* columns allow.                                                          *)
THEOREM FundingTypeCorrect == FundingSpec => []FundingTypeOK
<1>1. FundingInv => FundingTypeOK
  BY DEF FundingInv, FundingTyped, FundingTypeOK, Row, Evidence, LedgerClaim, Keys, Saga, Steps, Submitted
<1>. QED
  BY <1>1, FundingStarts, FundingStays, PTL DEF FundingSpec

(* The anchor pays the seller of a saga only when this saga's transaction  *)
(* funded the claim: the step FUND succeeds by a transaction of this key   *)
(* alone, whether a worker has reported it or the indexer has completed    *)
(* the saga; the contract funds a claim once, and nothing takes the ledger *)
(* back from there, so that no second saga is ever paid.                   *)
THEOREM PayoutsAreFunded == FundingSpec => []PayoutIsFunded
<1>1. FundingInv => PayoutIsFunded
  BY DEF FundingInv, SagasFit, StepsFit, FundedBy, PayoutIsFunded
<1>. QED
  BY <1>1, FundingStarts, FundingStays, PTL DEF FundingSpec

(* POST /issue succeeds only for a claim that was issued and whose         *)
(* submission is recorded, wherever its handlers were ended before.        *)
THEOREM AnswersAreRecorded == FundingSpec => []AnsweredIssueIsRecorded
<1>1. FundingInv => AnsweredIssueIsRecorded
  BY DEF FundingInv, IssuesFit, IsRecorded, WasIssued, AnsweredIssueIsRecorded
<1>. QED
  BY <1>1, FundingStarts, FundingStays, PTL DEF FundingSpec

-----------------------------------------------------------------------------
(* Resolution and closing.                                                 *)

Txs == ResolutionKeys \cup {"CLOSE"}
RowStates == {"REPAID", "SHORTFALL", "RESOLUTION", "PAUSED"} \cup Terminal
ClosingRow == [state : RowStates, version : Nat]
ChainStates == {"REPAID", "REDEEMED", "SHORTFALL", "RESOLUTION"} \cup Terminal
ChainClaim == [state : ChainStates, issued : BOOLEAN, escrow : BOOLEAN,
               status : {"NONE", "OPEN", "RECOVERING", "CLOSED"}, openedBy : ResolutionKeys \cup {"none"},
               recovered : Nat, finalLoss : Nat]
CaseRow == [status : {"NONE", "OPEN", "RECOVERING", "SETTLED", "WRITTEN_OFF"}, realized : Nat, finalLoss : Nat]
CommandRow == [action : {"NONE", "OPEN", "UPDATE", "CLOSE"}, amount : Nat \cup {-1}, version : Nat, answered : BOOLEAN]
CloseSub == [status : {"NONE", "PENDING", "RECONCILED", "MISMATCH"}, expected : {"none", "RESOLUTION"} \cup Terminal]
FinalizerPcs == {"idle", "redeem", "release", "close", "expect", "promote"}
Resolver == [pc : {"idle", "look", "call", "clawback", "record", "mutate"}, key : ResolutionKeys \cup {"none"},
             recovered : Nat, delta : Nat, sent : BOOLEAN]

ClosingTyped ==
  /\ closingRow \in ClosingRow /\ chainClaim \in ChainClaim /\ caseRow \in CaseRow
  /\ commands \in [ResolutionKeys -> CommandRow] /\ closeSubs \in [Txs -> CloseSub]
  /\ executedTx \subseteq Txs /\ indexedTx \subseteq executedTx
  /\ mishaps \in Nat

(* The claim has ended on the ledger in a state, and nothing of it is held *)
(* or outstanding; its resolution was closed with a recovery.              *)
Ended(state) == chainClaim.state = state /\ ~ chainClaim.issued /\ ~ chainClaim.escrow
ClosedWith(recovered) ==
  chainClaim.status = "CLOSED" /\ chainClaim.recovered = recovered /\ chainClaim.finalLoss = FinalLoss(recovered)

(* A claim on the ledger is on its way through repayment or on the one     *)
(* through resolution.                                                     *)
ChainFits ==
  /\ chainClaim.status = "NONE" => chainClaim.state \in {"REPAID", "REDEEMED", "CLOSED", "SHORTFALL"}
  /\ chainClaim.status \in {"OPEN", "RECOVERING"} => chainClaim.state = "RESOLUTION"
  /\ chainClaim.status = "CLOSED" =>
       ClosedWith(chainClaim.recovered) /\ chainClaim.state = ClosedState(chainClaim.finalLoss)
  /\ chainClaim.status # "NONE" \/ chainClaim.state = "SHORTFALL" => ~ chainClaim.escrow
  /\ chainClaim.status = "NONE" /\ chainClaim.state = "CLOSED" => Ended("CLOSED")
  /\ projected = "CLOSED" => chainClaim.state = "CLOSED"

RowFits ==
  /\ closingRow.state \in Terminal => Ended(closingRow.state)
  /\ closingRow.state = "REPAID" =>
       chainClaim.status = "NONE" /\ chainClaim.state \in {"REPAID", "REDEEMED", "CLOSED"}

CommandsFit ==
  \A k \in ResolutionKeys :
    /\ commands[k].version <= closingRow.version
    /\ commands[k].action = "UPDATE" => commands[k].amount # -1
    /\ commands[k].action = "NONE" => commands[k] = NoCommand

SubsFit ==
  /\ \A tx \in Txs : closeSubs[tx].expected \in Terminal => Ended(closeSubs[tx].expected)
  /\ \A tx \in Txs : closeSubs[tx].status # "NONE" => closeSubs[tx].expected # "none"
  /\ verdict # NoVerdict => verdict.tx \in Txs /\ closeSubs[verdict.tx].status # "NONE"

FinalizerFits(pc) ==
  /\ pc = "close" => ~ chainClaim.escrow
  /\ pc \in {"expect", "promote"} => Ended("CLOSED")

FinalizersFit == finalizers \in [Finalizers -> FinalizerPcs] /\ \A f \in Finalizers : FinalizerFits(finalizers[f])

(* The recovery a command means, as the case stands.                       *)
Recovery(c) == IF c.amount = -1 THEN caseRow.realized ELSE c.amount

(* What a request knows where it is.  The recovery it has looked up is     *)
(* still the one it means as long as the claim has its version.            *)
ResolverFits(v) ==
  v.pc # "idle" =>
    /\ v.key \in ResolutionKeys /\ commands[v.key].action # "NONE"
    /\ v.pc = "clawback" => commands[v.key].action = "CLOSE"
    /\ v.pc # "look" /\ commands[v.key].action # "OPEN" /\ commands[v.key].version = closingRow.version =>
         v.recovered = Recovery(commands[v.key])
    /\ commands[v.key].action = "UPDATE" =>
         /\ v.pc = "call" => v.recovered <= chainClaim.recovered + v.delta
         /\ v.pc \in {"record", "mutate"} => v.recovered <= chainClaim.recovered
    /\ commands[v.key].action = "CLOSE" =>
         /\ v.pc \in {"clawback", "record", "mutate"} => ClosedWith(v.recovered)
         /\ v.pc \in {"record", "mutate"} => ~ chainClaim.issued /\ ~ chainClaim.escrow

ResolversFit == resolvers \in [Resolvers -> Resolver] /\ \A h \in Resolvers : ResolverFits(resolvers[h])

ClosingInv ==
  /\ ClosingTyped /\ ChainFits /\ RowFits /\ CommandsFit /\ SubsFit
  /\ FinalizersFit /\ ResolversFit /\ CaseMatchesLedger

(* What the ledger has ended stays so, and its recovery only grows.        *)
ChainKeeps ==
  /\ chainClaim.state \in Terminal => chainClaim'.state = chainClaim.state
  /\ ~ chainClaim.issued => ~ chainClaim'.issued
  /\ ~ chainClaim.escrow => ~ chainClaim'.escrow
  /\ chainClaim.recovered <= chainClaim'.recovered
  /\ chainClaim.status = "CLOSED" =>
       /\ chainClaim'.status = "CLOSED" /\ chainClaim'.recovered = chainClaim.recovered
       /\ chainClaim'.finalLoss = chainClaim.finalLoss

(* The case changes only with the version of the claim; a command stays.   *)
StoreKeeps ==
  /\ \/ UNCHANGED <<closingRow, caseRow>>
     \/ closingRow'.version = closingRow.version + 1
  /\ \A k \in ResolutionKeys : commands[k].action # "NONE" =>
       /\ commands'[k].action = commands[k].action /\ commands'[k].amount = commands[k].amount
       /\ commands'[k].version = commands[k].version

LEMMA EndedStays ==
  ASSUME ChainKeeps, NEW s \in Terminal, Ended(s)
  PROVE  Ended(s)'
BY DEF ChainKeeps, Ended

LEMMA ClosedWithStays ==
  ASSUME ChainKeeps, NEW r, ClosedWith(r)
  PROVE  ClosedWith(r)'
BY DEF ChainKeeps, ClosedWith

LEMMA FinalizerKnows ==
  ASSUME ChainKeeps, NEW pc, FinalizerFits(pc)
  PROVE  FinalizerFits(pc)'
BY EndedStays DEF FinalizerFits, ChainKeeps, Terminal

LEMMA ResolverKnows ==
  ASSUME ClosingInv, ChainKeeps, StoreKeeps, chainClaim' \in ChainClaim, NEW v \in Resolver, ResolverFits(v)
  PROVE  ResolverFits(v)'
<1>. SUFFICES ASSUME v.pc # "idle" PROVE ResolverFits(v)'
  BY DEF ResolverFits
<1>1. PICK k : k = v.key
  OBVIOUS
<1>2. k \in ResolutionKeys /\ commands[k].action # "NONE"
  BY <1>1 DEF ResolverFits
<1>3. /\ commands'[k].action = commands[k].action /\ commands'[k].amount = commands[k].amount
      /\ commands'[k].version = commands[k].version
  BY <1>2 DEF StoreKeeps
<1>4. commands[k].version <= closingRow.version /\ commands[k].version \in Nat /\ closingRow.version \in Nat
  BY <1>2 DEF ClosingInv, CommandsFit, ClosingTyped, CommandRow, ClosingRow
<1>5. ASSUME v.pc # "look", commands'[k].action # "OPEN", commands'[k].version = closingRow'.version
      PROVE  v.recovered = Recovery(commands[k])'
  <2>1. UNCHANGED <<closingRow, caseRow>>
    BY <1>3, <1>4, <1>5 DEF StoreKeeps
  <2>2. v.recovered = Recovery(commands[k])
    BY <1>1, <1>3, <1>5, <2>1 DEF ResolverFits
  <2>. QED
    BY <1>3, <2>1, <2>2 DEF Recovery
<1>6. v.recovered \in Nat /\ v.delta \in Nat /\ chainClaim.recovered \in Nat /\ chainClaim'.recovered \in Nat
  BY DEF Resolver, ClosingInv, ClosingTyped, ChainClaim
<1>7. ASSUME commands[k].action = "UPDATE"
      PROVE  /\ v.pc = "call" => v.recovered <= chainClaim'.recovered + v.delta
             /\ v.pc \in {"record", "mutate"} => v.recovered <= chainClaim'.recovered
  BY <1>1, <1>2, <1>6, <1>7 DEF ResolverFits, ChainKeeps
<1>8. ASSUME commands[k].action = "CLOSE"
      PROVE  /\ v.pc \in {"clawback", "record", "mutate"} => ClosedWith(v.recovered)'
             /\ v.pc \in {"record", "mutate"} => ~ chainClaim'.issued /\ ~ chainClaim'.escrow
  <2>1. v.pc \in {"clawback", "record", "mutate"} => ClosedWith(v.recovered)'
    BY <1>1, <1>2, <1>8, ClosedWithStays DEF ResolverFits
  <2>2. v.pc \in {"record", "mutate"} => ~ chainClaim'.issued /\ ~ chainClaim'.escrow
    BY <1>1, <1>2, <1>8 DEF ResolverFits, ChainKeeps
  <2>. QED
    BY <2>1, <2>2
<1>9. v.pc = "clawback" => commands'[k].action = "CLOSE"
  BY <1>1, <1>3 DEF ResolverFits
<1>. QED
  BY <1>1, <1>2, <1>3, <1>5, <1>7, <1>8, <1>9 DEF ResolverFits

LEMMA FinalizersRest ==
  ASSUME ClosingInv, ChainKeeps, UNCHANGED finalizers
  PROVE  FinalizersFit'
BY FinalizerKnows DEF ClosingInv, FinalizersFit

LEMMA FinalizerGoes ==
  ASSUME ClosingInv, ChainKeeps, NEW f \in Finalizers, NEW pc \in FinalizerPcs, FinalizerTo(f, pc), FinalizerFits(pc)'
  PROVE  FinalizersFit'
BY FinalizerKnows DEF ClosingInv, FinalizersFit, FinalizerTo

LEMMA ResolversRest ==
  ASSUME ClosingInv, ChainKeeps, StoreKeeps, chainClaim' \in ChainClaim, UNCHANGED resolvers
  PROVE  ResolversFit'
<1>1. ASSUME NEW h \in Resolvers PROVE ResolverFits(resolvers[h])'
  <2>1. PICK v : v = resolvers[h]
    OBVIOUS
  <2>2. v \in Resolver /\ ResolverFits(v)
    BY <2>1 DEF ClosingInv, ResolversFit
  <2>3. ResolverFits(v)'
    BY <2>2, ResolverKnows
  <2>. QED
    BY <2>1, <2>3 DEF ResolverFits
<1>. QED
  BY <1>1 DEF ClosingInv, ResolversFit

LEMMA ResolverGoes ==
  ASSUME ClosingInv, ChainKeeps, StoreKeeps, chainClaim' \in ChainClaim, NEW h \in Resolvers, NEW v \in Resolver,
         resolvers' = [resolvers EXCEPT ![h] = v], ResolverFits(v)'
  PROVE  ResolversFit'
<1>1. resolvers' \in [Resolvers -> Resolver]
  BY DEF ClosingInv, ResolversFit
<1>2. ASSUME NEW g \in Resolvers PROVE ResolverFits(resolvers[g])'
  <2>1. PICK u : u = resolvers'[g]
    OBVIOUS
  <2>2. CASE g = h
    <3>1. u = v
      BY <2>1, <2>2 DEF ClosingInv, ResolversFit
    <3>. QED
      BY <2>1, <3>1 DEF ResolverFits
  <2>3. CASE g # h
    <3>1. u \in Resolver /\ ResolverFits(u)
      BY <2>1, <2>3 DEF ClosingInv, ResolversFit
    <3>2. ResolverFits(u)'
      BY <3>1, ResolverKnows
    <3>. QED
      BY <2>1, <3>2 DEF ResolverFits
  <2>. QED
    BY <2>2, <2>3
<1>. QED
  BY <1>1, <1>2 DEF ResolversFit

LEMMA ResolverEnding ==
  ASSUME ClosingInv, ChainKeeps, StoreKeeps, chainClaim' \in ChainClaim, NEW h \in Resolvers, ResolverEnds(h)
  PROVE  ResolversFit'
<1>1. IdleResolver \in Resolver
  BY DEF IdleResolver, Resolver
<1>2. ResolverFits(IdleResolver)'
  BY DEF IdleResolver, ResolverFits
<1>. QED
  BY <1>1, <1>2, ResolverGoes DEF ResolverEnds

(* A step that leaves the rows alone.                                      *)
LEMMA LedgerStep ==
  ASSUME ClosingInv, UNCHANGED closingStore, UNCHANGED verdict, chainClaim' \in ChainClaim, ChainKeeps,
         closingRow.state = "REPAID" =>
           chainClaim'.status = "NONE" /\ chainClaim'.state \in {"REPAID", "REDEEMED", "CLOSED"}
  PROVE  StoreKeeps /\ RowFits' /\ CommandsFit' /\ SubsFit' /\ CaseMatchesLedger'
<1>1. UNCHANGED <<closingRow, caseRow, commands, closeSubs>>
  BY DEF closingStore
<1>2. StoreKeeps /\ CommandsFit'
  BY <1>1 DEF StoreKeeps, ClosingInv, CommandsFit
<1>3. RowFits'
  <2>1. closingRow.state \in Terminal => Ended(closingRow.state)'
    BY <1>1, EndedStays DEF ClosingInv, RowFits, Ended
  <2>. QED
    BY <1>1, <2>1 DEF RowFits, Ended
<1>4. SubsFit'
  <2>1. ASSUME NEW tx \in Txs, closeSubs[tx].expected \in Terminal PROVE Ended(closeSubs[tx].expected)'
    <3>1. PICK s : s = closeSubs[tx].expected
      OBVIOUS
    <3>2. Ended(s)'
      BY <2>1, <3>1, EndedStays DEF ClosingInv, SubsFit
    <3>. QED
      BY <1>1, <3>1, <3>2 DEF Ended
  <2>2. ASSUME NEW tx \in Txs, closeSubs'[tx].expected \in Terminal PROVE Ended(closeSubs[tx].expected)'
    BY <1>1, <2>1, <2>2
  <2>3. verdict' # NoVerdict => verdict'.tx \in Txs /\ closeSubs'[verdict'.tx].status # "NONE"
    BY <1>1 DEF ClosingInv, SubsFit
  <2>4. \A tx \in Txs : closeSubs'[tx].status # "NONE" => closeSubs'[tx].expected # "none"
    BY <1>1 DEF ClosingInv, SubsFit
  <2>. QED
    BY <2>2, <2>3, <2>4 DEF SubsFit
<1>5. CaseMatchesLedger'
  <2>1. /\ caseRow.realized \in Nat /\ chainClaim.recovered \in Nat /\ chainClaim'.recovered \in Nat
        /\ caseRow.realized <= chainClaim.recovered
    BY DEF ClosingInv, ClosingTyped, CaseRow, ChainClaim, CaseMatchesLedger
  <2>2. caseRow'.realized <= chainClaim'.recovered
    BY <1>1, <2>1 DEF ChainKeeps
  <2>. QED
    BY <1>1, <2>2 DEF ClosingInv, CaseMatchesLedger, ChainKeeps
<1>. QED
  BY <1>2, <1>3, <1>4, <1>5

(* A step that leaves the ledger and the indexer alone too.                *)
LEMMA QuietStep ==
  ASSUME ClosingInv, UNCHANGED <<closingStore, chainClaim, projected, verdict>>
  PROVE  /\ ChainKeeps /\ StoreKeeps /\ chainClaim' \in ChainClaim
         /\ ChainFits' /\ RowFits' /\ CommandsFit' /\ SubsFit' /\ CaseMatchesLedger'
<1>1. chainClaim' \in ChainClaim /\ ChainKeeps
  BY DEF ClosingInv, ClosingTyped, ChainKeeps, ChainClaim
<1>2. ChainFits'
  BY DEF ClosingInv, ChainFits, ClosedWith, Ended
<1>. QED
  BY <1>1, <1>2, LedgerStep DEF ClosingInv, RowFits

LEMMA MishapCounts ==
  ASSUME ClosingInv
  PROVE  (Mishap => mishaps' \in Nat) /\ (UNCHANGED mishaps => mishaps' \in Nat)
BY DEF Mishap, ClosingInv, ClosingTyped

LEMMA StoreTyped ==
  ASSUME ClosingInv, UNCHANGED <<closingStore, executedTx, indexedTx>>, chainClaim' \in ChainClaim, mishaps' \in Nat
  PROVE  ClosingTyped'
BY DEF ClosingInv, ClosingTyped, closingStore

-----------------------------------------------------------------------------
(* The finalizer.                                                          *)

LEMMA FinalizerChooses ==
  ASSUME ClosingInv, NEW f \in Finalizers, finalizeRepaidClaims(f) \/ crashFinalizer(f)
  PROVE  ClosingInv'
<1>1. UNCHANGED <<closingStore, chainClaim, projected, verdict, executedTx, indexedTx, resolvers>> /\ mishaps' \in Nat
  BY MishapCounts DEF finalizeRepaidClaims, crashFinalizer, indexerVars
<1>2. /\ ChainKeeps /\ StoreKeeps /\ chainClaim' \in ChainClaim
      /\ ChainFits' /\ RowFits' /\ CommandsFit' /\ SubsFit' /\ CaseMatchesLedger'
  BY <1>1, QuietStep
<1>3. ClosingTyped' /\ ResolversFit'
  BY <1>1, <1>2, StoreTyped, ResolversRest
<1>4. \/ FinalizerTo(f, "promote") /\ projected = "CLOSED" /\ closingRow.state = "REPAID"
      \/ FinalizerTo(f, "redeem")
      \/ FinalizerTo(f, "idle")
  BY DEF finalizeRepaidClaims, crashFinalizer
<1>5. FinalizersFit'
  <2>1. projected = "CLOSED" /\ closingRow.state = "REPAID" => FinalizerFits("promote")'
    BY <1>2, FinalizerKnows DEF ClosingInv, ChainFits, RowFits, FinalizerFits, Ended
  <2>2. FinalizerFits("redeem")' /\ FinalizerFits("idle")'
    BY DEF FinalizerFits
  <2>. QED
    BY <1>2, <1>4, <2>1, <2>2, FinalizerGoes DEF FinalizerPcs
<1>. QED
  BY <1>2, <1>3, <1>5 DEF ClosingInv

(* A transaction of the finalizer leaves the ledger where it was or where  *)
(* the transaction puts it.                                                *)
LEMMA FinalizerSends ==
  ASSUME ClosingInv, NEW f \in Finalizers,
         UNCHANGED <<closingStore, indexedTx, projected, verdict, resolvers>>,
         executedTx' \in {executedTx, executedTx \cup {"CLOSE"}}, mishaps' \in Nat,
         NEW claim \in ChainClaim, NEW next \in FinalizerPcs,
         \/ chainClaim' = claim /\ (FinalizerTo(f, next) \/ FinalizerTo(f, "idle"))
         \/ UNCHANGED chainClaim /\ FinalizerTo(f, "idle"),
         chainClaim' = claim => ChainKeeps /\ ChainFits' /\ FinalizerFits(next)',
         chainClaim' = claim => claim.status = chainClaim.status,
         chainClaim' = claim => claim.state = chainClaim.state \/ claim.state \in {"REDEEMED", "CLOSED"}
  PROVE  ClosingInv'
<1>1. chainClaim' \in ChainClaim
  BY DEF ClosingInv, ClosingTyped
<1>2. ChainKeeps /\ ChainFits'
  <2>1. CASE chainClaim' = claim
    BY <2>1
  <2>2. CASE UNCHANGED chainClaim
    BY <2>2, QuietStep
  <2>. QED
    BY <2>1, <2>2
<1>3. StoreKeeps /\ RowFits' /\ CommandsFit' /\ SubsFit' /\ CaseMatchesLedger'
  BY <1>1, <1>2, LedgerStep DEF ClosingInv, RowFits
<1>4. ResolversFit'
  BY <1>1, <1>2, <1>3, ResolversRest
<1>5. FinalizersFit'
  <2>1. FinalizerFits("idle")'
    BY DEF FinalizerFits
  <2>. QED
    BY <1>2, <2>1, FinalizerGoes DEF FinalizerPcs
<1>6. ClosingTyped'
  BY <1>1 DEF ClosingInv, ClosingTyped, closingStore, Txs
<1>. QED
  BY <1>2, <1>3, <1>4, <1>5, <1>6 DEF ClosingInv

LEMMA RedeemStays ==
  ASSUME ClosingInv, NEW f \in Finalizers, redeem(f)
  PROVE  ClosingInv'
<1>1. PICK claim : claim = IF chainClaim.issued THEN Redeemed ELSE chainClaim
  OBVIOUS
<1>2. /\ claim \in ChainClaim /\ claim.status = chainClaim.status /\ (claim.escrow <=> chainClaim.escrow)
      /\ claim.recovered = chainClaim.recovered /\ claim.finalLoss = chainClaim.finalLoss
      /\ claim.state = chainClaim.state \/ (chainClaim.state = "REPAID" /\ claim.state = "REDEEMED")
      /\ ~ claim.issued
  BY <1>1 DEF Redeemed, ClosingInv, ClosingTyped, ChainClaim, ChainStates
<1>3. /\ UNCHANGED <<closingStore, executedTx, indexedTx, projected, verdict, resolvers>> /\ mishaps' \in Nat
      /\ \/ chainClaim' = claim /\ (FinalizerTo(f, "release") \/ FinalizerTo(f, "idle"))
         \/ UNCHANGED chainClaim /\ FinalizerTo(f, "idle")
  BY <1>1, MishapCounts DEF redeem, Sends, indexerVars
<1>4. chainClaim' = claim => ChainKeeps
  BY <1>2 DEF ChainKeeps, ClosingInv, ClosingTyped, ChainClaim, Terminal
<1>5. chainClaim' = claim => ChainFits'
  <2>1. chainClaim.status = "CLOSED" \/ chainClaim.status \in {"OPEN", "RECOVERING"} => claim.state = chainClaim.state
    BY <1>2 DEF ClosingInv, ChainFits, ClosedState
  <2>. QED
    BY <1>2, <1>3, <2>1 DEF ClosingInv, ChainFits, ClosedWith, Ended
<1>6. FinalizerFits("release")'
  BY DEF FinalizerFits
<1>. QED
  BY <1>2, <1>3, <1>4, <1>5, <1>6, FinalizerSends DEF FinalizerPcs

LEMMA ReleaseStays ==
  ASSUME ClosingInv, NEW f \in Finalizers, releaseUnusedFirstLoss(f)
  PROVE  ClosingInv'
<1>1. PICK claim : claim = [chainClaim EXCEPT !.escrow = FALSE]
  OBVIOUS
<1>2. /\ claim \in ChainClaim /\ claim.status = chainClaim.status /\ claim.state = chainClaim.state
      /\ claim.recovered = chainClaim.recovered /\ claim.finalLoss = chainClaim.finalLoss
      /\ (claim.issued <=> chainClaim.issued) /\ ~ claim.escrow
  BY <1>1 DEF ClosingInv, ClosingTyped, ChainClaim
<1>3. /\ UNCHANGED <<closingStore, executedTx, indexedTx, projected, verdict, resolvers>> /\ mishaps' \in Nat
      /\ \/ chainClaim' = claim /\ (FinalizerTo(f, "close") \/ FinalizerTo(f, "idle"))
         \/ UNCHANGED chainClaim /\ FinalizerTo(f, "idle")
  BY <1>1, MishapCounts DEF releaseUnusedFirstLoss, Sends, indexerVars
<1>4. chainClaim' = claim => ChainKeeps
  BY <1>2 DEF ChainKeeps, ClosingInv, ClosingTyped, ChainClaim
<1>5. chainClaim' = claim => ChainFits'
  BY <1>2, <1>3 DEF ClosingInv, ChainFits, ClosedWith, Ended
<1>6. chainClaim' = claim => FinalizerFits("close")'
  BY <1>2 DEF FinalizerFits
<1>. QED
  BY <1>2, <1>3, <1>4, <1>5, <1>6, FinalizerSends DEF FinalizerPcs

LEMMA CloseStays ==
  ASSUME ClosingInv, NEW f \in Finalizers, closeClaim(f)
  PROVE  ClosingInv'
<1>1. PICK claim : claim = [chainClaim EXCEPT !.state = "CLOSED"]
  OBVIOUS
<1>2. /\ claim \in ChainClaim /\ claim.status = chainClaim.status /\ claim.state = "CLOSED"
      /\ claim.recovered = chainClaim.recovered /\ claim.finalLoss = chainClaim.finalLoss
      /\ (claim.issued <=> chainClaim.issued) /\ (claim.escrow <=> chainClaim.escrow)
  BY <1>1 DEF ClosingInv, ClosingTyped, ChainClaim, ChainStates, Terminal
<1>3. ~ chainClaim.escrow
  BY DEF closeClaim, FinalizerAt, ClosingInv, FinalizersFit, FinalizerFits
<1>4. /\ UNCHANGED <<closingStore, indexedTx, projected, verdict, resolvers>> /\ mishaps' \in Nat
      /\ \/ /\ chainClaim' = claim /\ (FinalizerTo(f, "expect") \/ FinalizerTo(f, "idle"))
            /\ chainClaim.state = "REDEEMED" /\ ~ chainClaim.issued
         \/ UNCHANGED chainClaim /\ FinalizerTo(f, "idle")
      /\ executedTx' \in {executedTx, executedTx \cup {"CLOSE"}}
  BY <1>1, MishapCounts DEF closeClaim, Sends, indexerVars
<1>5. CASE UNCHANGED chainClaim /\ FinalizerTo(f, "idle")
  <2>1. /\ ChainKeeps /\ StoreKeeps /\ chainClaim' \in ChainClaim
        /\ ChainFits' /\ RowFits' /\ CommandsFit' /\ SubsFit' /\ CaseMatchesLedger'
    BY <1>4, <1>5, QuietStep
  <2>2. ResolversFit'
    BY <1>4, <2>1, ResolversRest
  <2>3. FinalizersFit'
    <3>1. FinalizerFits("idle")'
      BY DEF FinalizerFits
    <3>. QED
      BY <1>5, <2>1, <3>1, FinalizerGoes DEF FinalizerPcs
  <2>4. ClosingTyped'
    BY <1>4, <2>1 DEF ClosingInv, ClosingTyped, closingStore, Txs
  <2>. QED
    BY <2>1, <2>2, <2>3, <2>4 DEF ClosingInv
<1>6. CASE chainClaim' = claim /\ chainClaim.state = "REDEEMED" /\ ~ chainClaim.issued
  <2>1. ChainKeeps
    BY <1>2, <1>6 DEF ChainKeeps, ClosingInv, ClosingTyped, ChainClaim, Terminal
  <2>2. chainClaim.status = "NONE"
    BY <1>6 DEF ClosingInv, ChainFits, ClosedState, ClosingTyped, ChainClaim
  <2>3. ChainFits'
    BY <1>2, <1>3, <1>4, <1>6, <2>2 DEF ClosingInv, ChainFits, ClosedWith, Ended
  <2>4. FinalizerFits("expect")'
    BY <1>2, <1>3, <1>6 DEF FinalizerFits, Ended
  <2>. QED
    BY <1>2, <1>4, <1>6, <2>1, <2>3, <2>4, FinalizerSends DEF FinalizerPcs
<1>. QED
  BY <1>4, <1>5, <1>6

-----------------------------------------------------------------------------
(* Steps that change rows and leave the ledger alone.                      *)

LEMMA LedgerRests ==
  ASSUME ClosingInv, UNCHANGED <<chainClaim, projected>>
  PROVE  ChainKeeps /\ chainClaim' \in ChainClaim /\ ChainFits'
<1>1. chainClaim' \in ChainClaim /\ ChainKeeps
  BY DEF ClosingInv, ClosingTyped, ChainKeeps, ChainClaim
<1>2. ChainFits'
  BY DEF ClosingInv, ChainFits, ClosedWith, Ended
<1>. QED
  BY <1>1, <1>2

LEMMA SubmissionRecorded ==
  ASSUME ClosingInv, UNCHANGED <<chainClaim, verdict>>, NEW tx \in Txs,
         NEW expected \in {"RESOLUTION"} \cup Terminal, expected \in Terminal => Ended(expected),
         closeSubs' = [closeSubs EXCEPT ![tx] = [status |-> "PENDING", expected |-> expected]]
  PROVE  closeSubs' \in [Txs -> CloseSub] /\ SubsFit'
<1>1. PICK v : v = [status |-> "PENDING", expected |-> expected]
  OBVIOUS
<1>2. v \in CloseSub /\ v.expected = expected /\ v.status = "PENDING" /\ v.expected # "none"
  BY <1>1 DEF CloseSub, Terminal
<1>3. closeSubs' \in [Txs -> CloseSub]
  BY <1>1, <1>2 DEF ClosingInv, ClosingTyped
<1>4. \A t \in Txs : closeSubs'[t] = IF t = tx THEN v ELSE closeSubs[t]
  BY <1>1 DEF ClosingInv, ClosingTyped
<1>5. ASSUME NEW t \in Txs, closeSubs'[t].expected \in Terminal PROVE Ended(closeSubs[t].expected)'
  BY <1>2, <1>4, <1>5 DEF ClosingInv, SubsFit, Ended
<1>6. \A t \in Txs : closeSubs'[t].status # "NONE" => closeSubs'[t].expected # "none"
  BY <1>2, <1>4 DEF ClosingInv, SubsFit
<1>7. verdict' # NoVerdict => verdict'.tx \in Txs /\ closeSubs'[verdict'.tx].status # "NONE"
  BY <1>2, <1>4 DEF ClosingInv, SubsFit
<1>. QED
  BY <1>3, <1>5, <1>6, <1>7 DEF SubsFit

LEMMA RowMoved ==
  ASSUME ClosingInv, UNCHANGED chainClaim, NEW state \in RowStates, state # "REPAID", state \in Terminal => Ended(state),
         SetRow(state)
  PROVE  closingRow' \in ClosingRow /\ RowFits' /\ closingRow'.version = closingRow.version + 1
<1>1. closingRow.version + 1 \in Nat
  BY DEF ClosingInv, ClosingTyped, ClosingRow
<1>2. closingRow' \in ClosingRow /\ closingRow'.state = state /\ closingRow'.version = closingRow.version + 1
  BY <1>1 DEF SetRow, ClosingRow
<1>3. RowFits'
  BY <1>2 DEF RowFits, Ended
<1>. QED
  BY <1>2, <1>3

LEMMA RowRests ==
  ASSUME ClosingInv, UNCHANGED <<chainClaim, closingRow>>
  PROVE  closingRow' \in ClosingRow /\ RowFits'
BY DEF ClosingInv, ClosingTyped, RowFits, Ended

LEMMA CommandsRest ==
  ASSUME ClosingInv, UNCHANGED commands,
         UNCHANGED <<closingRow, caseRow>> \/ closingRow'.version = closingRow.version + 1
  PROVE  StoreKeeps /\ CommandsFit'
<1>1. StoreKeeps
  BY DEF StoreKeeps
<1>2. ASSUME NEW k \in ResolutionKeys PROVE commands[k].version <= closingRow'.version
  <2>1. commands[k].version \in Nat /\ closingRow.version \in Nat /\ commands[k].version <= closingRow.version
    BY DEF ClosingInv, CommandsFit, ClosingTyped, CommandRow, ClosingRow
  <2>. QED
    BY <2>1
<1>3. CommandsFit'
  BY <1>2 DEF ClosingInv, CommandsFit
<1>. QED
  BY <1>1, <1>3

LEMMA SubsRest ==
  ASSUME ClosingInv, UNCHANGED <<chainClaim, closeSubs, verdict>>
  PROVE  SubsFit' /\ closeSubs' \in [Txs -> CloseSub]
BY DEF ClosingInv, SubsFit, Ended, ClosingTyped

LEMMA CaseRests ==
  ASSUME ClosingInv, UNCHANGED <<chainClaim, caseRow>>
  PROVE  CaseMatchesLedger' /\ caseRow' \in CaseRow
BY DEF ClosingInv, CaseMatchesLedger, ClosingTyped

LEMMA ExpectStays ==
  ASSUME ClosingInv, NEW f \in Finalizers, expectClose(f)
  PROVE  ClosingInv'
<1>1. /\ UNCHANGED <<closingRow, caseRow, commands, chainClaim, executedTx, projected, indexedTx, verdict, resolvers>>
      /\ mishaps' \in Nat /\ FinalizerTo(f, "idle")
  BY MishapCounts DEF expectClose, indexerVars
<1>2. Ended("CLOSED")
  BY DEF expectClose, FinalizerAt, ClosingInv, FinalizersFit, FinalizerFits
<1>3. closeSubs' \in [Txs -> CloseSub] /\ SubsFit'
  <2>1. CASE UNCHANGED closeSubs
    BY <1>1, <2>1, SubsRest
  <2>2. CASE closeSubs' = [closeSubs EXCEPT !["CLOSE"] = [status |-> "PENDING", expected |-> "CLOSED"]]
    BY <1>1, <1>2, <2>2, SubmissionRecorded DEF Txs, Terminal
  <2>. QED
    BY <2>1, <2>2 DEF expectClose
<1>4. /\ ChainKeeps /\ chainClaim' \in ChainClaim /\ ChainFits' /\ RowFits' /\ StoreKeeps /\ CommandsFit'
      /\ CaseMatchesLedger'
  BY <1>1, LedgerRests, RowRests, CommandsRest, CaseRests
<1>5. FinalizersFit'
  <2>1. FinalizerFits("idle")'
    BY DEF FinalizerFits
  <2>. QED
    BY <1>1, <1>4, <2>1, FinalizerGoes DEF FinalizerPcs
<1>6. ResolversFit'
  BY <1>1, <1>4, ResolversRest
<1>7. ClosingTyped'
  BY <1>1, <1>3 DEF ClosingInv, ClosingTyped
<1>. QED
  BY <1>3, <1>4, <1>5, <1>6, <1>7 DEF ClosingInv

LEMMA PromoteStays ==
  ASSUME ClosingInv, NEW f \in Finalizers, promoteIndexedClose(f)
  PROVE  ClosingInv'
<1>1. /\ UNCHANGED <<caseRow, commands, closeSubs, chainClaim, executedTx, projected, indexedTx, verdict, resolvers, mishaps>>
      /\ FinalizerTo(f, "idle") /\ (UNCHANGED closingRow \/ SetRow("CLOSED"))
  BY DEF promoteIndexedClose, indexerVars
<1>2. Ended("CLOSED")
  BY DEF promoteIndexedClose, FinalizerAt, ClosingInv, FinalizersFit, FinalizerFits
<1>3. /\ closingRow' \in ClosingRow /\ RowFits'
      /\ UNCHANGED closingRow \/ closingRow'.version = closingRow.version + 1
  BY <1>1, <1>2, RowMoved, RowRests DEF RowStates, Terminal
<1>4. ChainKeeps /\ chainClaim' \in ChainClaim /\ ChainFits' /\ StoreKeeps /\ CommandsFit' /\ SubsFit' /\ CaseMatchesLedger'
  BY <1>1, <1>3, LedgerRests, CommandsRest, SubsRest, CaseRests
<1>5. FinalizersFit'
  <2>1. FinalizerFits("idle")'
    BY DEF FinalizerFits
  <2>. QED
    BY <1>1, <1>4, <2>1, FinalizerGoes DEF FinalizerPcs
<1>6. ResolversFit'
  BY <1>1, <1>4, ResolversRest
<1>7. ClosingTyped'
  BY <1>1, <1>3 DEF ClosingInv, ClosingTyped
<1>. QED
  BY <1>3, <1>4, <1>5, <1>6, <1>7 DEF ClosingInv

-----------------------------------------------------------------------------
(* The commands.                                                           *)

LEMMA ResolverServes ==
  ASSUME ClosingInv, NEW h \in Resolvers, NEW v, v = resolvers[h], v.pc # "idle"
  PROVE  /\ v \in Resolver /\ v.key \in ResolutionKeys /\ ResolverFits(v)
         /\ commands[v.key] \in CommandRow /\ commands[v.key].action # "NONE"
BY DEF ClosingInv, ResolversFit, ResolverFits, ClosingTyped

(* A request that goes on by its own, beside the store and the ledger.     *)
LEMMA RequestStep ==
  ASSUME ClosingInv, UNCHANGED <<closingStore, chainClaim, projected, verdict, executedTx, indexedTx, finalizers>>,
         mishaps' \in Nat, NEW h \in Resolvers, NEW v \in Resolver,
         resolvers' = [resolvers EXCEPT ![h] = v], ResolverFits(v)
  PROVE  ClosingInv'
<1>1. /\ ChainKeeps /\ StoreKeeps /\ chainClaim' \in ChainClaim
      /\ ChainFits' /\ RowFits' /\ CommandsFit' /\ SubsFit' /\ CaseMatchesLedger'
  BY QuietStep
<1>2. ResolverFits(v)'
  BY <1>1, ResolverKnows
<1>3. ResolversFit' /\ FinalizersFit'
  BY <1>1, <1>2, ResolverGoes, FinalizersRest
<1>4. ClosingTyped'
  BY <1>1, StoreTyped
<1>. QED
  BY <1>1, <1>3, <1>4 DEF ClosingInv

LEMMA ExecuteStays ==
  ASSUME ClosingInv, NEW h \in Resolvers, NEW k \in ResolutionKeys, execute(h, k)
  PROVE  ClosingInv'
<1>1. UNCHANGED <<closingRow, caseRow, closeSubs, chainClaim, executedTx, projected, indexedTx, verdict, finalizers, mishaps>>
  BY DEF execute, indexerVars
<1>2. /\ commands' \in [ResolutionKeys -> CommandRow] /\ StoreKeeps /\ CommandsFit' /\ commands'[k].action # "NONE"
  <2>1. CASE commands[k] # NoCommand /\ UNCHANGED commands
    <3>1. StoreKeeps /\ CommandsFit'
      BY <1>1, <2>1, CommandsRest
    <3>2. commands'[k].action # "NONE"
      BY <2>1 DEF ClosingInv, CommandsFit
    <3>. QED
      BY <2>1, <3>1, <3>2 DEF ClosingInv, ClosingTyped
  <2>2. ASSUME NEW action \in {"OPEN", "UPDATE", "CLOSE"}, NEW amount \in NamedRecovery(action),
               commands[k] = NoCommand,
               commands' = [commands EXCEPT ![k] = [action |-> action, amount |-> amount,
                                                    version |-> closingRow.version, answered |-> FALSE]]
        PROVE  commands' \in [ResolutionKeys -> CommandRow] /\ StoreKeeps /\ CommandsFit' /\ commands'[k].action # "NONE"
    <3>1. PICK c : c = [action |-> action, amount |-> amount, version |-> closingRow.version, answered |-> FALSE]
      OBVIOUS
    <3>2. amount \in Nat \cup {-1} /\ (action = "UPDATE" => amount # -1)
      BY ClosingAssumption DEF NamedRecovery
    <3>3. /\ c \in CommandRow /\ c.action = action /\ c.version = closingRow.version /\ c.amount = amount
          /\ closingRow.version \in Nat
      BY <3>1, <3>2 DEF CommandRow, ClosingInv, ClosingTyped, ClosingRow
    <3>4. /\ commands' \in [ResolutionKeys -> CommandRow]
          /\ \A j \in ResolutionKeys : commands'[j] = IF j = k THEN c ELSE commands[j]
      BY <2>2, <3>1, <3>3 DEF ClosingInv, ClosingTyped
    <3>5. commands[k].action = "NONE"
      BY <2>2 DEF NoCommand
    <3>6. StoreKeeps
      BY <1>1, <3>4, <3>5 DEF StoreKeeps
    <3>7. CommandsFit'
      BY <1>1, <3>2, <3>3, <3>4 DEF ClosingInv, CommandsFit
    <3>. QED
      BY <3>3, <3>4, <3>6, <3>7
  <2>. QED
    BY <2>1, <2>2 DEF execute
<1>3. ChainKeeps /\ chainClaim' \in ChainClaim /\ ChainFits' /\ RowFits' /\ SubsFit' /\ CaseMatchesLedger'
  BY <1>1, LedgerRests, RowRests, SubsRest, CaseRests
<1>4. PICK v : v = [IdleResolver EXCEPT !.pc = "look", !.key = k]
  OBVIOUS
<1>5. v \in Resolver /\ v.pc = "look" /\ v.key = k
  BY <1>4 DEF IdleResolver, Resolver
<1>6. ResolverFits(v)'
  BY <1>2, <1>5 DEF ResolverFits
<1>7. ResolversFit' /\ FinalizersFit'
  BY <1>1, <1>2, <1>3, <1>4, <1>5, <1>6, ResolverGoes, FinalizersRest DEF execute
<1>8. ClosingTyped'
  BY <1>1, <1>2 DEF ClosingInv, ClosingTyped
<1>. QED
  BY <1>2, <1>3, <1>7, <1>8 DEF ClosingInv

(* What a request finds on the ledger, and what it will do about it.       *)
LEMMA LookupStays ==
  ASSUME ClosingInv, NEW h \in Resolvers, getResolution(h)
  PROVE  ClosingInv'
<1>1. PICK r, c : r = resolvers[h] /\ c = commands[r.key]
  OBVIOUS
<1>2. /\ r \in Resolver /\ r.key \in ResolutionKeys /\ r.pc = "look" /\ ResolverFits(r) /\ c \in CommandRow
      /\ c.action \in {"OPEN", "UPDATE", "CLOSE"}
  BY <1>1, ResolverServes DEF getResolution, ResolverAt, CommandRow
<1>3. PICK recovered : recovered = IF c.amount = -1 THEN caseRow.realized ELSE c.amount
  OBVIOUS
<1>4. recovered \in Nat /\ chainClaim.recovered \in Nat /\ recovered = Recovery(c)
  BY <1>2, <1>3 DEF ClosingInv, ClosingTyped, CaseRow, CommandRow, ChainClaim, Recovery
<1>5. UNCHANGED <<closingStore, chainClaim, projected, verdict, executedTx, indexedTx, finalizers>> /\ mishaps' \in Nat
  BY MishapCounts DEF getResolution, indexerVars
<1>6. ASSUME NEW pc \in {"call", "clawback", "mutate"}, NEW sum \in Nat, NEW delta \in Nat, Proceed(h, pc, sum, delta),
             pc = "clawback" => c.action = "CLOSE",
             c.action # "OPEN" => sum = recovered,
             c.action = "UPDATE" => (pc = "call" => sum <= chainClaim.recovered + delta)
                                      /\ (pc = "mutate" => sum <= chainClaim.recovered),
             c.action = "CLOSE" => pc # "mutate" /\ (pc = "clawback" => ClosedWith(sum))
      PROVE  ClosingInv'
  <2>1. PICK v : v = [r EXCEPT !.pc = pc, !.recovered = sum, !.delta = delta]
    OBVIOUS
  <2>2. v \in Resolver /\ v.pc = pc /\ v.key = r.key /\ v.recovered = sum /\ v.delta = delta
    BY <1>2, <2>1 DEF Resolver
  <2>3. ResolverFits(v)
    BY <1>1, <1>2, <1>4, <1>6, <2>2 DEF ResolverFits
  <2>. QED
    BY <1>1, <1>5, <1>6, <2>1, <2>2, <2>3, RequestStep DEF Proceed
<1>7. CASE ResolverEnds(h)
  <2>1. IdleResolver \in Resolver /\ ResolverFits(IdleResolver)
    BY DEF IdleResolver, Resolver, ResolverFits
  <2>. QED
    BY <1>5, <1>7, <2>1, RequestStep DEF ResolverEnds
<1>8. CASE c.action = "OPEN" /\ ~ ResolverEnds(h)
  <2>1. Proceed(h, "call", 0, 0) \/ Proceed(h, "mutate", 0, 0)
    BY <1>1, <1>8 DEF getResolution, Command
  <2>. QED
    BY <1>6, <1>8, <2>1
<1>9. CASE c.action = "UPDATE" /\ ~ ResolverEnds(h)
  <2>1. /\ recovered >= chainClaim.recovered
        /\ Proceed(h, IF chainClaim.status = "OPEN" \/ recovered > chainClaim.recovered
                      THEN "call" ELSE "mutate", recovered, recovered - chainClaim.recovered)
    BY <1>1, <1>3, <1>9 DEF getResolution, Command
  <2>2. /\ recovered - chainClaim.recovered \in Nat
        /\ recovered <= chainClaim.recovered + (recovered - chainClaim.recovered)
    BY <1>4, <2>1
  <2>3. CASE chainClaim.status = "OPEN" \/ recovered > chainClaim.recovered
    BY <1>4, <1>6, <1>9, <2>1, <2>2, <2>3
  <2>4. CASE ~ (chainClaim.status = "OPEN" \/ recovered > chainClaim.recovered)
    BY <1>4, <1>6, <1>9, <2>1, <2>2, <2>4
  <2>. QED
    BY <2>3, <2>4
<1>10. CASE c.action = "CLOSE" /\ ~ ResolverEnds(h)
  <2>1. CASE chainClaim.status \in {"OPEN", "RECOVERING"}
    <3>1. ~ ClosedAlike(recovered)
      BY <2>1 DEF ClosedAlike
    <3>2. Proceed(h, "call", recovered, 0)
      BY <1>1, <1>3, <1>10, <2>1, <3>1 DEF getResolution, Command
    <3>. QED
      BY <1>4, <1>6, <1>10, <3>2
  <2>2. CASE chainClaim.status \notin {"OPEN", "RECOVERING"}
    <3>1. ClosedAlike(recovered) /\ Proceed(h, "clawback", recovered, 0)
      BY <1>1, <1>3, <1>10, <2>2 DEF getResolution, Command
    <3>2. ClosedWith(recovered)
      BY <3>1 DEF ClosedAlike, ClosedWith
    <3>. QED
      BY <1>4, <1>6, <1>10, <3>1, <3>2
  <2>. QED
    BY <2>1, <2>2
<1>. QED
  BY <1>2, <1>7, <1>8, <1>9, <1>10

(* A call of the resolution manager moves the ledger on.                   *)
LEMMA ClosingCallStays ==
  ASSUME ClosingInv, NEW h \in Resolvers, callResolution(h)
  PROVE  ClosingInv'
<1>1. PICK r, c : r = resolvers[h] /\ c = commands[r.key]
  OBVIOUS
<1>2. /\ r \in Resolver /\ r.key \in ResolutionKeys /\ r.pc = "call" /\ ResolverFits(r) /\ c \in CommandRow
      /\ c.action # "NONE"
  BY <1>1, ResolverServes DEF callResolution, ResolverAt
<1>3. /\ UNCHANGED <<closingStore, projected, indexedTx, verdict, finalizers>> /\ mishaps' \in Nat
  BY MishapCounts DEF callResolution, indexerVars
<1>4. CASE UNCHANGED <<chainClaim, executedTx>> /\ ResolverEnds(h)
  <2>1. IdleResolver \in Resolver /\ ResolverFits(IdleResolver)
    BY DEF IdleResolver, Resolver, ResolverFits
  <2>. QED
    BY <1>3, <1>4, <2>1, RequestStep DEF ResolverEnds
<1>5. CASE /\ Grants(h) /\ chainClaim' = Resolved(h) /\ executedTx' = executedTx \cup {r.key}
           /\ \/ resolvers' = [resolvers EXCEPT ![h] = [resolvers[h] EXCEPT
                   !.pc = IF c.action = "CLOSE" THEN "clawback" ELSE "record", !.sent = TRUE]]
              \/ ResolverEnds(h)
  <2>1. r.recovered \in Nat /\ r.delta \in Nat /\ chainClaim.recovered \in Nat /\ SeniorLoss \in Nat
    BY <1>2, ClosingAssumption DEF Resolver, ClosingInv, ClosingTyped, ChainClaim
  <2>2. /\ chainClaim' \in ChainClaim /\ ChainKeeps /\ ChainFits'
        /\ chainClaim.status # "NONE" \/ chainClaim.state = "SHORTFALL"
        /\ c.action = "UPDATE" => r.recovered <= chainClaim'.recovered
        /\ c.action = "CLOSE" => ClosedWith(r.recovered)'
    <3>1. CASE c.action = "OPEN"
      <4>1. /\ chainClaim.status = "NONE" /\ chainClaim.state = "SHORTFALL"
            /\ chainClaim' = [chainClaim EXCEPT !.state = "RESOLUTION", !.status = "OPEN", !.openedBy = r.key]
        BY <1>1, <1>5, <3>1 DEF Grants, Resolved, Command
      <4>2. /\ chainClaim' \in ChainClaim /\ chainClaim'.status = "OPEN" /\ chainClaim'.state = "RESOLUTION"
            /\ chainClaim'.recovered = chainClaim.recovered
            /\ (chainClaim'.issued <=> chainClaim.issued) /\ (chainClaim'.escrow <=> chainClaim.escrow)
        BY <1>2, <4>1 DEF ClosingInv, ClosingTyped, ChainClaim, ChainStates
      <4>3. ChainKeeps
        BY <2>1, <4>1, <4>2 DEF ChainKeeps, Terminal
      <4>4. ChainFits'
        BY <1>3, <4>1, <4>2 DEF ClosingInv, ChainFits
      <4>. QED
        BY <3>1, <4>1, <4>2, <4>3, <4>4
    <3>2. CASE c.action = "UPDATE"
      <4>1. /\ chainClaim.status \in {"OPEN", "RECOVERING"}
            /\ chainClaim' = [chainClaim EXCEPT !.status = "RECOVERING", !.recovered = chainClaim.recovered + r.delta]
        BY <1>1, <1>5, <3>2 DEF Grants, Resolved, Command, ClosingInv, ClosingTyped, ChainClaim
      <4>2. PICK sum : sum = chainClaim.recovered + r.delta
        OBVIOUS
      <4>3. sum \in Nat /\ chainClaim.recovered <= sum /\ r.recovered <= sum
        BY <1>1, <1>2, <2>1, <3>2, <4>2 DEF ResolverFits
      <4>4. /\ chainClaim' \in ChainClaim /\ chainClaim'.status = "RECOVERING"
            /\ chainClaim'.state = chainClaim.state /\ chainClaim'.recovered = sum
            /\ (chainClaim'.issued <=> chainClaim.issued) /\ (chainClaim'.escrow <=> chainClaim.escrow)
        BY <4>1, <4>2, <4>3 DEF ClosingInv, ClosingTyped, ChainClaim
      <4>5. ChainKeeps
        BY <4>1, <4>3, <4>4 DEF ChainKeeps
      <4>6. ChainFits'
        BY <1>3, <4>1, <4>4 DEF ClosingInv, ChainFits
      <4>. QED
        BY <3>2, <4>1, <4>3, <4>4, <4>5, <4>6
    <3>3. CASE c.action = "CLOSE"
      <4>1. PICK loss, state : loss = FinalLoss(r.recovered) /\ state = ClosedState(loss)
        OBVIOUS
      <4>2. loss \in Nat /\ state \in Terminal
        BY <2>1, <4>1 DEF FinalLoss, ClosedState, Terminal
      <4>3. /\ chainClaim.state = "RESOLUTION" /\ r.recovered >= chainClaim.recovered
            /\ chainClaim' = [chainClaim EXCEPT !.status = "CLOSED", !.recovered = r.recovered,
                                !.finalLoss = loss, !.state = state]
        BY <1>1, <1>5, <3>3, <4>1 DEF Grants, Resolved, Command
      <4>4. /\ chainClaim' \in ChainClaim /\ chainClaim'.status = "CLOSED" /\ chainClaim'.state = state
            /\ chainClaim'.recovered = r.recovered /\ chainClaim'.finalLoss = loss
            /\ (chainClaim'.issued <=> chainClaim.issued) /\ (chainClaim'.escrow <=> chainClaim.escrow)
        BY <2>1, <4>2, <4>3 DEF ClosingInv, ClosingTyped, ChainClaim, ChainStates
      <4>5. chainClaim.status \in {"OPEN", "RECOVERING"}
        BY <4>3 DEF ClosingInv, ClosingTyped, ChainClaim, ChainFits, ClosedState
      <4>6. ChainKeeps
        BY <2>1, <4>3, <4>4, <4>5 DEF ChainKeeps, Terminal
      <4>7. ClosedWith(r.recovered)'
        BY <1>3, <4>1, <4>4 DEF ClosedWith, FinalLoss
      <4>8. ChainFits'
        BY <1>3, <4>1, <4>3, <4>4, <4>5, <4>7 DEF ClosingInv, ChainFits, ClosedWith
      <4>. QED
        BY <3>3, <4>4, <4>5, <4>6, <4>7, <4>8
    <3>. QED
      BY <1>2, <3>1, <3>2, <3>3 DEF CommandRow
  <2>3. closingRow.state # "REPAID"
    BY <2>2 DEF ClosingInv, RowFits
  <2>4. StoreKeeps /\ RowFits' /\ CommandsFit' /\ SubsFit' /\ CaseMatchesLedger'
    BY <1>3, <2>2, <2>3, LedgerStep
  <2>5. ResolversFit'
    <3>1. CASE ResolverEnds(h)
      BY <2>2, <2>4, <3>1, ResolverEnding
    <3>2. CASE ~ ResolverEnds(h)
      <4>1. PICK v : v = [r EXCEPT !.pc = IF c.action = "CLOSE" THEN "clawback" ELSE "record", !.sent = TRUE]
        OBVIOUS
      <4>2. /\ v \in Resolver /\ v.key = r.key /\ v.recovered = r.recovered
            /\ v.pc = IF c.action = "CLOSE" THEN "clawback" ELSE "record"
        BY <1>2, <4>1 DEF Resolver
      <4>3. UNCHANGED <<commands, closingRow, caseRow>>
        BY <1>3 DEF closingStore
      <4>4. c.action # "OPEN" /\ c.version = closingRow.version => r.recovered = Recovery(c)'
        <5>1. c.action # "OPEN" /\ c.version = closingRow.version => r.recovered = Recovery(c)
          BY <1>1, <1>2 DEF ResolverFits
        <5>. QED
          BY <4>3, <5>1 DEF Recovery
      <4>5. commands'[v.key] = c
        BY <1>1, <4>2, <4>3
      <4>6. ResolverFits(v)'
        BY <1>2, <2>2, <4>2, <4>3, <4>4, <4>5 DEF ResolverFits
      <4>. QED
        BY <1>1, <1>5, <2>2, <2>4, <3>2, <4>1, <4>2, <4>6, ResolverGoes
    <3>. QED
      BY <3>1, <3>2
  <2>6. FinalizersFit'
    BY <1>3, <2>2, FinalizersRest
  <2>7. ClosingTyped'
    BY <1>2, <1>3, <1>5, <2>2 DEF ClosingInv, ClosingTyped, closingStore, Txs
  <2>. QED
    BY <2>2, <2>4, <2>5, <2>6, <2>7 DEF ClosingInv
<1>. QED
  BY <1>1, <1>4, <1>5 DEF callResolution, Command

LEMMA ClawbackStays ==
  ASSUME ClosingInv, NEW h \in Resolvers, clawbackClaim(h)
  PROVE  ClosingInv'
<1>1. PICK r, c : r = resolvers[h] /\ c = commands[r.key]
  OBVIOUS
<1>2. /\ r \in Resolver /\ r.key \in ResolutionKeys /\ r.pc = "clawback" /\ ResolverFits(r) /\ c \in CommandRow
      /\ c.action = "CLOSE"
  BY <1>1, ResolverServes DEF clawbackClaim, ResolverAt, ResolverFits
<1>3. /\ UNCHANGED <<closingStore, executedTx, projected, indexedTx, verdict, finalizers>> /\ mishaps' \in Nat
      /\ chainClaim' = [chainClaim EXCEPT !.issued = FALSE]
  BY MishapCounts DEF clawbackClaim, indexerVars
<1>4. /\ chainClaim' \in ChainClaim /\ ~ chainClaim'.issued /\ (chainClaim'.escrow <=> chainClaim.escrow)
      /\ chainClaim'.state = chainClaim.state /\ chainClaim'.status = chainClaim.status
      /\ chainClaim'.recovered = chainClaim.recovered /\ chainClaim'.finalLoss = chainClaim.finalLoss
  BY <1>3 DEF ClosingInv, ClosingTyped, ChainClaim
<1>5. ChainKeeps /\ ClosedWith(r.recovered)
  BY <1>1, <1>2, <1>4 DEF ChainKeeps, ClosingInv, ClosingTyped, ChainClaim, ResolverFits
<1>6. ~ chainClaim'.escrow /\ ClosedWith(r.recovered)'
  BY <1>4, <1>5 DEF ClosedWith, ClosingInv, ChainFits
<1>7. ChainFits'
  BY <1>3, <1>4 DEF ClosingInv, ChainFits, ClosedWith, Ended
<1>8. StoreKeeps /\ RowFits' /\ CommandsFit' /\ SubsFit' /\ CaseMatchesLedger'
  BY <1>3, <1>4, <1>5, LedgerStep DEF ClosingInv, RowFits
<1>9. ResolversFit'
  <2>1. PICK v : v = [r EXCEPT !.pc = IF r.sent THEN "record" ELSE "mutate"]
    OBVIOUS
  <2>2. /\ v \in Resolver /\ v.key = r.key /\ v.recovered = r.recovered /\ v.pc \in {"record", "mutate"}
    BY <1>2, <2>1 DEF Resolver
  <2>3. commands'[v.key] = c /\ UNCHANGED <<closingRow, caseRow>>
    BY <1>1, <1>3, <2>2 DEF closingStore
  <2>4. c.version = closingRow.version => r.recovered = Recovery(c)
    BY <1>1, <1>2 DEF ResolverFits
  <2>5. ResolverFits(v)'
    BY <1>2, <1>4, <1>6, <2>2, <2>3, <2>4 DEF ResolverFits, Recovery
  <2>6. resolvers' = [resolvers EXCEPT ![h] = v]
    BY <1>1, <2>1 DEF clawbackClaim, ResolverTo, ClosingInv, ResolversFit, Resolver
  <2>. QED
    BY <1>4, <1>5, <1>8, <2>2, <2>5, <2>6, ResolverGoes
<1>10. FinalizersFit' /\ ClosingTyped'
  BY <1>3, <1>4, <1>5, FinalizersRest, StoreTyped
<1>. QED
  BY <1>7, <1>8, <1>9, <1>10 DEF ClosingInv

LEMMA ClosingRecordStays ==
  ASSUME ClosingInv, NEW h \in Resolvers, recordResolution(h)
  PROVE  ClosingInv'
<1>1. PICK r, c : r = resolvers[h] /\ c = commands[r.key]
  OBVIOUS
<1>2. /\ r \in Resolver /\ r.key \in ResolutionKeys /\ r.pc = "record" /\ ResolverFits(r) /\ c \in CommandRow
      /\ c.action # "NONE"
  BY <1>1, ResolverServes DEF recordResolution, ResolverAt
<1>3. UNCHANGED <<closingRow, caseRow, commands, chainClaim, executedTx, projected, indexedTx, verdict, finalizers, mishaps>>
  BY DEF recordResolution, indexerVars
<1>4. PICK expected : expected = IF c.action = "CLOSE" THEN ClosedState(FinalLoss(r.recovered)) ELSE "RESOLUTION"
  OBVIOUS
<1>5. expected \in {"RESOLUTION"} \cup Terminal /\ (expected \in Terminal => Ended(expected))
  <2>1. CASE c.action = "CLOSE"
    <3>1. ClosedWith(r.recovered) /\ ~ chainClaim.issued /\ ~ chainClaim.escrow
      BY <1>1, <1>2, <2>1 DEF ResolverFits
    <3>2. chainClaim.state = ClosedState(FinalLoss(r.recovered))
      BY <3>1 DEF ClosedWith, ClosingInv, ChainFits
    <3>. QED
      BY <1>4, <2>1, <3>1, <3>2 DEF Ended, ClosedState, Terminal
  <2>2. CASE c.action # "CLOSE"
    BY <1>4, <2>2 DEF Terminal
  <2>. QED
    BY <2>1, <2>2
<1>6. closeSubs' \in [Txs -> CloseSub] /\ SubsFit'
  <2>1. closeSubs' = [closeSubs EXCEPT ![r.key] = [status |-> "PENDING", expected |-> expected]]
    BY <1>1, <1>4 DEF recordResolution, Command
  <2>2. r.key \in Txs
    BY <1>2 DEF Txs
  <2>. QED
    BY <1>3, <1>5, <2>1, <2>2, SubmissionRecorded
<1>7. /\ ChainKeeps /\ chainClaim' \in ChainClaim /\ ChainFits' /\ RowFits' /\ StoreKeeps /\ CommandsFit'
      /\ CaseMatchesLedger'
  BY <1>3, LedgerRests, RowRests, CommandsRest, CaseRests
<1>8. ResolversFit'
  <2>1. PICK v : v = [r EXCEPT !.pc = "mutate"]
    OBVIOUS
  <2>2. v \in Resolver /\ v.key = r.key /\ v.recovered = r.recovered /\ v.pc = "mutate"
    BY <1>2, <2>1 DEF Resolver
  <2>3. ResolverFits(v)
    BY <1>1, <1>2, <2>2 DEF ResolverFits
  <2>4. ResolverFits(v)'
    BY <1>7, <2>2, <2>3, ResolverKnows
  <2>5. resolvers' = [resolvers EXCEPT ![h] = v]
    BY <1>1, <2>1 DEF recordResolution, ResolverTo, ClosingInv, ResolversFit, Resolver
  <2>. QED
    BY <1>7, <2>2, <2>4, <2>5, ResolverGoes
<1>9. FinalizersFit' /\ ClosingTyped'
  BY <1>3, <1>6, <1>7, FinalizersRest DEF ClosingInv, ClosingTyped
<1>. QED
  BY <1>6, <1>7, <1>8, <1>9 DEF ClosingInv

(* The command is admitted as long as the claim has the version it was     *)
(* made for, and then the recovery looked up is the one it means.          *)
LEMMA MutateStays ==
  ASSUME ClosingInv, NEW h \in Resolvers, mutate(h)
  PROVE  ClosingInv'
<1>1. PICK r, c : r = resolvers[h] /\ c = commands[r.key]
  OBVIOUS
<1>2. /\ r \in Resolver /\ r.key \in ResolutionKeys /\ r.pc = "mutate" /\ ResolverFits(r) /\ c \in CommandRow
      /\ c.action \in {"OPEN", "UPDATE", "CLOSE"}
  BY <1>1, ResolverServes DEF mutate, ResolverAt, CommandRow
<1>3. /\ UNCHANGED <<closeSubs, chainClaim, executedTx, projected, indexedTx, verdict, finalizers, mishaps>>
      /\ ResolverEnds(h)
  BY DEF mutate, indexerVars
<1>4. ChainKeeps /\ chainClaim' \in ChainClaim /\ ChainFits' /\ SubsFit'
  BY <1>3, LedgerRests, SubsRest
<1>5. PICK realized, loss : realized = Recovery(c) /\ loss = FinalLoss(realized)
  OBVIOUS
<1>6. realized \in Nat /\ loss \in Nat /\ chainClaim.recovered \in Nat
  BY <1>2, <1>5, ClosingAssumption
  DEF Recovery, CommandRow, FinalLoss, ClosingInv, ClosingTyped, CaseRow, ChainClaim
<1>7. CASE UNCHANGED <<commands, closingRow, caseRow>>
  <2>1. StoreKeeps /\ CommandsFit' /\ RowFits' /\ CaseMatchesLedger'
    BY <1>3, <1>7, CommandsRest, RowRests, CaseRests
  <2>2. ResolversFit' /\ FinalizersFit'
    BY <1>3, <1>4, <2>1, ResolverEnding, FinalizersRest
  <2>3. ClosingTyped'
    BY <1>3, <1>4, <1>7 DEF ClosingInv, ClosingTyped
  <2>. QED
    BY <1>4, <2>1, <2>2, <2>3 DEF ClosingInv
<1>8. CASE /\ c.version = closingRow.version /\ commands' = [commands EXCEPT ![r.key].answered = TRUE]
           /\ SetRow(IF c.action = "CLOSE" THEN ClosedState(loss) ELSE "RESOLUTION")
           /\ caseRow' = CASE c.action = "OPEN" -> [status |-> "OPEN", realized |-> 0, finalLoss |-> 0]
                [] c.action = "UPDATE" -> [caseRow EXCEPT !.status = "RECOVERING", !.realized = realized]
                [] OTHER -> [status |-> IF loss > 0 THEN "WRITTEN_OFF" ELSE "SETTLED",
                             realized |-> realized, finalLoss |-> loss]
  <2>1. c.action # "OPEN" => r.recovered = realized
    BY <1>1, <1>2, <1>5, <1>8 DEF ResolverFits
  <2>2. c.action = "UPDATE" => realized <= chainClaim.recovered
    BY <1>1, <1>2, <2>1 DEF ResolverFits
  <2>3. c.action = "CLOSE" => ClosedWith(realized) /\ Ended(ClosedState(loss))
    <3>1. SUFFICES ASSUME c.action = "CLOSE" PROVE ClosedWith(realized) /\ Ended(ClosedState(loss))
      OBVIOUS
    <3>2. ClosedWith(realized) /\ ~ chainClaim.issued /\ ~ chainClaim.escrow
      BY <1>1, <1>2, <2>1, <3>1 DEF ResolverFits
    <3>3. chainClaim.state = ClosedState(loss)
      BY <1>5, <3>2 DEF ClosedWith, ClosingInv, ChainFits
    <3>. QED
      BY <3>2, <3>3 DEF Ended
  <2>4. PICK state : state = IF c.action = "CLOSE" THEN ClosedState(loss) ELSE "RESOLUTION"
    OBVIOUS
  <2>5. state \in RowStates /\ state # "REPAID" /\ (state \in Terminal => Ended(state))
    BY <2>3, <2>4 DEF RowStates, Terminal, ClosedState
  <2>6. closingRow' \in ClosingRow /\ RowFits' /\ closingRow'.version = closingRow.version + 1
    BY <1>3, <1>8, <2>4, <2>5, RowMoved
  <2>7. caseRow' \in CaseRow /\ CaseMatchesLedger'
    <3>1. CASE c.action = "OPEN"
      <4>1. caseRow' = [status |-> "OPEN", realized |-> 0, finalLoss |-> 0]
        BY <1>8, <3>1
      <4>. QED
        BY <1>3, <1>6, <4>1 DEF CaseRow, CaseMatchesLedger
    <3>2. CASE c.action = "UPDATE"
      <4>1. caseRow' = [caseRow EXCEPT !.status = "RECOVERING", !.realized = realized]
        BY <1>8, <3>2
      <4>2. caseRow' \in CaseRow /\ caseRow'.status = "RECOVERING" /\ caseRow'.realized = realized
        BY <1>6, <4>1 DEF ClosingInv, ClosingTyped, CaseRow
      <4>. QED
        BY <1>3, <2>2, <3>2, <4>2 DEF CaseMatchesLedger
    <3>3. CASE c.action = "CLOSE"
      <4>1. caseRow' = [status |-> IF loss > 0 THEN "WRITTEN_OFF" ELSE "SETTLED",
                        realized |-> realized, finalLoss |-> loss]
        BY <1>8, <3>3
      <4>2. caseRow' \in CaseRow /\ caseRow'.realized = realized /\ caseRow'.finalLoss = loss
        BY <1>6, <4>1 DEF CaseRow
      <4>. QED
        BY <1>3, <1>5, <1>6, <2>3, <3>3, <4>2 DEF CaseMatchesLedger, ClosedWith
    <3>. QED
      BY <1>2, <3>1, <3>2, <3>3
  <2>8. /\ commands' \in [ResolutionKeys -> CommandRow]
        /\ \A k \in ResolutionKeys :
             /\ commands'[k].action = commands[k].action /\ commands'[k].amount = commands[k].amount
             /\ commands'[k].version = commands[k].version
             /\ k # r.key => commands'[k] = commands[k]
    <3>1. PICK d : d = [c EXCEPT !.answered = TRUE]
      OBVIOUS
    <3>2. d \in CommandRow /\ d.action = c.action /\ d.amount = c.amount /\ d.version = c.version
      BY <1>2, <3>1 DEF CommandRow
    <3>3. commands \in [ResolutionKeys -> CommandRow]
      BY DEF ClosingInv, ClosingTyped
    <3>4. commands' = [commands EXCEPT ![r.key] = d]
      BY <1>1, <1>2, <1>8, <3>1, <3>3
    <3>. QED
      BY <1>1, <1>2, <3>2, <3>3, <3>4
  <2>9. StoreKeeps
    BY <2>6, <2>8 DEF StoreKeeps
  <2>10. CommandsFit'
    <3>1. ASSUME NEW k \in ResolutionKeys PROVE commands'[k].version <= closingRow'.version
      <4>1. commands[k].version \in Nat /\ closingRow.version \in Nat /\ commands[k].version <= closingRow.version
        BY DEF ClosingInv, CommandsFit, ClosingTyped, CommandRow, ClosingRow
      <4>. QED
        BY <2>6, <2>8, <4>1
    <3>2. ASSUME NEW k \in ResolutionKeys, commands'[k].action = "NONE" PROVE commands'[k] = NoCommand
      BY <1>1, <1>2, <2>8, <3>2 DEF ClosingInv, CommandsFit
    <3>3. ASSUME NEW k \in ResolutionKeys, commands'[k].action = "UPDATE" PROVE commands'[k].amount # -1
      BY <2>8, <3>3 DEF ClosingInv, CommandsFit
    <3>. QED
      BY <3>1, <3>2, <3>3 DEF CommandsFit
  <2>11. ResolversFit' /\ FinalizersFit'
    BY <1>3, <1>4, <2>9, ResolverEnding, FinalizersRest
  <2>12. ClosingTyped'
    BY <1>3, <1>4, <2>6, <2>7, <2>8 DEF ClosingInv, ClosingTyped
  <2>. QED
    BY <1>4, <2>6, <2>7, <2>9, <2>10, <2>11, <2>12 DEF ClosingInv
<1>. QED
  BY <1>1, <1>5, <1>7, <1>8 DEF mutate, Command, Recovery, assertResolutionTransition

LEMMA ResolverCrashes ==
  ASSUME ClosingInv, NEW h \in Resolvers, crashResolver(h)
  PROVE  ClosingInv'
<1>1. /\ UNCHANGED <<closingStore, chainClaim, projected, verdict, executedTx, indexedTx, finalizers>>
      /\ mishaps' \in Nat /\ ResolverEnds(h)
  BY MishapCounts DEF crashResolver, indexerVars
<1>2. IdleResolver \in Resolver /\ ResolverFits(IdleResolver)
  BY DEF IdleResolver, Resolver, ResolverFits
<1>. QED
  BY <1>1, <1>2, RequestStep DEF ResolverEnds

-----------------------------------------------------------------------------
(* The indexer.                                                            *)

LEMMA ClosingIndexStays ==
  ASSUME ClosingInv, indexClosing
  PROVE  ClosingInv'
<1>1. /\ UNCHANGED <<closingStore, chainClaim, executedTx, verdict, finalizers, resolvers, mishaps>>
      /\ projected' = chainClaim.state /\ indexedTx' = executedTx
  BY DEF indexClosing
<1>2. chainClaim' \in ChainClaim /\ ChainKeeps
  BY <1>1 DEF ClosingInv, ClosingTyped, ChainKeeps, ChainClaim
<1>3. ChainFits'
  BY <1>1 DEF ClosingInv, ChainFits, ClosedWith, Ended
<1>4. StoreKeeps /\ RowFits' /\ CommandsFit' /\ SubsFit' /\ CaseMatchesLedger'
  BY <1>1, <1>2, LedgerStep DEF ClosingInv, RowFits
<1>5. ResolversFit' /\ FinalizersFit'
  BY <1>1, <1>2, <1>4, ResolversRest, FinalizersRest
<1>6. ClosingTyped'
  BY <1>1 DEF ClosingInv, ClosingTyped, closingStore
<1>. QED
  BY <1>3, <1>4, <1>5, <1>6 DEF ClosingInv

LEMMA ClosingReconcileStays ==
  ASSUME ClosingInv, NEW tx \in Txs, reconcileClosing(tx)
  PROVE  ClosingInv'
<1>1. /\ UNCHANGED <<closingStore, chainClaim, executedTx, projected, indexedTx, finalizers, resolvers>>
      /\ closeSubs[tx].status = "PENDING" /\ verdict'.tx = tx /\ mishaps' \in Nat
  BY MishapCounts DEF reconcileClosing
<1>2. UNCHANGED <<closingRow, caseRow, commands, closeSubs>>
  BY <1>1 DEF closingStore
<1>3. ChainKeeps /\ chainClaim' \in ChainClaim /\ ChainFits' /\ RowFits' /\ StoreKeeps /\ CommandsFit' /\ CaseMatchesLedger'
  BY <1>1, <1>2, LedgerRests, RowRests, CommandsRest, CaseRests
<1>4. SubsFit'
  BY <1>1, <1>2 DEF ClosingInv, SubsFit, Ended
<1>5. ResolversFit' /\ FinalizersFit'
  BY <1>1, <1>3, ResolversRest, FinalizersRest
<1>6. ClosingTyped'
  BY <1>1, <1>3, StoreTyped
<1>. QED
  BY <1>3, <1>4, <1>5, <1>6 DEF ClosingInv

LEMMA WriteVerdictStays ==
  ASSUME ClosingInv, writeVerdict
  PROVE  ClosingInv'
<1>1. PICK tx, sub : tx = verdict.tx /\ sub = closeSubs[tx]
  OBVIOUS
<1>2. /\ tx \in Txs /\ sub \in CloseSub /\ sub.expected \in {"RESOLUTION"} \cup Terminal
      /\ sub.expected \in Terminal => Ended(sub.expected)
  BY <1>1 DEF writeVerdict, ClosingInv, SubsFit, ClosingTyped, CloseSub
<1>3. /\ UNCHANGED <<caseRow, commands, chainClaim, executedTx, projected, indexedTx, finalizers, resolvers, mishaps>>
      /\ verdict' = NoVerdict
  BY DEF writeVerdict
<1>4. PICK status \in {"RECONCILED", "MISMATCH"} : closeSubs' = [closeSubs EXCEPT ![tx].status = status]
  BY <1>1 DEF writeVerdict
<1>5. /\ closeSubs' \in [Txs -> CloseSub]
      /\ \A t \in Txs : closeSubs'[t].expected = closeSubs[t].expected
      /\ \A t \in Txs : t # tx => closeSubs'[t] = closeSubs[t]
  <2>1. PICK v : v = [sub EXCEPT !.status = status]
    OBVIOUS
  <2>2. v \in CloseSub /\ v.expected = sub.expected
    BY <1>2, <2>1 DEF CloseSub
  <2>3. closeSubs \in [Txs -> CloseSub]
    BY DEF ClosingInv, ClosingTyped
  <2>4. closeSubs' = [closeSubs EXCEPT ![tx] = v]
    BY <1>1, <1>2, <1>4, <2>1, <2>3
  <2>. QED
    BY <1>1, <1>2, <2>2, <2>3, <2>4
<1>6. SubsFit'
  <2>1. ASSUME NEW t \in Txs, closeSubs'[t].expected \in Terminal PROVE Ended(closeSubs[t].expected)'
    BY <1>3, <1>5, <2>1 DEF ClosingInv, SubsFit, Ended
  <2>2. ASSUME NEW t \in Txs, closeSubs'[t].status # "NONE" PROVE closeSubs'[t].expected # "none"
    BY <1>1, <1>2, <1>5, <2>2 DEF ClosingInv, SubsFit, Terminal
  <2>. QED
    BY <1>3, <2>1, <2>2 DEF SubsFit, Ended
<1>7. /\ closingRow' \in ClosingRow /\ RowFits'
      /\ UNCHANGED closingRow \/ closingRow'.version = closingRow.version + 1
  <2>1. UNCHANGED closingRow \/ SetRow(sub.expected) \/ SetRow("PAUSED")
    BY <1>1 DEF writeVerdict
  <2>2. sub.expected \in RowStates /\ sub.expected # "REPAID"
    BY <1>2 DEF RowStates, Terminal
  <2>. QED
    BY <1>2, <1>3, <2>1, <2>2, RowMoved, RowRests DEF RowStates, Terminal
<1>8. ChainKeeps /\ chainClaim' \in ChainClaim /\ ChainFits' /\ StoreKeeps /\ CommandsFit' /\ CaseMatchesLedger'
  BY <1>3, <1>7, LedgerRests, CommandsRest, CaseRests
<1>9. ResolversFit' /\ FinalizersFit'
  BY <1>3, <1>8, ResolversRest, FinalizersRest
<1>10. ClosingTyped'
  BY <1>3, <1>5, <1>7 DEF ClosingInv, ClosingTyped
<1>. QED
  BY <1>6, <1>7, <1>8, <1>9, <1>10 DEF ClosingInv

-----------------------------------------------------------------------------

LEMMA ClosingStarts == ClosingInit => ClosingInv
<1>. SUFFICES ASSUME ClosingInit PROVE ClosingInv
  OBVIOUS
<1>1. PICK state \in {"REPAID", "SHORTFALL", "RESOLUTION"}, status \in {"NONE", "OPEN"} :
        /\ status = (IF state = "RESOLUTION" THEN "OPEN" ELSE "NONE")
        /\ closingRow = [state |-> state, version |-> 1] /\ projected = state
        /\ chainClaim = [state |-> state, issued |-> TRUE, escrow |-> state = "REPAID", status |-> status,
                         openedBy |-> "none", recovered |-> 0, finalLoss |-> 0]
        /\ caseRow = [status |-> status, realized |-> 0, finalLoss |-> 0]
  BY DEF ClosingInit
<1>2. /\ commands = [k \in ResolutionKeys |-> NoCommand]
      /\ closeSubs = [tx \in Txs |-> [status |-> "NONE", expected |-> "none"]]
      /\ executedTx = {} /\ indexedTx = {} /\ verdict = NoVerdict
      /\ finalizers = [f \in Finalizers |-> "idle"] /\ resolvers = [h \in Resolvers |-> IdleResolver]
      /\ mishaps = 0
  BY DEF ClosingInit, Txs
<1>3. closingRow \in ClosingRow /\ chainClaim \in ChainClaim /\ caseRow \in CaseRow
  BY <1>1 DEF ClosingRow, RowStates, ChainClaim, ChainStates, CaseRow
<1>4. NoCommand \in CommandRow /\ NoCommand.action = "NONE" /\ NoCommand.version = 0
  BY DEF NoCommand, CommandRow
<1>5. ClosingTyped
  <2>1. [status |-> "NONE", expected |-> "none"] \in CloseSub
    BY DEF CloseSub
  <2>. QED
    BY <1>2, <1>3, <1>4, <2>1 DEF ClosingTyped
<1>6. ChainFits
  BY <1>1 DEF ChainFits, Ended
<1>7. RowFits
  BY <1>1 DEF RowFits, Terminal
<1>8. CommandsFit
  <2>1. ASSUME NEW k \in ResolutionKeys
        PROVE  commands[k] = NoCommand /\ commands[k].version = 0 /\ commands[k].action = "NONE"
    BY <1>2, <1>4
  <2>2. closingRow.version = 1
    BY <1>1
  <2>3. ASSUME NEW k \in ResolutionKeys PROVE commands[k].version <= closingRow.version
    <3>1. commands[k].version = 0
      BY <2>1
    <3>. QED
      BY <2>2, <3>1
  <2>. QED
    BY <2>1, <2>3 DEF CommandsFit
<1>9. SubsFit
  BY <1>2 DEF SubsFit, Terminal
<1>10. FinalizersFit
  BY <1>2 DEF FinalizersFit, FinalizerFits, FinalizerPcs
<1>11. ResolversFit
  <2>1. IdleResolver \in Resolver /\ ResolverFits(IdleResolver)
    BY DEF IdleResolver, Resolver, ResolverFits
  <2>. QED
    BY <1>2, <2>1 DEF ResolversFit
<1>12. CaseMatchesLedger
  BY <1>1 DEF CaseMatchesLedger
<1>. QED
  BY <1>5, <1>6, <1>7, <1>8, <1>9, <1>10, <1>11, <1>12 DEF ClosingInv

LEMMA ClosingStays == ClosingInv /\ [ClosingNext]_closingVars => ClosingInv'
<1>. SUFFICES ASSUME ClosingInv, [ClosingNext]_closingVars PROVE ClosingInv'
  OBVIOUS
<1>1. DOMAIN closeSubs = Txs
  BY DEF ClosingInv, ClosingTyped
<1>2. ASSUME NEW f \in Finalizers, FinalizerStep(f) \/ crashFinalizer(f) PROVE ClosingInv'
  BY <1>2, FinalizerChooses, RedeemStays, ReleaseStays, CloseStays, ExpectStays, PromoteStays DEF FinalizerStep
<1>3. ASSUME NEW h \in Resolvers, ResolverStep(h) \/ crashResolver(h) PROVE ClosingInv'
  BY <1>3, ExecuteStays, LookupStays, ClosingCallStays, ClawbackStays, ClosingRecordStays, MutateStays, ResolverCrashes
  DEF ResolverStep
<1>4. CASE UNCHANGED closingVars
  <2>1. /\ UNCHANGED <<closingRow, chainClaim, projected, caseRow, commands, closeSubs>>
        /\ UNCHANGED <<executedTx, indexedTx, verdict, finalizers, resolvers, mishaps>>
    BY <1>4 DEF closingVars
  <2>2. /\ ChainKeeps /\ StoreKeeps /\ chainClaim' \in ChainClaim
        /\ ChainFits' /\ RowFits' /\ CommandsFit' /\ SubsFit' /\ CaseMatchesLedger'
    BY <2>1, QuietStep DEF closingStore
  <2>3. ResolversFit' /\ FinalizersFit'
    BY <2>1, <2>2, ResolversRest, FinalizersRest
  <2>4. ClosingTyped'
    BY <2>1 DEF ClosingInv, ClosingTyped
  <2>. QED
    BY <2>2, <2>3, <2>4 DEF ClosingInv
<1>. QED
  BY <1>1, <1>2, <1>3, <1>4, ClosingIndexStays, WriteVerdictStays, ClosingReconcileStays DEF ClosingNext

LEMMA ClosingHolds == ClosingSpec => []ClosingInv
<1>. QED
  BY ClosingStarts, ClosingStays, PTL DEF ClosingSpec

(* Rows and commands have their types, whatever was called and lost.       *)
THEOREM ClosingTypeCorrect == ClosingSpec => []ClosingTypeOK
<1>1. ClosingInv => ClosingTypeOK
  BY DEF ClosingInv, ClosingTyped, ClosingTypeOK, ClosingRow, RowStates, ChainClaim, ChainStates, CaseRow
<1>. QED
  BY <1>1, ClosingHolds, PTL

(* The database calls a claim closed only when the ledger has closed it    *)
(* the same way, with no jCLAIM outstanding and no first loss held, for    *)
(* any number of finalizers, requests, keys and mishaps.                   *)
THEOREM EndsAreOnChain == ClosingSpec => []TerminalIsOnChain
<1>1. ClosingInv => TerminalIsOnChain
  BY DEF ClosingInv, RowFits, Ended, TerminalIsOnChain
<1>. QED
  BY <1>1, ClosingHolds, PTL

(* The case counts no recovery the ledger lacks, and a case that is closed *)
(* was closed on the ledger with the same recovery and the same loss.      *)
THEOREM CaseFollowsLedger == ClosingSpec => []CaseMatchesLedger
<1>1. ClosingInv => CaseMatchesLedger
  BY DEF ClosingInv
<1>. QED
  BY <1>1, ClosingHolds, PTL
===============================================================================
