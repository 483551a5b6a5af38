--------------------------- MODULE RiskEvaluation ---------------------------
(***************************************************************************)
(* The durable RISK worker of the API, for one claim: an analysis queues   *)
(* an operation, workers take it under a lease, ask the risk service and   *)
(* commit its answer; an eligible answer is signed, registered with the    *)
(* eligibility registry, reconciled with the indexed events, and only then *)
(* makes the claim ELIGIBLE.  Every step is one database transaction or    *)
(* one call to a partner, and a worker may end between any two.            *)
(*                                                                         *)
(* An evaluation, its attestation and its registration derive their        *)
(* identities from the operation, so all three are indexed by it.  The     *)
(* status of the JCC_REGISTER operation is left out: nothing decides on it.*)
(***************************************************************************)
EXTENDS Integers

CONSTANTS
  Analyses,     \* ids of RISK_EVALUATION operations
  Evaluators,   \* workers that may run at the same time
  MaxAttempts,  \* attempts a run may reach, over all runs of the operation
  MaxFaults     \* bound: crashes, expired leases and lost calls in a behaviour

ASSUME RiskAssumption == MaxAttempts \in 1..5 /\ MaxFaults \in Nat

VARIABLES
  analysis,      \* claims row: state and version
  aged,          \* the decision snapshot has become too old for the service
  blocked,       \* its quality report blocks automation
  operations,    \* operations rows: status, lease, recorded attempts
  evaluations,   \* risk_evaluations: decision by operation
  attestations,  \* eligibility_attestations: status by operation
  journal,       \* chain_submissions: status by operation
  registry,      \* the contract and its events, by operation
  evaluators,    \* where each worker is
  riskFaults     \* faults so far

riskRows == <<analysis, operations, evaluations, attestations, journal>>
riskSnapshot == <<aged, blocked>>
riskVars == <<riskRows, riskSnapshot, registry, evaluators, riskFaults>>

IdleEvaluator == [pc |-> "idle", op |-> CHOOSE o \in Analyses : TRUE, version |-> 0,
                  attempt |-> 0, decision |-> "none", seen |-> "none",
                  fresh |-> FALSE, retry |-> FALSE]

At(w, pc) == evaluators[w].pc = pc
Op(w) == evaluators[w].op
Goto(w, pc) == evaluators' = [evaluators EXCEPT ![w].pc = pc]
Quit(w) == evaluators' = [evaluators EXCEPT ![w] = IdleEvaluator]

(* An error leaves the run for markFailed.                                 *)
Throw(w, retry) ==
  evaluators' = [evaluators EXCEPT ![w] = [@ EXCEPT !.pc = "fail", !.retry = retry]]

Fault == riskFaults < MaxFaults /\ riskFaults' = riskFaults + 1

SetStatus(o, status) == operations' = [operations EXCEPT ![o].status = status, ![o].lapsed = FALSE]

-----------------------------------------------------------------------------
(* Around the worker.                                                      *)

(* analyze of ClaimLifecycleApplication.                                   *)
analyze(o) ==
  /\ analysis.state \in {"DRAFT", "DATA_PENDING", "REVIEW"}
  /\ operations[o].status = "NONE"
  /\ analysis' = [state |-> "ANALYZED", version |-> analysis.version + 1]
  /\ SetStatus(o, "QUEUED")
  /\ UNCHANGED <<evaluations, attestations, journal, riskSnapshot, registry, evaluators, riskFaults>>

(* The control evidence of an eligible claim is verified.                  *)
verifyControl ==
  /\ analysis.state = "ELIGIBLE"
  /\ analysis' = [state |-> "CONTROLLED", version |-> analysis.version + 1]
  /\ UNCHANGED <<operations, evaluations, attestations, journal, riskSnapshot, registry, evaluators, riskFaults>>

(* validate_feature_contract begins to answer REVIEW.                      *)
ageSnapshot ==
  /\ ~ aged /\ aged' = TRUE
  /\ UNCHANGED <<riskRows, blocked, registry, evaluators, riskFaults>>

indexRegistration(o) ==
  /\ registry[o].status # "absent" /\ ~ registry[o].indexed
  /\ registry' = [registry EXCEPT ![o].indexed = TRUE]
  /\ UNCHANGED <<riskRows, riskSnapshot, evaluators, riskFaults>>

(* A registration nobody heard of again is included.                       *)
landRegistration(o) ==
  /\ registry[o].inflight
  /\ registry' = [registry EXCEPT ![o].inflight = FALSE,
       ![o].status = IF @ = "absent" THEN "active" ELSE @]
  /\ UNCHANGED <<riskRows, riskSnapshot, evaluators, riskFaults>>

revokeOnChain(o) ==
  /\ registry[o].status = "active"
  /\ registry' = [registry EXCEPT ![o].status = "revoked"]
  /\ UNCHANGED <<riskRows, riskSnapshot, evaluators, riskFaults>>

Attended(o) == \E w \in Evaluators : ~ At(w, "idle") /\ Op(w) = o

(* updatedAt falls behind staleBefore: the lease of a worker that is gone, *)
(* or of one that is slow.  Nothing a run does renews it.                  *)
lapse(o) ==
  /\ operations[o].status = "RUNNING" /\ ~ operations[o].lapsed
  /\ operations' = [operations EXCEPT ![o].lapsed = TRUE]
  /\ IF Attended(o) THEN Fault ELSE UNCHANGED riskFaults
  /\ UNCHANGED <<analysis, evaluations, attestations, journal, riskSnapshot, registry, evaluators>>

crashEvaluator(w) ==
  /\ ~ At(w, "idle") /\ Quit(w) /\ Fault
  /\ UNCHANGED <<riskRows, riskSnapshot, registry>>

-----------------------------------------------------------------------------
(* RiskEvaluationWorkerService.run.                                        *)

\* slip: a run that was begun is never taken over
Candidate_abandoned(o) == operations[o].status \in {"QUEUED", "RETRYABLE"}

Candidate(o) ==
  \/ operations[o].status \in {"QUEUED", "RETRYABLE"}
  \/ operations[o].status = "RUNNING" /\ operations[o].lapsed

claimWork(w, o) ==
  /\ At(w, "idle") /\ Candidate(o)
  /\ SetStatus(o, "RUNNING")
  /\ evaluators' = [evaluators EXCEPT ![w] = [IdleEvaluator EXCEPT
       !.pc = "prepare", !.op = o, !.attempt = operations[o].attempts]]
  /\ UNCHANGED <<analysis, evaluations, attestations, journal, riskSnapshot, registry, riskFaults>>

prepare(w) ==
  /\ At(w, "prepare")
  /\ IF analysis.state # "ANALYZED" THEN Throw(w, FALSE)
     ELSE evaluators' = [evaluators EXCEPT ![w] = [@ EXCEPT !.pc = "find", !.version = analysis.version]]
  /\ UNCHANGED <<riskRows, riskSnapshot, registry, riskFaults>>

(* A stored evaluation is taken up before the budget is looked at.         *)
findTrusted(w) ==
  /\ At(w, "find")
  /\ IF evaluations[Op(w)] # "none"
     THEN evaluators' = [evaluators EXCEPT ![w] = [@ EXCEPT !.pc = "continue", !.decision = evaluations[Op(w)]]]
     ELSE IF evaluators[w].attempt >= MaxAttempts THEN Throw(w, FALSE)
     ELSE Goto(w, "evaluate")
  /\ UNCHANGED <<riskRows, riskSnapshot, registry, riskFaults>>

(* predict: the rules answer REVIEW for a high refund rate.  The interface *)
(* also has INELIGIBLE.                                                    *)
Predictions == {"ELIGIBLE", "REVIEW", "INELIGIBLE"}

(* The service predicts only what validate_feature_contract finds nothing  *)
(* against.                                                                *)
Answers == IF aged THEN {"REVIEW"} ELSE Predictions

(* The effective decision of validateRiskEvaluation.                       *)
Trusted(answer) == IF blocked /\ answer = "ELIGIBLE" THEN "REVIEW" ELSE answer

(* A call without an answer, or answered by a status of 429 or from 500,   *)
(* is tried again; one that is refused or answered amiss is not.           *)
ClientFails(w) ==
  LET next == evaluators[w].attempt + 1 IN
  \/ evaluators' = [evaluators EXCEPT ![w] = [@ EXCEPT
       !.attempt = next, !.retry = TRUE,
       !.pc = IF next = MaxAttempts THEN "fail" ELSE "evaluate"]]
  \/ Throw(w, FALSE)

(* evaluate and recordAttempt.                                             *)
evaluate(w) ==
  /\ At(w, "evaluate")
  /\ operations' = [operations EXCEPT ![Op(w)].attempts = @ + 1]
  /\ \/ /\ \E answer \in Answers :
             evaluators' = [evaluators EXCEPT ![w] = [@ EXCEPT
               !.pc = "commit", !.decision = Trusted(answer), !.fresh = TRUE]]
        /\ UNCHANGED riskFaults
     \/ ClientFails(w) /\ Fault
  /\ UNCHANGED <<analysis, evaluations, attestations, journal, riskSnapshot, registry>>

AppliesTo(w) == analysis.state = "ANALYZED" /\ analysis.version = evaluators[w].version

Decide(w) ==
  analysis' = [state |-> CASE evaluators[w].decision = "ELIGIBLE" -> "ELIGIBLE"
                           [] evaluators[w].decision = "REVIEW" -> "REVIEW"
                           [] OTHER -> "REJECTED",
               version |-> analysis.version + 1]

(* commit of the durable committer: the first evaluation of an operation   *)
(* stays, and an eligible one leaves the claim alone.                      *)
commitEvaluation(w) ==
  LET o == Op(w)  d == evaluators[w].decision IN
  /\ At(w, "commit")
  /\ IF operations[o].status \notin {"RUNNING", "COMPLETED"} \/ evaluations[o] \notin {"none", d}
       THEN Throw(w, FALSE) /\ UNCHANGED <<evaluations, analysis>>
     ELSE IF evaluations[o] = d
       THEN Goto(w, "continue") /\ UNCHANGED <<evaluations, analysis>>
     ELSE IF d = "ELIGIBLE" \/ AppliesTo(w)
       THEN /\ evaluations' = [evaluations EXCEPT ![o] = d]
            /\ IF d = "ELIGIBLE" THEN UNCHANGED analysis ELSE Decide(w)
            /\ Goto(w, "continue")
     ELSE Throw(w, FALSE) /\ UNCHANGED <<evaluations, analysis>>
  /\ UNCHANGED <<operations, attestations, journal, riskSnapshot, registry, riskFaults>>

continueAfterTrusted(w) ==
  /\ At(w, "continue")
  /\ Goto(w, IF evaluators[w].decision = "ELIGIBLE" THEN "load" ELSE "complete")
  /\ UNCHANGED <<riskRows, riskSnapshot, registry, riskFaults>>

markCompleted(w) ==
  /\ At(w, "complete") /\ SetStatus(Op(w), "COMPLETED") /\ Quit(w)
  /\ UNCHANGED <<analysis, evaluations, attestations, journal, riskSnapshot, registry, riskFaults>>

(* markFailed looks at no status.  An error after the commit of a fresh    *)
(* evaluation is caught twice, and marked twice.                           *)
markFailed(w) ==
  /\ At(w, "fail")
  /\ SetStatus(Op(w), IF evaluators[w].retry THEN "RETRYABLE" ELSE "FAILED")
  /\ IF evaluators[w].fresh /\ evaluators[w].seen # "none"
     THEN evaluators' = [evaluators EXCEPT ![w].fresh = FALSE] ELSE Quit(w)
  /\ UNCHANGED <<analysis, evaluations, attestations, journal, riskSnapshot, registry, riskFaults>>

-----------------------------------------------------------------------------
(* JccRiskPostEvaluationLifecycle.continue: issue, then activate.          *)

(* findById and load; a stored envelope is not signed again.               *)
loadEvidence(w) ==
  LET o == Op(w) IN
  /\ At(w, "load")
  /\ evaluators' = [evaluators EXCEPT ![w] = [@ EXCEPT !.seen = attestations[o], !.retry = FALSE,
       !.pc = IF analysis.state \notin {"ANALYZED", "ELIGIBLE"} THEN "fail"
              ELSE IF attestations[o] = "NONE" THEN "sign" ELSE "begin"]]
  /\ UNCHANGED <<riskRows, riskSnapshot, registry, riskFaults>>

(* sign, verify and insertOrFind.                                          *)
signEnvelope(w) ==
  LET o == Op(w) IN
  /\ At(w, "sign")
  /\ \/ /\ attestations' = [attestations EXCEPT ![o] = IF @ = "NONE" THEN "PENDING_REGISTRATION" ELSE @]
        /\ evaluators' = [evaluators EXCEPT ![w] = [@ EXCEPT !.pc = "begin", !.seen = attestations'[o]]]
        /\ UNCHANGED riskFaults
     \/ \E retry \in BOOLEAN : Throw(w, retry) /\ Fault /\ UNCHANGED attestations
  /\ UNCHANGED <<analysis, operations, evaluations, journal, riskSnapshot, registry>>

beginRegistration(w) ==
  LET o == Op(w) IN
  /\ At(w, "begin")
  /\ journal' = [journal EXCEPT ![o] = IF @ = "NONE" THEN "PREPARED" ELSE @]
  /\ Goto(w, IF journal[o] \in {"NONE", "PREPARED"} THEN "register" ELSE "reconcile")
  /\ UNCHANGED <<analysis, operations, evaluations, attestations, riskSnapshot, registry, riskFaults>>

(* register, for a new submission and for one whose outcome is unknown:    *)
(* find of the submitter knows of nothing.                                 *)
register(w) ==
  LET o == Op(w) IN
  /\ At(w, "register")
  /\ \/ /\ registry[o].status # "absent"
        /\ Throw(w, TRUE) /\ UNCHANGED <<registry, riskFaults>>
     \/ /\ registry[o].status = "absent"
        /\ registry' = [registry EXCEPT ![o] = [@ EXCEPT !.inflight = FALSE, !.status = "active"]]
        /\ Goto(w, "submitted") /\ UNCHANGED riskFaults
     \/ /\ registry[o].status = "absent" /\ registry[o].inflight
        /\ registry' = [registry EXCEPT ![o] = [@ EXCEPT !.inflight = FALSE, !.status = "active"]]
        /\ Throw(w, FALSE) /\ UNCHANGED riskFaults
     \/ /\ registry[o].status = "absent"
        /\ Throw(w, TRUE) /\ Fault
        /\ \/ registry' = [registry EXCEPT ![o].inflight = TRUE]
           \/ UNCHANGED registry
  /\ UNCHANGED <<riskRows, riskSnapshot>>

markSubmitted(w) ==
  /\ At(w, "submitted")
  /\ journal' = [journal EXCEPT ![Op(w)] = "SUBMITTED"]
  /\ Goto(w, "reconcile")
  /\ UNCHANGED <<analysis, operations, evaluations, attestations, riskSnapshot, registry, riskFaults>>

\* slip: the indexed event is not waited for
reconcile_early(w) ==
  /\ At(w, "reconcile") /\ Goto(w, "read")
  /\ UNCHANGED <<riskRows, riskSnapshot, registry, riskFaults>>

reconcile(w) ==
  /\ At(w, "reconcile")
  /\ IF registry[Op(w)].indexed THEN Goto(w, "read") ELSE Throw(w, TRUE)
  /\ UNCHANGED <<riskRows, riskSnapshot, registry, riskFaults>>

(* read of the live contract state; a failed call is an unexpected error.  *)
readLive(w) ==
  /\ At(w, "read")
  /\ \/ /\ IF registry[Op(w)].status = "active" THEN Goto(w, "publish") ELSE Throw(w, TRUE)
        /\ UNCHANGED riskFaults
     \/ Throw(w, FALSE) /\ Fault
  /\ UNCHANGED <<riskRows, riskSnapshot, registry>>

(* updateOperationalStatus, under the version that was read.               *)
publish(w) ==
  LET o == Op(w) IN
  /\ At(w, "publish")
  /\ IF evaluators[w].seen # "ACTIVE" /\ attestations[o] = "ACTIVE"
     THEN Throw(w, FALSE) /\ UNCHANGED attestations
     ELSE attestations' = [attestations EXCEPT ![o] = "ACTIVE"] /\ Goto(w, "settle")
  /\ UNCHANGED <<analysis, operations, evaluations, journal, riskSnapshot, registry, riskFaults>>

markReconciled(w) ==
  /\ At(w, "settle")
  /\ journal' = [journal EXCEPT ![Op(w)] = "RECONCILED"]
  /\ Goto(w, "activate")
  /\ UNCHANGED <<analysis, operations, evaluations, attestations, riskSnapshot, registry, riskFaults>>

activate(w) ==
  /\ At(w, "activate")
  /\ IF analysis.state = "ELIGIBLE"
       THEN SetStatus(Op(w), "COMPLETED") /\ Goto(w, "complete") /\ UNCHANGED analysis
     ELSE IF AppliesTo(w)
       THEN Decide(w) /\ SetStatus(Op(w), "COMPLETED") /\ Goto(w, "complete")
     ELSE Throw(w, FALSE) /\ UNCHANGED <<analysis, operations>>
  /\ UNCHANGED <<evaluations, attestations, journal, riskSnapshot, registry, riskFaults>>

-----------------------------------------------------------------------------

RiskInit ==
  /\ analysis \in [state : {"DRAFT", "DATA_PENDING"}, version : {1}]
  /\ aged = FALSE /\ blocked \in BOOLEAN
  /\ operations = [o \in Analyses |-> [status |-> "NONE", lapsed |-> FALSE, attempts |-> 0]]
  /\ evaluations = [o \in Analyses |-> "none"]
  /\ attestations = [o \in Analyses |-> "NONE"]
  /\ journal = [o \in Analyses |-> "NONE"]
  /\ registry = [o \in Analyses |-> [status |-> "absent", inflight |-> FALSE, indexed |-> FALSE]]
  /\ evaluators = [w \in Evaluators |-> IdleEvaluator]
  /\ riskFaults = 0

WorkerStep(w) ==
  \/ \E o \in Analyses : claimWork(w, o)
  \/ prepare(w) \/ findTrusted(w) \/ evaluate(w) \/ commitEvaluation(w)
  \/ continueAfterTrusted(w) \/ markCompleted(w) \/ markFailed(w)
  \/ loadEvidence(w) \/ signEnvelope(w) \/ beginRegistration(w) \/ register(w)
  \/ markSubmitted(w) \/ reconcile(w) \/ readLive(w) \/ publish(w)
  \/ markReconciled(w) \/ activate(w)

RiskNext ==
  \/ \E o \in Analyses : \/ analyze(o) \/ indexRegistration(o) \/ landRegistration(o)
                         \/ revokeOnChain(o) \/ lapse(o)
  \/ verifyControl \/ ageSnapshot
  \/ \E w \in Evaluators : WorkerStep(w) \/ crashEvaluator(w)

RiskSpec == RiskInit /\ [][RiskNext]_riskVars

(* The worker loop polls for ever, the indexer's loop runs beside it, a    *)
(* sent transaction is included, and the lease of a dead worker runs out.  *)
RiskFairness ==
  /\ \A w \in Evaluators : WF_riskVars(WorkerStep(w))
  /\ \A o \in Analyses :
       /\ WF_riskVars(indexRegistration(o)) /\ WF_riskVars(landRegistration(o))
       /\ WF_riskVars(lapse(o) /\ riskFaults' = riskFaults)

FairRiskSpec == RiskSpec /\ RiskFairness

-----------------------------------------------------------------------------

RiskTypeOK ==
  /\ analysis \in [state : {"DRAFT", "DATA_PENDING", "ANALYZED", "ELIGIBLE", "REVIEW",
                            "REJECTED", "CONTROLLED"}, version : Nat]
  /\ aged \in BOOLEAN /\ blocked \in BOOLEAN
  /\ operations \in [Analyses -> [lapsed : BOOLEAN, attempts : Nat,
       status : {"NONE", "QUEUED", "RUNNING", "RETRYABLE", "FAILED", "COMPLETED"}]]
  /\ evaluations \in [Analyses -> {"none", "ELIGIBLE", "REVIEW", "INELIGIBLE"}]
  /\ attestations \in [Analyses -> {"NONE", "PENDING_REGISTRATION", "ACTIVE"}]
  /\ journal \in [Analyses -> {"NONE", "PREPARED", "SUBMITTED", "RECONCILED"}]
  /\ registry \in [Analyses -> [status : {"absent", "active", "revoked"},
                                inflight : BOOLEAN, indexed : BOOLEAN]]
  /\ riskFaults \in Nat

(* A claim is ELIGIBLE, or has gone on from there, only with an eligible   *)
(* evaluation whose attestation was registered, indexed, seen alive and    *)
(* published: whatever crashed, lapsed or was lost on the way.             *)
EligibleIsAttested ==
  analysis.state \in {"ELIGIBLE", "CONTROLLED"} =>
    \E o \in Analyses :
      /\ evaluations[o] = "ELIGIBLE" /\ attestations[o] = "ACTIVE"
      /\ registry[o].status # "absent" /\ registry[o].indexed

(* The evaluation an operation is trusted for is never another one, though *)
(* two workers may hold the operation and the service's answer may change. *)
TrustedOnce ==
  [][\A o \in Analyses : evaluations[o] # "none" => evaluations'[o] = evaluations[o]]_riskVars

(* When faults end, an analysis reaches an end: unless its registration    *)
(* was lost or revoked, its operation does not stay queued, running or     *)
(* retryable.                                                              *)
AnalysisEnds ==
  \A o \in Analyses :
    operations[o].status = "QUEUED" ~>
      \/ operations[o].status \in {"COMPLETED", "FAILED"}
      \/ registry[o].status = "revoked"
      \/ journal[o] = "PREPARED" /\ registry[o].status = "active"

(* What the handoff says: a registration that executed is recovered after  *)
(* a lost response, and the claim goes on.                                 *)
RegistrationRecovered ==
  \A o \in Analyses :
    registry[o].status = "active" ~>
      registry[o].status = "revoked" \/ attestations[o] = "ACTIVE" \/ operations[o].status = "FAILED"
=============================================================================
