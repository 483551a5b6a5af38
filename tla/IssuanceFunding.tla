-------------------------- MODULE IssuanceFunding --------------------------
(***************************************************************************)
(* From a controlled claim to a funded one, for one claim: POST /issue,    *)
(* the funding saga behind POST /fund, the compensation of that saga, the  *)
(* commands on the control evidence, and the verdict of the chain indexer  *)
(* on what was submitted.  Requests are served by handlers that run at the *)
(* same time; each step of a handler is one database transaction or one    *)
(* call to the ledger, and a handler may end between any two.              *)
(*                                                                         *)
(* The attestation and the accepted offer stay valid.  A transaction is    *)
(* told apart by the key whose handler submitted it; the lookup of an      *)
(* earlier submission by its key is wired to find none.  So is, in effect, *)
(* the search for an active position of the claim: it asks for statuses    *)
(* that no position is given.                                              *)
(***************************************************************************)
EXTENDS Integers

CONSTANTS
  IssueKeys,     \* idempotency keys of POST /issue
  FundKeys,      \* idempotency keys of POST /fund
  Handlers,      \* requests served at the same time
  MaxVersion,    \* bound: no command on the claim at this version
  MaxRequests,   \* bound: requests of clients served in a behaviour
  MaxIncidents   \* bound: crashes, lost answers, failed transactions, mismatches reported

ASSUME FundingAssumption ==
  /\ "none" \notin IssueKeys \cup FundKeys
  /\ MaxVersion \in Nat /\ MaxRequests \in Nat /\ MaxIncidents \in Nat

VARIABLES
  row,        \* claims row: state and version
  evidence,   \* control_evidence: status of the latest, and whether an older is VERIFIED
  onchain,    \* the claim on the ledger, its jCLAIM, and whose transaction did what
  indexed,    \* actions whose event is in chain_events
  issues,     \* operation, submission and answer of each issue key
  sagas,      \* operation, steps and answer of each fund key
  subs,       \* chain_submissions of the sagas: status by key and action
  handlers,   \* where each handler is
  served,     \* requests so far
  incidents   \* incidents so far

fundingVars == <<row, evidence, onchain, indexed, issues, sagas, subs, handlers, served, incidents>>
world == <<row, evidence, onchain, indexed>>

Actions == {"ISSUE", "FUND", "COMPENSATE"}
FundSteps == {"PRECONDITIONS", "ISSUER_APPROVAL", "ISSUE", "FUND", "COMPENSATE", "ANCHOR_PAYOUT"}
IdleHandler == [pc |-> "idle", key |-> "none", action |-> "none", mark |-> "none"]

In(h, pc) == handlers[h].pc = pc
Key(h) == handlers[h].key
Step(h, pc) == handlers' = [handlers EXCEPT ![h].pc = pc]
Leave(h) == handlers' = [handlers EXCEPT ![h] = IdleHandler]
Serve(h) == In(h, "idle") /\ served < MaxRequests /\ served' = served + 1
Incident == incidents < MaxIncidents /\ incidents' = incidents + 1

(* A transaction of handler h fails; nothing of it stays.                  *)
Aborts(h) == Incident /\ Leave(h)

VerifiedEvidence == evidence.latest = "VERIFIED" \/ evidence.older

(* What #facts, the loader of the funding facts and ensurePreconditions    *)
(* ask of the claim.                                                       *)
Ready(states, version) == row.state \in states /\ row.version = version /\ VerifiedEvidence

MoveRow(state) == row' = [state |-> state, version |-> row.version + 1]

-----------------------------------------------------------------------------
(* Commands on the control evidence; each is one transaction on the locked *)
(* claims row.                                                             *)

Commanded == row.version < MaxVersion /\ UNCHANGED <<onchain, indexed, issues, sagas, subs, handlers, incidents, served>>

submitEvidence ==
  /\ Commanded /\ row.state \in {"ELIGIBLE", "CONTROLLED"}
  /\ evidence' = [latest |-> "PENDING", older |-> VerifiedEvidence]
  /\ MoveRow(row.state)

decide(status) ==
  /\ Commanded /\ evidence.latest # "NONE"
  /\ status = "VERIFIED" => evidence.latest \in {"PENDING", "VERIFIED"}
  /\ evidence' = [evidence EXCEPT !.latest = status]
  /\ MoveRow(CASE status = "VERIFIED" -> "CONTROLLED"
               [] status = "REVOKED"  -> "SUSPENDED"
               [] OTHER -> row.state)

pause == Commanded /\ MoveRow("PAUSED") /\ UNCHANGED evidence

-----------------------------------------------------------------------------
(* POST /issue.                                                            *)

(* buildContext and #begin.  The version is part of the payload, so a key  *)
(* goes on at the version it was first used for, or not at all.            *)
openIssue(h, k) ==
  /\ Serve(h) /\ Ready({"CONTROLLED"}, row.version)
  /\ \/ issues[k].status = "NONE"
     \/ issues[k].version = row.version /\ ~ issues[k].answered
  /\ issues' = [issues EXCEPT ![k].version = row.version,
       ![k].status = IF @ = "NONE" THEN "SUBMITTING" ELSE @]
  /\ handlers' = [handlers EXCEPT ![h] = [@ EXCEPT !.pc = "facts", !.key = k]]
  /\ UNCHANGED <<world, sagas, subs, incidents>>

facts(h) ==
  /\ In(h, "facts")
  /\ IF Ready({"CONTROLLED"}, issues[Key(h)].version) THEN Step(h, "look") ELSE Leave(h)
  /\ UNCHANGED <<world, issues, sagas, subs, incidents, served>>

(* #onchainState: an error of the read is taken for a claim that is not    *)
(* there.                                                                  *)
onchainState(h) ==
  /\ In(h, "look")
  /\ \/ /\ onchain.state # "Funded" /\ UNCHANGED incidents
        /\ Step(h, [absent |-> "create", Created |-> "confirm", Controlled |-> "issue",
                    Issued |-> "recover"][onchain.state])
     \/ onchain.state = "Funded" /\ Leave(h) /\ UNCHANGED incidents
     \/ Step(h, "create") /\ Incident
  /\ UNCHANGED <<world, issues, sagas, subs, served>>

(* create_claim, confirm_control and issue of the contracts.               *)
LedgerCalls == {"create", "confirm", "issue"}
CallFrom == [create |-> "absent", confirm |-> "Created", issue |-> "Controlled"]
CallTo == [create |-> "Created", confirm |-> "Controlled", issue |-> "Issued"]
AfterCall == [create |-> "confirm", confirm |-> "issue", issue |-> "record"]

callLedger(h) ==
  LET call == handlers[h].pc IN
  /\ call \in LedgerCalls
  /\ \/ /\ onchain.state = CallFrom[call]
        /\ onchain' = [onchain EXCEPT !.state = CallTo[call], !.jclaim = call = "issue",
             !.by["ISSUE"] = IF call = "issue" THEN Key(h) ELSE @]
        /\ \/ Step(h, AfterCall[call]) /\ UNCHANGED incidents
           \/ Leave(h) /\ Incident
     \/ onchain.state # CallFrom[call] /\ Leave(h) /\ UNCHANGED <<onchain, incidents>>
     \/ Aborts(h) /\ UNCHANGED onchain
  /\ UNCHANGED <<row, evidence, indexed, issues, sagas, subs, served>>

\* slip: a request that finds the claim issued is answered at once
indexedIssue_answering(h) ==
  /\ In(h, "recover") /\ Step(h, "complete")
  /\ UNCHANGED <<world, issues, sagas, subs, incidents, served>>

(* #indexedIssue; without the event the request fails and may be retried.  *)
indexedIssue(h) ==
  /\ In(h, "recover")
  /\ IF "ISSUE" \in indexed THEN Step(h, "record") ELSE Leave(h)
  /\ UNCHANGED <<world, issues, sagas, subs, incidents, served>>

(* #recordSubmission: the first one of the operation stays.                *)
recordSubmission(h) ==
  /\ In(h, "record")
  /\ \/ /\ Step(h, "complete") /\ UNCHANGED incidents
        /\ issues' = IF issues[Key(h)].submission # "NONE" THEN issues
                     ELSE [issues EXCEPT ![Key(h)] = [@ EXCEPT
                            !.submission = "SUBMITTED", !.status = "PENDING_RECONCILIATION"]]
     \/ Aborts(h) /\ UNCHANGED issues
  /\ UNCHANGED <<world, sagas, subs, served>>

completeIssue(h) ==
  /\ In(h, "complete")
  /\ \/ Leave(h) /\ issues' = [issues EXCEPT ![Key(h)].answered = TRUE] /\ UNCHANGED incidents
     \/ Aborts(h) /\ UNCHANGED issues
  /\ UNCHANGED <<world, sagas, subs, served>>

-----------------------------------------------------------------------------
(* The funding saga.                                                       *)

(* The step execute takes next, the first of the steps it has loaded that  *)
(* did not succeed.                                                        *)
NextStep(steps) ==
  IF steps["PRECONDITIONS"] # "SUCCEEDED"        THEN [pc |-> "preconditions", action |-> "none"]
  ELSE IF steps["ISSUER_APPROVAL"] # "SUCCEEDED" THEN [pc |-> "issuer", action |-> "none"]
  ELSE IF steps["ISSUE"] # "SUCCEEDED"           THEN [pc |-> "prepare", action |-> "ISSUE"]
  ELSE IF steps["FUND"] # "SUCCEEDED"            THEN [pc |-> "prepare", action |-> "FUND"]
  ELSE IF steps["ANCHOR_PAYOUT"] # "SUCCEEDED"   THEN [pc |-> "anchor", action |-> "none"]
  ELSE [pc |-> "finish", action |-> "none"]

Continue(h, k, steps) ==
  LET next == NextStep(steps) IN
  handlers' = [handlers EXCEPT ![h] = [@ EXCEPT !.key = k, !.pc = next.pc, !.action = next.action]]

(* The handler goes on to markStatus.                                      *)
Mark(h, status) == handlers' = [handlers EXCEPT ![h] = [@ EXCEPT !.pc = "mark", !.mark = status]]

(* The catch blocks of execute; the compensation has none.                 *)
Catch(h, retryable) ==
  CASE handlers[h].action = "ISSUE" -> Mark(h, IF retryable THEN "PAUSED" ELSE "FAILED")
    [] handlers[h].action = "FUND"  -> Mark(h, IF retryable THEN "PAUSED" ELSE "COMPENSATION_REQUIRED")
    [] OTHER -> Leave(h)

buildFundingContext == Ready({"CONTROLLED", "ISSUED"}, row.version)

(* fundingPayloadHash: the expected version is part of the payload, so a   *)
(* key is used at another version in vain.                                 *)
SamePayload(k) == sagas[k].version = row.version

(* buildFundingContext and begin.                                          *)
openFunding(h, k) ==
  /\ Serve(h) /\ buildFundingContext
  /\ sagas[k].status = "NONE" \/ (SamePayload(k) /\ ~ sagas[k].answered)
  /\ sagas' = [sagas EXCEPT ![k].version = row.version,
       ![k].status = IF @ = "NONE" THEN "PENDING" ELSE @]
  /\ Continue(h, k, sagas[k].steps)
  /\ UNCHANGED <<world, issues, subs, incidents>>

ensurePreconditions(h) ==
  LET k == Key(h)
      steps == [sagas[k].steps EXCEPT !["PRECONDITIONS"] = "SUCCEEDED",
                  !["ISSUE"] = IF row.state = "ISSUED" THEN "SUCCEEDED" ELSE @] IN
  /\ In(h, "preconditions")
  /\ IF Ready({"CONTROLLED", "ISSUED"}, sagas[k].version)
     THEN sagas' = [sagas EXCEPT ![k].steps = steps] /\ Continue(h, k, steps)
     ELSE Leave(h) /\ UNCHANGED sagas
  /\ UNCHANGED <<world, issues, subs, incidents, served>>

(* The issuer's approval and commitIssuer.                                 *)
issuerApproval(h) ==
  LET k == Key(h)
      SetStep(status) == sagas' = [sagas EXCEPT ![k].steps["ISSUER_APPROVAL"] = status] IN
  /\ In(h, "issuer")
  /\ \/ SetStep("SUCCEEDED") /\ Continue(h, k, sagas'[k].steps)
     \/ SetStep("WAITING") /\ Mark(h, "WAITING_EXTERNAL")
     \/ SetStep("FAILED") /\ Mark(h, "FAILED")
  /\ UNCHANGED <<world, issues, subs, incidents, served>>

(* A transaction that was committed before is answered with, any other     *)
(* status means that the action is submitted, again.                       *)
prepareChain(h) ==
  LET k == Key(h)  a == handlers[h].action IN
  /\ In(h, "prepare")
  /\ subs' = [subs EXCEPT ![k][a] = IF @ = "NONE" THEN "PENDING" ELSE @]
  /\ Step(h, IF subs[k][a] \in {"SUBMITTED", "RECONCILED"} THEN "commit" ELSE "submit")
  /\ UNCHANGED <<world, issues, sagas, incidents, served>>

(* What issue, fund and redeem of the contracts ask and do.                *)
Accepts(a) ==
  CASE a = "ISSUE" -> onchain.state = "Controlled"
    [] a = "FUND"  -> onchain.state = "Issued" /\ onchain.jclaim
    [] OTHER -> onchain.jclaim

Executed(a, k) ==
  [onchain EXCEPT !.by[a] = k, !.jclaim = a # "COMPENSATE",
     !.state = CASE a = "ISSUE" -> "Issued" [] a = "FUND" -> "Funded" [] OTHER -> @]

(* submitAction.  A refusal is final.  An answer that is lost, or that     *)
(* never says SUCCESS, is retryable or final by the words of its message,  *)
(* whether the transaction was executed or not.                            *)
submitAction(h) ==
  LET a == handlers[h].action IN
  /\ In(h, "submit")
  /\ \/ Accepts(a) /\ onchain' = Executed(a, Key(h)) /\ Step(h, "commit") /\ UNCHANGED incidents
     \/ ~ Accepts(a) /\ Catch(h, FALSE) /\ UNCHANGED <<onchain, incidents>>
     \/ /\ \E retryable \in BOOLEAN : Catch(h, retryable)
        /\ onchain' \in {onchain} \cup {Executed(a, Key(h)) : x \in {y \in {1} : Accepts(a)}}
        /\ Incident
  /\ UNCHANGED <<row, evidence, indexed, issues, sagas, subs, served>>

(* commitChain sets the submission and the step back to what they are      *)
(* before the reconciliation, whatever they were.                          *)
commitChain(h) ==
  LET k == Key(h)  a == handlers[h].action IN
  /\ In(h, "commit")
  /\ \/ /\ subs' = [subs EXCEPT ![k][a] = "SUBMITTED"]
        /\ sagas' = [sagas EXCEPT ![k].steps[a] = "WAITING"]
        /\ Mark(h, "WAITING_EXTERNAL") /\ UNCHANGED incidents
     \/ Catch(h, FALSE) /\ Incident /\ UNCHANGED <<subs, sagas>>
  /\ UNCHANGED <<world, issues, served>>

(* markStatus looks neither at the status nor at the claim's state.        *)
markStatus(h) ==
  LET status == handlers[h].mark IN
  /\ In(h, "mark")
  /\ \/ /\ sagas' = [sagas EXCEPT ![Key(h)].status = status]
        /\ IF status \in {"PAUSED", "COMPENSATION_REQUIRED"} /\ row.state # "PAUSED"
           THEN MoveRow("PAUSED") ELSE UNCHANGED row
        /\ Leave(h) /\ UNCHANGED incidents
     \/ /\ Incident /\ UNCHANGED <<sagas, row>>
        /\ IF status = "WAITING_EXTERNAL" THEN Catch(h, FALSE) ELSE Leave(h)
  /\ UNCHANGED <<evidence, onchain, indexed, issues, subs, served>>

(* The anchor's payout and commitAnchor.                                   *)
anchorPayout(h) ==
  LET k == Key(h) IN
  /\ In(h, "anchor")
  /\ \/ /\ sagas' = [sagas EXCEPT ![k].steps["ANCHOR_PAYOUT"] = "SUCCEEDED"]
        /\ Continue(h, k, sagas'[k].steps) /\ UNCHANGED incidents
     \/ Mark(h, "PAUSED") /\ Incident /\ UNCHANGED sagas
  /\ UNCHANGED <<world, issues, subs, served>>

finish(h) ==
  /\ In(h, "finish") /\ Leave(h)
  /\ sagas' = [sagas EXCEPT ![Key(h)] = [@ EXCEPT !.status = "COMPLETED", !.answered = TRUE]]
  /\ UNCHANGED <<world, issues, subs, incidents, served>>

(* resumeAfterChainReconciliation: the worker has seen a transaction of    *)
(* the claim reconciled, and begins with an operation.                     *)
resume(h, k, a) ==
  /\ In(h, "idle") /\ a \in indexed
  /\ sagas[k].status # "NONE" /\ ~ sagas[k].answered
  /\ handlers' = [handlers EXCEPT ![h] = [@ EXCEPT !.pc = "reconcile", !.key = k, !.action = a]]
  /\ UNCHANGED <<world, issues, sagas, subs, incidents, served>>

\* slip: any submission of the action will do, executed or not
ItsSubmission_any(k, a) == subs[k][a] # "NONE"

(* The transaction is one this operation submitted, whose submission still *)
(* waits.                                                                  *)
ItsSubmission(k, a) == subs[k][a] = "SUBMITTED" /\ onchain.by[a] = k

(* recordChainReconciliation, with either outcome; a match is followed by  *)
(* execute once more, for all but a compensation.                          *)
recordChainReconciliation(h) ==
  LET k == Key(h)  a == handlers[h].action
      steps == [sagas[k].steps EXCEPT ![a] = "SUCCEEDED"] IN
  /\ In(h, "reconcile")
  /\ \/ ~ ItsSubmission(k, a) /\ Leave(h) /\ UNCHANGED <<row, sagas, incidents>>
     \/ /\ ItsSubmission(k, a) /\ Incident /\ Leave(h) /\ UNCHANGED row
        /\ sagas' = [sagas EXCEPT ![k] = [@ EXCEPT !.steps[a] = "FAILED", !.status = "FAILED"]]
     \/ /\ ItsSubmission(k, a) /\ a # "COMPENSATE" /\ Step(h, "begin") /\ UNCHANGED <<row, incidents>>
        /\ sagas' = [sagas EXCEPT ![k].steps = steps]
     \/ /\ ItsSubmission(k, a) /\ a = "COMPENSATE" /\ Leave(h) /\ UNCHANGED incidents
        /\ sagas' = [sagas EXCEPT ![k] = [@ EXCEPT !.steps = steps, !.status = "COMPENSATED", !.answered = TRUE]]
        /\ IF row.state # "CONTROLLED" THEN MoveRow("CONTROLLED") ELSE UNCHANGED row
  /\ UNCHANGED <<evidence, onchain, indexed, issues, subs, served>>

(* begin: an operation that was answered meanwhile is only replayed.       *)
begin(h) ==
  LET saga == sagas[Key(h)] IN
  /\ In(h, "begin")
  /\ IF saga.answered THEN Leave(h) ELSE Continue(h, Key(h), saga.steps)
  /\ UNCHANGED <<world, issues, sagas, subs, incidents, served>>

(* The compensation service; its chain steps are the saga's.               *)
compensate(h, k) ==
  /\ Serve(h) /\ sagas[k].status = "COMPENSATION_REQUIRED" /\ ~ sagas[k].answered
  /\ handlers' = [handlers EXCEPT ![h] = [@ EXCEPT !.pc = "prepare", !.key = k, !.action = "COMPENSATE"]]
  /\ UNCHANGED <<world, issues, sagas, subs, incidents>>

-----------------------------------------------------------------------------
(* The chain indexer, and the end of a handler.                            *)

indexAction(a) ==
  /\ onchain.by[a] # "none" /\ a \notin indexed
  /\ indexed' = indexed \cup {a}
  /\ UNCHANGED <<row, evidence, onchain, issues, sagas, subs, handlers, incidents, served>>

(* reconcile.  An issuance is always found wanting: the principal it       *)
(* expects approved is compared with a field its event does not have.  So  *)
(* is a compensation: redeem leaves the claim in its state.                *)
EventMatches(a) == a = "FUND" /\ onchain.state = "Funded"

(* The event is there, or the submission is old enough to be missing it.   *)
Judged(a) ==
  \/ a \in indexed /\ UNCHANGED incidents
  \/ a \notin indexed /\ Incident

(* recordFinding.                                                          *)
PauseRow == IF row.state # "PAUSED" THEN MoveRow("PAUSED") ELSE UNCHANGED row

judgeIssue(k) ==
  /\ issues[k].submission = "SUBMITTED" /\ Judged("ISSUE")
  /\ issues' = [issues EXCEPT ![k].submission = "MISMATCH"]
  /\ PauseRow
  /\ UNCHANGED <<evidence, onchain, indexed, sagas, subs, handlers, served>>

(* markReconciled ends the funding operation itself: its step has          *)
(* succeeded, later calls are answered from the record.  The claim moves   *)
(* to the expected state from any other.                                   *)
Completed(saga) ==
  [saga EXCEPT !.steps["FUND"] = "SUCCEEDED", !.status = "COMPLETED", !.answered = TRUE]

judgeSaga(k, a) ==
  /\ subs[k][a] = "SUBMITTED" /\ Judged(a)
  /\ IF a \in indexed /\ onchain.by[a] = k /\ EventMatches(a)
     THEN /\ subs' = [subs EXCEPT ![k][a] = "RECONCILED"]
          /\ sagas' = [sagas EXCEPT ![k] = Completed(@)]
          /\ IF row.state # "FUNDED" THEN MoveRow("FUNDED") ELSE UNCHANGED row
     ELSE /\ subs' = [subs EXCEPT ![k][a] = "MISMATCH"]
          /\ PauseRow /\ UNCHANGED sagas
  /\ UNCHANGED <<evidence, onchain, indexed, issues, handlers, served>>

crashHandler(h) ==
  /\ ~ In(h, "idle") /\ Aborts(h)
  /\ UNCHANGED <<world, issues, sagas, subs, served>>

-----------------------------------------------------------------------------

FundingInit ==
  /\ row = [state |-> "CONTROLLED", version |-> 1]
  /\ evidence = [latest |-> "VERIFIED", older |-> FALSE]
  /\ \E state \in {"absent", "Controlled"} :
       onchain = [state |-> state, jclaim |-> FALSE, by |-> [a \in Actions |-> "none"]]
  /\ indexed = {}
  /\ issues = [k \in IssueKeys |-> [status |-> "NONE", version |-> 0, submission |-> "NONE", answered |-> FALSE]]
  /\ sagas = [k \in FundKeys |-> [status |-> "NONE", version |-> 0, answered |-> FALSE,
                                  steps |-> [s \in FundSteps |-> "NONE"]]]
  /\ subs = [k \in FundKeys |-> [a \in Actions |-> "NONE"]]
  /\ handlers = [h \in Handlers |-> IdleHandler]
  /\ served = 0 /\ incidents = 0

ControlCommand == submitEvidence \/ pause \/ \E status \in {"VERIFIED", "REJECTED", "REVOKED"} : decide(status)

HandlerStep(h) ==
  \/ \E k \in IssueKeys : openIssue(h, k)
  \/ facts(h) \/ onchainState(h) \/ callLedger(h) \/ indexedIssue(h)
  \/ recordSubmission(h) \/ completeIssue(h)
  \/ \E k \in FundKeys : openFunding(h, k) \/ compensate(h, k) \/ \E a \in Actions : resume(h, k, a)
  \/ recordChainReconciliation(h) \/ begin(h)
  \/ ensurePreconditions(h) \/ issuerApproval(h) \/ prepareChain(h) \/ submitAction(h)
  \/ commitChain(h) \/ markStatus(h) \/ anchorPayout(h) \/ finish(h) \/ crashHandler(h)

IndexerStep ==
  \/ \E a \in Actions : indexAction(a)
  \/ \E k \in IssueKeys : judgeIssue(k)
  \/ \E k \in FundKeys, a \in Actions : judgeSaga(k, a)

FundingNext == ControlCommand \/ IndexerStep \/ \E h \in Handlers : HandlerStep(h)

FundingSpec == FundingInit /\ [][FundingNext]_fundingVars

-----------------------------------------------------------------------------

FundingTypeOK ==
  /\ row \in [state : {"ELIGIBLE", "CONTROLLED", "PAUSED", "SUSPENDED", "FUNDED"}, version : Nat]
  /\ evidence \in [latest : {"NONE", "PENDING", "VERIFIED", "REJECTED", "REVOKED"}, older : BOOLEAN]
  /\ onchain.by \in [Actions -> {"none"} \cup IssueKeys \cup FundKeys]
  /\ \A k \in FundKeys : sagas[k].steps \in [FundSteps -> {"NONE", "WAITING", "SUCCEEDED", "FAILED"}]
  /\ subs \in [FundKeys -> [Actions -> {"NONE", "PENDING", "SUBMITTED", "RECONCILED", "MISMATCH"}]]
  /\ incidents \in Nat

(* A saga's funding is said to have succeeded, and its seller is paid by   *)
(* the anchor, only when this saga's own transaction funded the claim:     *)
(* whatever else is submitted, resumed or completed by the indexer         *)
(* meanwhile, and however often, no second saga pays.                      *)
PayoutIsFunded ==
  \A k \in FundKeys :
    sagas[k].steps["FUND"] = "SUCCEEDED" \/ sagas[k].steps["ANCHOR_PAYOUT"] = "SUCCEEDED" => onchain.by["FUND"] = k

(* A POST /issue is answered with success only for a claim that is issued  *)
(* and whose submission waits for, or has, its verdict.                    *)
AnsweredIssueIsRecorded ==
  \A k \in IssueKeys : issues[k].answered =>
    onchain.by["ISSUE"] # "none" /\ issues[k].submission # "NONE"

(* An issuance that was executed as it was approved, and whose event is    *)
(* indexed, is not judged a mismatch.                                      *)
IssuedIsReconciled ==
  \A k \in IssueKeys : "ISSUE" \in indexed => issues[k].submission # "MISMATCH"
=============================================================================
