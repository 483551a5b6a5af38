----------------------------- MODULE PartnerCalls -----------------------------
(***************************************************************************)
(* A call to a partner under one idempotency key: the anchor's payout, the *)
(* issuer's approval or the verification of control evidence.  The three   *)
(* orchestrators are one state machine over two journals; the partner is a *)
(* deterministic sandbox that lives in the process and forgets with it.    *)
(* Several requests may carry the key at the same time.                    *)
(*                                                                         *)
(* A receipt is told apart by the life of the sandbox that issued it (its  *)
(* hash covers the time of the decision) and by its status.  Another       *)
(* request under the key is a conflict that changes nothing, and left out. *)
(***************************************************************************)
EXTENDS Integers

CONSTANTS
  Callers,          \* requests that may be under way at the same time
  PartnerAttempts,  \* largest maxAttempts of a request
  MaxRestarts,      \* bound: restarts of the process
  MaxDbErrors       \* bound: transactions of the journal that fail

ASSUME PartnerAssumption ==
  PartnerAttempts \in 1..5 /\ MaxRestarts \in Nat /\ MaxDbErrors \in Nat

VARIABLES
  partner,      \* which partner, and the scenario its sandbox plays
  sandbox,      \* life of the sandbox, attempts and decision for the key
  keyRecord,    \* idempotency_records row: absent, open, or its response
  partnerOp,    \* operations row of the key: status
  committed,    \* anchor_payout_receipts row, or step PARTNER_RECEIPT
  attached,     \* the step FINALIZE_EVIDENCE: the status it attached
  evidenceRow,  \* control_evidence row: status
  controlClaim, \* claims row: state
  callers,      \* where each request is
  dbErrors      \* failed transactions so far

partnerVars == <<partner, sandbox, keyRecord, partnerOp, committed, attached,
                 evidenceRow, controlClaim, callers, dbErrors>>

NoReceipt == [life |-> 0, status |-> "none"]
IdleCaller == [pc |-> "idle", left |-> 0, receipt |-> NoReceipt, retry |-> FALSE]

CallAt(c, pc) == callers[c].pc = pc
CallGoto(c, pc) == callers' = [callers EXCEPT ![c].pc = pc]
CallEnds(c) == callers' = [callers EXCEPT ![c] = IdleCaller]
CallFails(c, retry) == callers' = [callers EXCEPT ![c] = [@ EXCEPT !.pc = "failed", !.retry = retry]]
DbFails == dbErrors < MaxDbErrors /\ dbErrors' = dbErrors + 1

-----------------------------------------------------------------------------
(* The sandboxes.                                                          *)

AnchorScenarios == {"PAID", "REFUSE", "TIMEOUT_ONCE", "MISMATCH", "LOST_ONCE"}
IssuerScenarios == {"APPROVED", "REVISED", "INVALID_REVISED", "PENDING", "ACTION_REQUIRED", "REJECTED",
                    "TIMEOUT", "TIMEOUT_ONCE", "MISMATCH", "LOST_ONCE"}
ControlScenarios == {"VERIFIED", "REJECTED", "PENDING", "EXPIRED",
                     "TIMEOUT", "TIMEOUT_ONCE", "MISMATCH", "LOST_ONCE"}

Scenarios == [ANCHOR |-> AnchorScenarios, ISSUER |-> IssuerScenarios, CONTROL |-> ControlScenarios]

Success == [ANCHOR |-> "PAID", ISSUER |-> "APPROVED", CONTROL |-> "VERIFIED"]

statusForScenario(p) ==
  IF p.scenario \in {"TIMEOUT_ONCE", "LOST_ONCE"} THEN Success[p.kind] ELSE p.scenario

(* What a sandbox decides: a revision replaces envelope and sequence of    *)
(* the transaction and, when INVALID_REVISED, its amount as well.          *)
Decided == [life |-> sandbox.life, status |-> statusForScenario(partner)]

(* What validateAnchorReceipt, validateIssuerReceipt and                   *)
(* validateControlReceipt let pass of what answers the request; a revision *)
(* of the amount is refused (validateRevisedIssuerTransaction).            *)
AnchorAnswers == {"PAID"}
IssuerAnswers == {"APPROVED", "REVISED", "PENDING", "ACTION_REQUIRED", "REJECTED"}
ControlAnswers == {"VERIFIED", "REJECTED", "PENDING", "EXPIRED"}

ValidReceipt(r) ==
  \/ partner.kind = "ANCHOR" /\ r.status \in AnchorAnswers
  \/ partner.kind = "ISSUER" /\ r.status \in IssuerAnswers
  \/ partner.kind = "CONTROL" /\ r.status \in ControlAnswers

Forgotten(life) == [life |-> life, attempts |-> 0, receipt |-> NoReceipt]

(* requestPayout, requestApproval and verifyControl.                       *)
requestDecision(c) ==
  LET s == partner.scenario  first == sandbox.attempts = 0 IN
  /\ CallAt(c, "request")
  /\ IF sandbox.receipt # NoReceipt
       THEN /\ IF ValidReceipt(sandbox.receipt)
               THEN callers' = [callers EXCEPT ![c] = [@ EXCEPT !.pc = "record", !.receipt = sandbox.receipt]]
               ELSE CallFails(c, FALSE)
            /\ UNCHANGED sandbox
     ELSE IF s \in {"REFUSE", "TIMEOUT"} \/ (s = "TIMEOUT_ONCE" /\ first)
       THEN /\ sandbox' = [sandbox EXCEPT !.attempts = 1]
            /\ CallFails(c, s # "REFUSE")
     ELSE /\ sandbox' = [sandbox EXCEPT !.attempts = 1, !.receipt = Decided]
          /\ IF s = "LOST_ONCE" /\ first THEN CallFails(c, TRUE)
             ELSE IF ValidReceipt(Decided)
             THEN callers' = [callers EXCEPT ![c] = [@ EXCEPT !.pc = "record", !.receipt = Decided]]
             ELSE CallFails(c, FALSE)
  /\ UNCHANGED <<partner, keyRecord, partnerOp, committed, attached, evidenceRow, controlClaim, dbErrors>>

-----------------------------------------------------------------------------
(* The journals.                                                           *)

Failure == [life |-> 0, status |-> "failure"]

\* slip: a key without a response is refused, as the mutation unit does
begin_refusing(c) ==
  /\ CallAt(c, "idle") /\ keyRecord.status = "absent"
  /\ keyRecord' = NoReceipt /\ partnerOp' = "PENDING" /\ CallGoto(c, "request")
  /\ UNCHANGED <<partner, sandbox, committed, attached, evidenceRow, controlClaim, dbErrors>>

(* begin: a new key, the key again without a response (RESUME) or with a   *)
(* receipt (REPLAY); a terminal failure is answered and nothing is done.   *)
begin(c) ==
  /\ CallAt(c, "idle") /\ keyRecord # Failure
  /\ IF keyRecord.status = "absent" THEN keyRecord' = NoReceipt /\ partnerOp' = "PENDING"
     ELSE UNCHANGED <<keyRecord, partnerOp>>
  /\ \E n \in 1..PartnerAttempts : callers' = [callers EXCEPT ![c] = [@ EXCEPT
       !.left = n - 1, !.receipt = keyRecord',
       !.pc = IF keyRecord' = NoReceipt THEN "request" ELSE "answered"]]
  /\ UNCHANGED <<partner, sandbox, committed, attached, evidenceRow, controlClaim, dbErrors>>

(* recordAttempt of a success.  Its failure is taken for the transport's.  *)
recordSuccess(c) ==
  /\ CallAt(c, "record")
  /\ \/ CallGoto(c, "commit") /\ UNCHANGED dbErrors
     \/ CallFails(c, TRUE) /\ DbFails
  /\ UNCHANGED <<partner, sandbox, keyRecord, partnerOp, committed, attached, evidenceRow, controlClaim>>

(* A retryable error is tried again, and when the attempts are used up the *)
(* partner is asked what it did.                                           *)
TriedAgain(call) ==
  [call EXCEPT !.left = IF @ > 0 THEN @ - 1 ELSE @,
               !.pc = IF ~ call.retry THEN "recordFailure"
                      ELSE IF call.left > 0 THEN "request" ELSE "find"]

(* The catch: recordAttempt again, which may fail itself.                  *)
recordFailedAttempt(c) ==
  /\ CallAt(c, "failed")
  /\ \/ callers' = [callers EXCEPT ![c] = TriedAgain(@)] /\ UNCHANGED dbErrors
     \/ CallEnds(c) /\ DbFails
  /\ UNCHANGED <<partner, sandbox, keyRecord, partnerOp, committed, attached, evidenceRow, controlClaim>>

(* findPayout, findApproval and findDecision; what they find is validated, *)
(* and an error of that leaves execute.                                    *)
findDecision(c) ==
  /\ CallAt(c, "find")
  /\ IF sandbox.receipt = NoReceipt THEN CallGoto(c, "recordFailure")
     ELSE IF ValidReceipt(sandbox.receipt)
     THEN callers' = [callers EXCEPT ![c] = [@ EXCEPT !.pc = "commit", !.receipt = sandbox.receipt]]
     ELSE CallEnds(c)
  /\ UNCHANGED <<partner, sandbox, keyRecord, partnerOp, committed, attached, evidenceRow, controlClaim, dbErrors>>

\* slip: a failure that may be retried is remembered as well
recordFailure_always(c) ==
  /\ CallAt(c, "recordFailure") /\ CallEnds(c)
  /\ partnerOp' = "FAILED"
  /\ keyRecord' = Failure
  /\ UNCHANGED <<partner, sandbox, committed, attached, evidenceRow, controlClaim, dbErrors>>

(* recordFailure looks neither at the status nor at the response that are  *)
(* there.                                                                  *)
recordFailure(c) ==
  /\ CallAt(c, "recordFailure")
  /\ \/ /\ CallEnds(c)
        /\ partnerOp' = IF callers[c].retry THEN "RETRYABLE_FAILURE" ELSE "FAILED"
        /\ keyRecord' = IF callers[c].retry THEN keyRecord ELSE Failure
        /\ UNCHANGED dbErrors
     \/ CallEnds(c) /\ DbFails /\ UNCHANGED <<partnerOp, keyRecord>>
  /\ UNCHANGED <<partner, sandbox, committed, attached, evidenceRow, controlClaim>>

(* commitReceipt of either journal: the first receipt stays, and an equal  *)
(* one is answered with it.  The promise is returned and not awaited, so   *)
(* an error of it is not caught by execute.                                *)
commitReceipt(c) ==
  LET r == callers[c].receipt IN
  /\ CallAt(c, "commit")
  /\ \/ /\ committed = NoReceipt
        /\ committed' = r /\ partnerOp' = "SUCCEEDED" /\ CallGoto(c, "answered")
        /\ keyRecord' = r
        /\ UNCHANGED dbErrors
     \/ /\ committed # NoReceipt
        /\ IF committed = r THEN CallGoto(c, "answered") ELSE CallEnds(c)
        /\ UNCHANGED <<committed, partnerOp, keyRecord, dbErrors>>
     \/ CallEnds(c) /\ DbFails /\ UNCHANGED <<committed, partnerOp, keyRecord>>
  /\ UNCHANGED <<partner, sandbox, attached, evidenceRow, controlClaim>>

-----------------------------------------------------------------------------
(* After the answer: the evidence's lifecycle, for the control partner.    *)

ends(c) ==
  /\ CallAt(c, "answered") /\ partner.kind # "CONTROL" /\ CallEnds(c)
  /\ UNCHANGED <<partner, sandbox, keyRecord, partnerOp, committed, attached, evidenceRow, controlClaim, dbErrors>>

\* slip: the claim follows whatever the partner decided
attachFinalizedDecision_any(c) ==
  /\ CallAt(c, "answered") /\ partner.kind = "CONTROL" /\ CallEnds(c)
  /\ attached = "none" /\ attached' = callers[c].receipt.status /\ evidenceRow' = attached'
  /\ controlClaim' = IF controlClaim = "ELIGIBLE" THEN "CONTROLLED" ELSE controlClaim
  /\ UNCHANGED <<partner, sandbox, keyRecord, partnerOp, committed, dbErrors>>

(* attachFinalizedDecision, one transaction: a VERIFIED decision needs a   *)
(* claim that is ELIGIBLE or CONTROLLED already.                           *)
attachFinalizedDecision(c) ==
  LET status == callers[c].receipt.status IN
  /\ CallAt(c, "answered") /\ partner.kind = "CONTROL" /\ CallEnds(c)
  /\ \/ /\ attached = "none" /\ (status = "VERIFIED" => controlClaim \in {"ELIGIBLE", "CONTROLLED"})
        /\ attached' = status /\ evidenceRow' = status
        /\ controlClaim' = IF status = "VERIFIED" THEN "CONTROLLED" ELSE controlClaim
        /\ UNCHANGED dbErrors
     \/ /\ attached # "none" \/ (status = "VERIFIED" /\ controlClaim \notin {"ELIGIBLE", "CONTROLLED"})
        /\ UNCHANGED <<attached, evidenceRow, controlClaim, dbErrors>>
     \/ DbFails /\ UNCHANGED <<attached, evidenceRow, controlClaim>>
  /\ UNCHANGED <<partner, sandbox, keyRecord, partnerOp, committed>>

-----------------------------------------------------------------------------

(* The process restarts: its requests and the sandbox's memory are gone.   *)
restart ==
  /\ sandbox.life <= MaxRestarts
  /\ callers' = [c \in Callers |-> IdleCaller]
  /\ sandbox' = Forgotten(sandbox.life + 1)
  /\ \E s \in Scenarios[partner.kind] : partner' = [partner EXCEPT !.scenario = s]
  /\ UNCHANGED <<keyRecord, partnerOp, committed, attached, evidenceRow, controlClaim, dbErrors>>

(* Others move the claim on, or stop it, in the meantime.                  *)
moveClaim ==
  /\ partner.kind = "CONTROL"
  /\ controlClaim' \in {"ELIGIBLE", "PAUSED"} \ {controlClaim}
  /\ controlClaim \in {"ELIGIBLE", "PAUSED"}
  /\ UNCHANGED <<partner, sandbox, keyRecord, partnerOp, committed, attached, evidenceRow, callers, dbErrors>>

PartnerInit ==
  /\ \E kind \in {"ANCHOR", "ISSUER", "CONTROL"} :
       \E s \in Scenarios[kind] : partner = [kind |-> kind, scenario |-> s]
  /\ sandbox = Forgotten(1)
  /\ keyRecord = [life |-> 0, status |-> "absent"]
  /\ partnerOp = "NONE" /\ committed = NoReceipt /\ attached = "none"
  /\ evidenceRow = "PENDING" /\ controlClaim = "ELIGIBLE"
  /\ callers = [c \in Callers |-> IdleCaller]
  /\ dbErrors = 0

CallStep(c) ==
  \/ begin(c) \/ requestDecision(c) \/ recordSuccess(c) \/ recordFailedAttempt(c)
  \/ findDecision(c) \/ recordFailure(c) \/ commitReceipt(c)
  \/ ends(c) \/ attachFinalizedDecision(c)

PartnerNext == (\E c \in Callers : CallStep(c)) \/ restart \/ moveClaim

PartnerSpec == PartnerInit /\ [][PartnerNext]_partnerVars

(* A request goes on to its end, and the call is repeated.                 *)
PartnerFairness == \A c \in Callers : WF_partnerVars(CallStep(c))

FairPartnerSpec == PartnerSpec /\ PartnerFairness

-----------------------------------------------------------------------------

Statuses == AnchorScenarios \union IssuerScenarios \union ControlScenarios
              \union {"none", "absent", "failure"}

Receipts == [life : Nat, status : Statuses]

CallStates == [pc : {"idle", "request", "record", "commit", "failed", "find", "recordFailure", "answered"},
               left : Nat, receipt : Receipts, retry : BOOLEAN]

PartnerTypeOK ==
  /\ partner \in [kind : {"ANCHOR", "ISSUER", "CONTROL"}, scenario : Statuses]
  /\ partner.scenario \in Scenarios[partner.kind]
  /\ sandbox \in [life : Nat \ {0}, attempts : {0, 1}, receipt : Receipts]
  /\ keyRecord \in Receipts /\ committed \in Receipts
  /\ partnerOp \in {"NONE", "PENDING", "SUCCEEDED", "RETRYABLE_FAILURE", "FAILED"}
  /\ attached \in Statuses /\ evidenceRow \in Statuses
  /\ controlClaim \in {"ELIGIBLE", "PAUSED", "CONTROLLED"}
  /\ callers \in [Callers -> CallStates]
  /\ dbErrors \in Nat

(* What a key was answered, a receipt or a terminal failure, it is always  *)
(* answered: overlapping requests, lost responses, failed transactions and *)
(* restarts that make the partner forget do not turn one into the other.   *)
AnswerIsFinal ==
  [][keyRecord \notin {NoReceipt, [life |-> 0, status |-> "absent"]} => UNCHANGED keyRecord]_partnerVars

(* The claim is controlled on the partner's word alone: the receipt the    *)
(* journal committed says VERIFIED and the evidence carries it.            *)
ControlledIsVerified ==
  controlClaim = "CONTROLLED" =>
    committed.status = "VERIFIED" /\ keyRecord = committed /\ evidenceRow = "VERIFIED"

(* A call that is repeated is answered in the end, unless the partner      *)
(* never decides.                                                          *)
CallIsAnswered ==
  keyRecord = NoReceipt ~> keyRecord # NoReceipt \/ partner.scenario = "TIMEOUT"
=============================================================================
