-------------------------- MODULE Requests_proofs ---------------------------
(***************************************************************************)
(* What the requests to the API can be relied on for, however they         *)
(* overlap, fail and repeat: theorems about the calls to partners, the     *)
(* life of a credential, the commands on claims and offers, the intake of  *)
(* settlements, the invitations, the demo module, the ledger of a          *)
(* marketplace and the files of evidence, for any number of callers, keys, *)
(* restarts and failures.                                                  *)
(*                                                                         *)
(* The components share no row, so each part below is an argument of its   *)
(* own: an invariant that says what a request remembers of the rows it     *)
(* has read, one lemma that every step keeps it, and the theorems that     *)
(* follow from it.                                                         *)
(***************************************************************************)
EXTENDS PartnerCalls, JccLifecycle, ClaimCommands, SettlementDesk, Invitations,
        DemoSandbox, MarketplaceLedger, EvidenceVault, SumLemmas, SequenceTheorems

-----------------------------------------------------------------------------
(* The calls to a partner. Within one life of the sandbox a call can       *)
(* either be recorded or fail for good, never both: the second needs a     *)
(* partner that is doomed, which refuses or has decided what no caller     *)
(* accepts (Doomed). A restart ends every call, and a call that begins     *)
(* after the key is answered does not reach the partner.                   *)

Absent == [life |-> 0, status |-> "absent"]

(* A caller accepts what the sandbox has decided.                          *)
Acceptable == ValidReceipt(sandbox.receipt)

(* Nobody can be given a receipt in this life of the sandbox.              *)
Doomed ==
  \/ partner.scenario = "REFUSE"
  \/ sandbox.receipt # NoReceipt /\ ~ Acceptable

(* A call on its way, between its start and its answer.                    *)
UnderWay(c) == callers[c].pc \notin {"idle", "answered"}

(* The key's response is the receipt that was committed, or a failure.     *)
KeyMatches ==
  /\ committed # NoReceipt => keyRecord = committed
  /\ committed = NoReceipt => keyRecord \in {Absent, NoReceipt, Failure}
  /\ committed.status \notin {"absent", "failure"}

(* What a call knows of the partner and of the journal.                    *)
CallerKnows(c) ==
  LET call == callers[c] IN
  /\ call.pc # "idle" => keyRecord # Absent
  /\ call.pc \in {"record", "commit"} =>
       call.receipt = sandbox.receipt /\ sandbox.receipt # NoReceipt /\ Acceptable
  /\ call.pc = "answered" => call.receipt = committed /\ committed # NoReceipt
  /\ call.pc \in {"failed", "recordFailure"} /\ ~ call.retry => Doomed
  /\ call.pc = "find" => call.retry
  /\ UnderWay(c) /\ committed # NoReceipt =>
       sandbox.receipt = committed /\ Acceptable
  /\ UnderWay(c) /\ keyRecord = Failure => Doomed

(* The sandbox that refuses decides nothing, and its decisions are neither *)
(* of the two marks of the key.                                            *)
SandboxDecides ==
  sandbox.receipt # NoReceipt =>
    /\ partner.scenario # "REFUSE"
    /\ sandbox.receipt.status \notin {"absent", "failure"}

(* The claim follows the evidence, and the evidence what was attached.     *)
ClaimFollows ==
  /\ attached # "none" => committed # NoReceipt /\ evidenceRow = attached /\ attached = committed.status
  /\ controlClaim = "CONTROLLED" => attached = "VERIFIED"

PartnerInv ==
  /\ PartnerTypeOK /\ KeyMatches /\ SandboxDecides /\ ClaimFollows
  /\ \A c \in Callers : CallerKnows(c)

-----------------------------------------------------------------------------

LEMMA StatusesHold ==
  /\ \A kind \in {"ANCHOR", "ISSUER", "CONTROL"} : Scenarios[kind] \subseteq Statuses
  /\ {"none", "absent", "failure", "PENDING", "VERIFIED"} \subseteq Statuses
BY DEF Scenarios, AnchorScenarios, IssuerScenarios, ControlScenarios, Statuses

LEMMA DecidedType ==
  ASSUME PartnerTypeOK
  PROVE  Decided \in Receipts /\ Decided # NoReceipt /\ Decided.status \notin {"absent", "failure"}
<1>1. statusForScenario(partner) \in Statuses \ {"absent", "failure"}
  BY DEF PartnerTypeOK, statusForScenario, Success, Scenarios, AnchorScenarios, IssuerScenarios,
     ControlScenarios, Statuses
<1>2. QED
  BY <1>1 DEF PartnerTypeOK, Decided, Receipts, NoReceipt

LEMMA AcceptableStays ==
  ASSUME UNCHANGED partner, sandbox'.receipt = sandbox.receipt
  PROVE  Acceptable' = Acceptable
BY DEF Acceptable, ValidReceipt, AnchorAnswers, IssuerAnswers, ControlAnswers

(* What the helpers of the module do to the calls.                         *)
Only(c) ==
  /\ callers' \in [Callers -> CallStates]
  /\ \A d \in Callers : d # c => callers'[d] = callers[d]

LEMMA GotoMoves ==
  ASSUME PartnerTypeOK, NEW c \in Callers,
         NEW pc \in {"request", "record", "commit", "find", "recordFailure", "answered"}, CallGoto(c, pc)
  PROVE  /\ Only(c) /\ callers'[c].pc = pc
         /\ callers'[c].receipt = callers[c].receipt /\ callers'[c].retry = callers[c].retry
BY DEF PartnerTypeOK, CallStates, CallGoto, Only

LEMMA FailsMoves ==
  ASSUME PartnerTypeOK, NEW c \in Callers, NEW retry \in BOOLEAN, CallFails(c, retry)
  PROVE  Only(c) /\ callers'[c].pc = "failed" /\ callers'[c].retry = retry
<1>1. callers[c] \in CallStates
  BY DEF PartnerTypeOK
<1>2. [callers[c] EXCEPT !.pc = "failed", !.retry = retry] \in CallStates
  BY <1>1 DEF CallStates
<1>3. callers'[c] = [callers[c] EXCEPT !.pc = "failed", !.retry = retry]
  BY DEF CallFails, PartnerTypeOK
<1>4. QED
  BY <1>1, <1>2, <1>3 DEF CallFails, PartnerTypeOK, Only, CallStates

LEMMA EndsMoves ==
  ASSUME PartnerTypeOK, NEW c \in Callers, CallEnds(c)
  PROVE  Only(c) /\ callers'[c].pc = "idle"
BY StatusesHold DEF PartnerTypeOK, CallStates, Receipts, NoReceipt, IdleCaller, CallEnds, Only

LEMMA ReceiptMoves ==
  ASSUME PartnerTypeOK, NEW c \in Callers, NEW r \in Receipts, NEW pc \in {"record", "commit"},
         callers' = [callers EXCEPT ![c] = [@ EXCEPT !.pc = pc, !.receipt = r]]
  PROVE  Only(c) /\ callers'[c].pc = pc /\ callers'[c].receipt = r
<1>1. callers[c] \in CallStates
  BY DEF PartnerTypeOK
<1>2. [callers[c] EXCEPT !.pc = pc, !.receipt = r] \in CallStates
  BY <1>1 DEF CallStates
<1>3. callers'[c] = [callers[c] EXCEPT !.pc = pc, !.receipt = r]
  BY DEF PartnerTypeOK
<1>4. QED
  BY <1>1, <1>2, <1>3 DEF PartnerTypeOK, Only, CallStates

LEMMA PartnerInitially == PartnerInit => PartnerInv
<1> SUFFICES ASSUME PartnerInit PROVE PartnerInv
  OBVIOUS
<1>1. NoReceipt \in Receipts /\ Absent \in Receipts /\ IdleCaller \in CallStates
  BY StatusesHold DEF NoReceipt, Receipts, Absent, IdleCaller, CallStates
<1>2. PartnerTypeOK
  BY <1>1, StatusesHold DEF PartnerInit, PartnerTypeOK, Forgotten, Absent
<1>3. QED
  BY <1>2 DEF PartnerInit, PartnerInv, KeyMatches, SandboxDecides, ClaimFollows, CallerKnows,
     UnderWay, NoReceipt, IdleCaller, Forgotten, Absent

(* What AnswerIsFinal asks of a step.                                      *)
AnswerStep == keyRecord \notin {NoReceipt, Absent} => keyRecord' = keyRecord

LEMMA OthersKnow ==
  ASSUME PartnerInv, NEW c \in Callers, Only(c), UNCHANGED <<partner, keyRecord, committed>>,
         sandbox'.receipt = sandbox.receipt, NEW d \in Callers, d # c
  PROVE  CallerKnows(d)'
BY AcceptableStays DEF PartnerInv, Only, CallerKnows, UnderWay, Doomed

(* A step that only moves one call: it is enough to look at that call.     *)
LEMMA CallMoves ==
  ASSUME PartnerInv, NEW c \in Callers, Only(c), CallerKnows(c)', dbErrors' \in Nat,
         sandbox'.receipt = sandbox.receipt, sandbox' \in [life : Nat \ {0}, attempts : {0, 1}, receipt : Receipts],
         UNCHANGED <<partner, keyRecord, committed, attached, evidenceRow, controlClaim>>,
         partnerOp' \in {"NONE", "PENDING", "SUCCEEDED", "RETRYABLE_FAILURE", "FAILED"}
  PROVE  PartnerInv' /\ AnswerStep
<1>1. PartnerTypeOK'
  BY DEF PartnerInv, PartnerTypeOK, Only
<1>2. KeyMatches' /\ SandboxDecides' /\ ClaimFollows' /\ AnswerStep
  BY DEF PartnerInv, KeyMatches, SandboxDecides, ClaimFollows, AnswerStep
<1>3. \A d \in Callers : CallerKnows(d)'
  BY OthersKnow
<1>4. QED
  BY <1>1, <1>2, <1>3 DEF PartnerInv

LEMMA TypesHold ==
  ASSUME PartnerInv
  PROVE  /\ PartnerTypeOK /\ dbErrors \in Nat /\ dbErrors + 1 \in Nat
         /\ sandbox \in [life : Nat \ {0}, attempts : {0, 1}, receipt : Receipts]
         /\ partnerOp \in {"NONE", "PENDING", "SUCCEEDED", "RETRYABLE_FAILURE", "FAILED"}
         /\ \A c \in Callers : callers[c] \in CallStates /\ CallerKnows(c)
         /\ keyRecord \in Receipts /\ committed \in Receipts
BY DEF PartnerInv, PartnerTypeOK

LEMMA BeginStep ==
  ASSUME PartnerInv, NEW c \in Callers, begin(c)
  PROVE  PartnerInv' /\ AnswerStep
<1> USE DEF CallerKnows, UnderWay, Doomed, CallAt, NoReceipt, Failure, Absent
<1>1. /\ keyRecord # Failure /\ callers[c].pc = "idle"
      /\ UNCHANGED <<partner, sandbox, committed, attached, evidenceRow, controlClaim, dbErrors>>
      /\ \/ keyRecord = Absent /\ keyRecord' = NoReceipt /\ partnerOp' = "PENDING"
         \/ keyRecord # Absent /\ UNCHANGED <<keyRecord, partnerOp>>
  <2>1. keyRecord.status = "absent" => keyRecord = Absent
    BY TypesHold DEF PartnerInv, KeyMatches
  <2>2. QED
    BY <2>1 DEF begin
<1>2. keyRecord' \in Receipts /\ keyRecord' # Absent /\ (keyRecord' # NoReceipt => keyRecord' = committed)
  BY <1>1, TypesHold, StatusesHold DEF PartnerInv, KeyMatches, Receipts
<1>3. /\ Only(c) /\ callers'[c].receipt = keyRecord'
      /\ callers'[c].pc = IF keyRecord' = NoReceipt THEN "request" ELSE "answered"
  <2>1. PICK n \in 1..PartnerAttempts : callers' = [callers EXCEPT ![c] = [@ EXCEPT
           !.left = n - 1, !.receipt = keyRecord',
           !.pc = IF keyRecord' = NoReceipt THEN "request" ELSE "answered"]]
    BY DEF begin
  <2>2. n - 1 \in Nat
    BY PartnerAssumption
  <2>3. callers[c] \in CallStates
    BY TypesHold
  <2> DEFINE call == [callers[c] EXCEPT !.left = n - 1, !.receipt = keyRecord',
                                        !.pc = IF keyRecord' = NoReceipt THEN "request" ELSE "answered"]
  <2>4. call \in CallStates
    BY <1>2, <2>2, <2>3 DEF CallStates
  <2>5. /\ call.receipt = keyRecord'
        /\ call.pc = IF keyRecord' = NoReceipt THEN "request" ELSE "answered"
    BY <2>3 DEF CallStates
  <2>6. callers' = [callers EXCEPT ![c] = call]
    BY <2>1
  <2>7. QED
    BY <2>4, <2>5, <2>6, TypesHold DEF Only, PartnerTypeOK
<1>4. Acceptable' = Acceptable
  BY <1>1, AcceptableStays
<1>5. PartnerTypeOK'
  BY <1>1, <1>2, <1>3 DEF PartnerInv, PartnerTypeOK, Only
<1>6. KeyMatches' /\ SandboxDecides' /\ ClaimFollows' /\ AnswerStep
  BY <1>1, TypesHold DEF PartnerInv, KeyMatches, SandboxDecides, ClaimFollows, AnswerStep
<1>7. CallerKnows(c)'
  BY <1>1, <1>2, <1>3, <1>4 DEF PartnerInv, KeyMatches
<1>8. ASSUME NEW d \in Callers, d # c PROVE CallerKnows(d)'
  BY <1>1, <1>2, <1>3, <1>4, <1>8 DEF PartnerInv, Only
<1>9. QED
  BY <1>5, <1>6, <1>7, <1>8 DEF PartnerInv

LEMMA RequestStep ==
  ASSUME PartnerInv, NEW c \in Callers, requestDecision(c)
  PROVE  PartnerInv' /\ AnswerStep
<1> USE DEF CallerKnows, UnderWay, Doomed, CallAt, NoReceipt, Failure, Absent
<1>1. /\ callers[c].pc = "request" /\ callers[c] \in CallStates /\ CallerKnows(c)
      /\ UNCHANGED <<partner, keyRecord, partnerOp, committed, attached, evidenceRow, controlClaim, dbErrors>>
  BY TypesHold DEF requestDecision
<1>2. sandbox' \in [life : Nat \ {0}, attempts : {0, 1}, receipt : Receipts]
  BY DecidedType, TypesHold DEF requestDecision
<1>3. ASSUME sandbox'.receipt = sandbox.receipt,
             CallFails(c, TRUE) \/ (CallFails(c, FALSE) /\ Doomed')
      PROVE  PartnerInv' /\ AnswerStep
  <2>1. Acceptable' = Acceptable
    BY <1>1, <1>3, AcceptableStays
  <2>2. Only(c) /\ callers'[c].pc = "failed" /\ (~ callers'[c].retry => Doomed')
    BY <1>3, FailsMoves, TypesHold
  <2>3. CallerKnows(c)'
    BY <1>1, <1>3, <2>1, <2>2
  <2>4. QED
    BY <1>1, <1>2, <1>3, <2>2, <2>3, CallMoves, TypesHold
<1>4. ASSUME sandbox.receipt # NoReceipt, UNCHANGED sandbox, Acceptable,
             callers' = [callers EXCEPT ![c] = [@ EXCEPT !.pc = "record", !.receipt = sandbox.receipt]]
      PROVE  PartnerInv' /\ AnswerStep
  <2>1. Acceptable'
    BY <1>1, <1>4, AcceptableStays
  <2>2. sandbox.receipt \in Receipts
    BY TypesHold
  <2>3. Only(c) /\ callers'[c].pc = "record" /\ callers'[c].receipt = sandbox.receipt
    BY <1>4, <2>2, ReceiptMoves, TypesHold
  <2>4. CallerKnows(c)'
    BY <1>1, <1>4, <2>1, <2>3
  <2>5. QED
    BY <1>1, <1>2, <1>4, <2>3, <2>4, CallMoves, TypesHold
<1>5. ASSUME sandbox.receipt = NoReceipt, sandbox'.receipt = Decided, partner.scenario # "REFUSE",
             \/ CallFails(c, TRUE)
             \/ CallFails(c, FALSE) /\ ~ Acceptable'
             \/ Acceptable' /\ callers' = [callers EXCEPT ![c] = [@ EXCEPT !.pc = "record", !.receipt = Decided]]
      PROVE  PartnerInv' /\ AnswerStep
  <2>1. Decided \in Receipts /\ Decided # NoReceipt /\ Decided.status \notin {"absent", "failure"}
    BY DecidedType, TypesHold
  <2>2. /\ Only(c) /\ callers'[c].pc \in {"failed", "record"}
        /\ callers'[c].pc = "failed" => (callers'[c].retry \/ ~ Acceptable')
        /\ callers'[c].pc = "record" => Acceptable' /\ callers'[c].receipt = Decided
    <3>1. CASE CallFails(c, TRUE)
      BY <3>1, FailsMoves, TypesHold
    <3>2. CASE CallFails(c, FALSE) /\ ~ Acceptable'
      BY <3>2, FailsMoves, TypesHold
    <3>3. CASE Acceptable' /\ callers' = [callers EXCEPT ![c] = [@ EXCEPT !.pc = "record", !.receipt = Decided]]
      BY <2>1, <3>3, ReceiptMoves, TypesHold
    <3>. QED
      BY <1>5, <3>1, <3>2, <3>3
  <2>3. \A d \in Callers : UnderWay(d) => committed = NoReceipt
    <3>1. ASSUME NEW d \in Callers, UnderWay(d), committed # NoReceipt PROVE FALSE
      <4>1. CallerKnows(d)
        BY TypesHold
      <4>2. sandbox.receipt = committed
        BY <3>1, <4>1
      <4>. QED
        BY <1>5, <3>1, <4>2
    <3>. QED
      BY <3>1
  <2>4. \A d \in Callers : callers[d].pc \notin {"record", "commit"}
    BY <1>5, TypesHold
  <2>5. ~ Doomed
    BY <1>5
  <2>6. PartnerTypeOK'
    BY <1>1, <1>2, <2>2 DEF PartnerInv, PartnerTypeOK, Only
  <2>7. KeyMatches' /\ SandboxDecides' /\ ClaimFollows' /\ AnswerStep
    BY <1>1, <1>5, <2>1 DEF PartnerInv, KeyMatches, SandboxDecides, ClaimFollows, AnswerStep
  <2>8. CallerKnows(c)'
    BY <1>1, <1>5, <2>1, <2>2, <2>3, <2>5
  <2>9. ASSUME NEW d \in Callers, d # c PROVE CallerKnows(d)'
    <3>1. callers'[d] = callers[d] /\ CallerKnows(d)
      BY <2>2, <2>9, TypesHold DEF Only
    <3>2. QED
      BY <1>1, <1>5, <2>3, <2>4, <2>5, <3>1
  <2>10. QED
    BY <2>6, <2>7, <2>8, <2>9 DEF PartnerInv
<1>6. CASE sandbox.receipt # NoReceipt
  <2>1. UNCHANGED sandbox /\ Acceptable' = Acceptable
    BY <1>1, <1>6, AcceptableStays DEF requestDecision
  <2>2. CASE Acceptable
    BY <1>4, <1>6, <2>1, <2>2 DEF requestDecision, Acceptable
  <2>3. CASE ~ Acceptable
    <3>1. CallFails(c, FALSE)
      BY <1>6, <2>3 DEF requestDecision, Acceptable
    <3>2. Doomed'
      BY <1>6, <2>1, <2>3
    <3>3. QED
      BY <1>3, <2>1, <3>1, <3>2
  <2>4. QED
    BY <2>2, <2>3
<1>7. CASE sandbox.receipt = NoReceipt
  BY <1>1, <1>3, <1>5, <1>7, TypesHold DEF requestDecision, Acceptable, ValidReceipt
<1>8. QED
  BY <1>6, <1>7

LEMMA RecordSuccessStep ==
  ASSUME PartnerInv, NEW c \in Callers, recordSuccess(c)
  PROVE  PartnerInv' /\ AnswerStep
<1> USE DEF CallerKnows, UnderWay, Doomed, CallAt, NoReceipt, Failure, Absent
<1>1. callers[c].pc = "record" /\ CallerKnows(c) /\ Acceptable' = Acceptable
  BY TypesHold, AcceptableStays DEF recordSuccess
<1>2. /\ Only(c)
      /\ \/ callers'[c].pc = "commit" /\ callers'[c].receipt = callers[c].receipt
         \/ callers'[c].pc = "failed" /\ callers'[c].retry
  <2>1. PartnerTypeOK
    BY TypesHold
  <2>2. CASE CallGoto(c, "commit")
    BY <2>1, <2>2, GotoMoves
  <2>3. CASE CallFails(c, TRUE)
    BY <2>1, <2>3, FailsMoves
  <2>4. QED
    BY <2>2, <2>3 DEF recordSuccess
<1>3. CallerKnows(c)'
  BY <1>1, <1>2 DEF recordSuccess
<1>4. QED
  BY <1>2, <1>3, CallMoves, TypesHold DEF recordSuccess, DbFails

LEMMA TryingAgain ==
  ASSUME NEW call \in CallStates
  PROVE  /\ TriedAgain(call) \in CallStates
         /\ TriedAgain(call).retry = call.retry
         /\ TriedAgain(call).pc \in {"recordFailure", "request", "find"}
         /\ TriedAgain(call).pc = "find" => call.retry
<1> DEFINE left == IF call.left > 0 THEN call.left - 1 ELSE call.left
           pc == IF ~ call.retry THEN "recordFailure" ELSE IF call.left > 0 THEN "request" ELSE "find"
<1>1. left \in Nat /\ pc \in {"recordFailure", "request", "find"} /\ (pc = "find" => call.retry)
  BY DEF CallStates
<1>2. TriedAgain(call) = [call EXCEPT !.left = left, !.pc = pc]
  BY DEF TriedAgain
<1> HIDE DEF left, pc
<1>3. QED
  BY <1>1, <1>2 DEF CallStates

LEMMA FailedAttemptStep ==
  ASSUME PartnerInv, NEW c \in Callers, recordFailedAttempt(c)
  PROVE  PartnerInv' /\ AnswerStep
<1> USE DEF CallerKnows, UnderWay, Doomed, CallAt, NoReceipt, Failure, Absent
<1>1. callers[c].pc = "failed" /\ callers[c] \in CallStates /\ CallerKnows(c) /\ Acceptable' = Acceptable
  BY TypesHold, AcceptableStays DEF recordFailedAttempt
<1>2. \/ CallEnds(c)
      \/ /\ Only(c) /\ callers'[c].retry = callers[c].retry
         /\ callers'[c].pc \in {"recordFailure", "request", "find"}
         /\ callers'[c].pc = "find" => callers[c].retry
  <2>1. SUFFICES ASSUME ~ CallEnds(c)
                 PROVE  /\ Only(c) /\ callers'[c].retry = callers[c].retry
                        /\ callers'[c].pc \in {"recordFailure", "request", "find"}
                        /\ callers'[c].pc = "find" => callers[c].retry
    OBVIOUS
  <2>2. callers' = [callers EXCEPT ![c] = TriedAgain(callers[c])]
    BY <2>1 DEF recordFailedAttempt
  <2>3. /\ TriedAgain(callers[c]) \in CallStates
        /\ TriedAgain(callers[c]).retry = callers[c].retry
        /\ TriedAgain(callers[c]).pc \in {"recordFailure", "request", "find"}
        /\ TriedAgain(callers[c]).pc = "find" => callers[c].retry
    BY <1>1, TryingAgain
  <2>4. QED
    BY <2>2, <2>3, TypesHold DEF Only, PartnerTypeOK
<1>3. Only(c) /\ (callers'[c].pc = "idle" \/
                 (/\ callers'[c].retry = callers[c].retry
                  /\ callers'[c].pc \in {"recordFailure", "request", "find"}
                  /\ callers'[c].pc = "find" => callers[c].retry))
  BY <1>2, EndsMoves, TypesHold
<1>4. CallerKnows(c)'
  BY <1>1, <1>3 DEF recordFailedAttempt
<1>5. QED
  BY <1>3, <1>4, CallMoves, TypesHold DEF recordFailedAttempt, DbFails

LEMMA FindStep ==
  ASSUME PartnerInv, NEW c \in Callers, findDecision(c)
  PROVE  PartnerInv' /\ AnswerStep
<1> USE DEF CallerKnows, UnderWay, Doomed, CallAt, NoReceipt, Failure, Absent
<1>1. callers[c].pc = "find" /\ CallerKnows(c) /\ Acceptable' = Acceptable /\ sandbox.receipt \in Receipts
  BY TypesHold, AcceptableStays DEF findDecision
<1>2. /\ Only(c) /\ callers'[c].pc \in {"idle", "recordFailure", "commit"}
      /\ callers'[c].pc = "recordFailure" => callers'[c].retry = callers[c].retry
      /\ callers'[c].pc = "commit" =>
           callers'[c].receipt = sandbox.receipt /\ sandbox.receipt # NoReceipt /\ Acceptable
  <2>1. CASE sandbox.receipt = NoReceipt
    BY <2>1, GotoMoves, TypesHold DEF findDecision
  <2>2. CASE sandbox.receipt # NoReceipt /\ Acceptable
    BY <1>1, <2>2, ReceiptMoves, TypesHold DEF findDecision, Acceptable
  <2>3. CASE sandbox.receipt # NoReceipt /\ ~ Acceptable
    BY <2>3, EndsMoves, TypesHold DEF findDecision, Acceptable
  <2>4. QED
    BY <2>1, <2>2, <2>3
<1>3. CallerKnows(c)'
  BY <1>1, <1>2 DEF findDecision
<1>4. QED
  BY <1>2, <1>3, CallMoves, TypesHold DEF findDecision

(* A terminal failure is written only when the partner is doomed, so no    *)
(* receipt is there and no call is about to commit one.                    *)

LEMMA RecordFailureStep ==
  ASSUME PartnerInv, NEW c \in Callers, recordFailure(c)
  PROVE  PartnerInv' /\ AnswerStep
<1> USE DEF CallerKnows, UnderWay, Doomed, CallAt, NoReceipt, Failure, Absent
<1>1. /\ callers[c].pc = "recordFailure" /\ CallerKnows(c) /\ Acceptable' = Acceptable
      /\ CallEnds(c)
      /\ UNCHANGED <<partner, sandbox, committed, attached, evidenceRow, controlClaim>>
  BY TypesHold, AcceptableStays DEF recordFailure
<1>2. Only(c) /\ callers'[c].pc = "idle"
  BY <1>1, EndsMoves, TypesHold
<1>3. CASE UNCHANGED keyRecord
  <2>1. CallerKnows(c)'
    BY <1>2, <1>3
  <2>2. dbErrors' \in Nat /\ partnerOp' \in {"NONE", "PENDING", "SUCCEEDED", "RETRYABLE_FAILURE", "FAILED"}
    BY TypesHold DEF recordFailure, DbFails
  <2>3. QED
    BY <1>1, <1>2, <1>3, <2>1, <2>2, CallMoves, TypesHold
<1>4. CASE keyRecord' = Failure /\ ~ callers[c].retry /\ UNCHANGED dbErrors /\ partnerOp' = "FAILED"
  <2>1. Doomed /\ committed = NoReceipt /\ keyRecord \in {NoReceipt, Failure}
    BY <1>1, <1>4 DEF PartnerInv, KeyMatches, SandboxDecides
  <2>2. PartnerTypeOK'
    BY <1>1, <1>2, <1>4, StatusesHold DEF PartnerInv, PartnerTypeOK, Only, Receipts
  <2>3. KeyMatches' /\ SandboxDecides' /\ ClaimFollows'
    BY <1>1, <1>4, <2>1 DEF PartnerInv, KeyMatches, SandboxDecides, ClaimFollows
  <2>4. AnswerStep
    BY <1>4, <2>1 DEF AnswerStep
  <2>5. ASSUME NEW d \in Callers PROVE CallerKnows(d)'
    BY <1>1, <1>2, <1>4, <2>1, <2>5, TypesHold DEF Only
  <2>6. QED
    BY <2>2, <2>3, <2>4, <2>5 DEF PartnerInv
<1>5. QED
  BY <1>3, <1>4 DEF recordFailure

(* The first receipt is committed while the key has no response: a failure *)
(* would mean a doomed partner, and this call holds what it accepted.      *)

LEMMA CommitStep ==
  ASSUME PartnerInv, NEW c \in Callers, commitReceipt(c)
  PROVE  PartnerInv' /\ AnswerStep
<1> USE DEF CallerKnows, UnderWay, Doomed, CallAt, NoReceipt, Failure, Absent
<1>1. /\ callers[c].pc = "commit" /\ CallerKnows(c) /\ Acceptable' = Acceptable
      /\ callers[c].receipt \in Receipts
      /\ UNCHANGED <<partner, sandbox, attached, evidenceRow, controlClaim>>
  BY TypesHold, AcceptableStays DEF commitReceipt, CallStates
<1>2. ~ Doomed
  BY <1>1 DEF PartnerInv, SandboxDecides
<1>3. CASE /\ committed = NoReceipt /\ committed' = callers[c].receipt /\ keyRecord' = callers[c].receipt
           /\ partnerOp' = "SUCCEEDED" /\ CallGoto(c, "answered") /\ UNCHANGED dbErrors
  <2>1. Only(c) /\ callers'[c].pc = "answered" /\ callers'[c].receipt = callers[c].receipt
    BY <1>3, GotoMoves, TypesHold
  <2>2. keyRecord = NoReceipt
    BY <1>1, <1>2, <1>3 DEF PartnerInv, KeyMatches
  <2>3. committed' = sandbox.receipt /\ sandbox.receipt # NoReceipt
        /\ sandbox.receipt.status \notin {"absent", "failure"}
    BY <1>1, <1>3 DEF PartnerInv, SandboxDecides
  <2>4. PartnerTypeOK'
    BY <1>1, <1>3, <2>1 DEF PartnerInv, PartnerTypeOK, Only
  <2>5. KeyMatches' /\ SandboxDecides' /\ ClaimFollows' /\ AnswerStep
    BY <1>1, <1>3, <2>2, <2>3 DEF PartnerInv, KeyMatches, SandboxDecides, ClaimFollows, AnswerStep
  <2>6. ASSUME NEW d \in Callers PROVE CallerKnows(d)'
    <3>1. CASE d = c
      BY <1>1, <1>3, <2>1, <2>3, <3>1
    <3>2. CASE d # c
      <4>1. callers'[d] = callers[d] /\ CallerKnows(d)
        BY <2>1, <3>2, TypesHold DEF Only
      <4>2. keyRecord' # Failure /\ keyRecord' # Absent
        BY <1>3, <2>3
      <4>3. QED
        BY <1>1, <1>3, <2>2, <2>3, <4>1, <4>2
    <3>3. QED
      BY <3>1, <3>2
  <2>7. QED
    BY <2>4, <2>5, <2>6 DEF PartnerInv
<1>4. CASE UNCHANGED <<committed, partnerOp, keyRecord>> /\ dbErrors' \in Nat
  <2>1. /\ Only(c) /\ callers'[c].pc \in {"idle", "answered"}
        /\ callers'[c].pc = "answered" =>
             callers'[c].receipt = callers[c].receipt /\ committed = callers[c].receipt /\ committed # NoReceipt
    BY <1>3, <1>4, EndsMoves, GotoMoves, TypesHold DEF commitReceipt
  <2>2. CallerKnows(c)'
    BY <1>1, <1>4, <2>1
  <2>3. QED
    BY <1>1, <1>4, <2>1, <2>2, CallMoves, TypesHold
<1>5. QED
  BY <1>3, <1>4, TypesHold DEF commitReceipt, DbFails

LEMMA EndsStep ==
  ASSUME PartnerInv, NEW c \in Callers, ends(c)
  PROVE  PartnerInv' /\ AnswerStep
<1> USE DEF CallerKnows, UnderWay, Doomed, CallAt, NoReceipt, Failure, Absent
<1>1. Only(c) /\ callers'[c].pc = "idle"
  BY EndsMoves, TypesHold DEF ends
<1>2. CallerKnows(c)'
  BY <1>1
<1>3. QED
  BY <1>1, <1>2, CallMoves, TypesHold DEF ends

(* What is attached is the committed receipt.                              *)
LEMMA AttachStep ==
  ASSUME PartnerInv, NEW c \in Callers, attachFinalizedDecision(c)
  PROVE  PartnerInv' /\ AnswerStep
<1> USE DEF CallerKnows, UnderWay, Doomed, CallAt, NoReceipt, Failure, Absent
<1>1. /\ callers[c].receipt = committed /\ committed # NoReceipt
      /\ UNCHANGED <<partner, sandbox, keyRecord, partnerOp, committed>> /\ Acceptable' = Acceptable
  BY TypesHold, AcceptableStays DEF attachFinalizedDecision
<1>2. Only(c) /\ callers'[c].pc = "idle"
  BY EndsMoves, TypesHold DEF attachFinalizedDecision
<1>3. CallerKnows(c)'
  BY <1>2
<1>4. CASE /\ attached = "none" /\ attached' = committed.status /\ evidenceRow' = committed.status
           /\ controlClaim' = IF committed.status = "VERIFIED" THEN "CONTROLLED" ELSE controlClaim
           /\ UNCHANGED dbErrors
  <2>1. PartnerTypeOK'
    BY <1>1, <1>2, <1>4, TypesHold DEF PartnerInv, PartnerTypeOK, Only, Receipts
  <2>2. KeyMatches' /\ SandboxDecides' /\ ClaimFollows' /\ AnswerStep
    BY <1>1, <1>4 DEF PartnerInv, KeyMatches, SandboxDecides, ClaimFollows, AnswerStep
  <2>3. \A d \in Callers : CallerKnows(d)'
    BY <1>1, <1>2, <1>3, OthersKnow
  <2>4. QED
    BY <2>1, <2>2, <2>3 DEF PartnerInv
<1>5. CASE UNCHANGED <<attached, evidenceRow, controlClaim>> /\ dbErrors' \in Nat
  BY <1>1, <1>2, <1>3, <1>5, CallMoves, TypesHold
<1>6. QED
  BY <1>1, <1>4, <1>5, TypesHold DEF attachFinalizedDecision, DbFails

(* A restart forgets the sandbox and every call, and keeps the journals.   *)
LEMMA RestartStep ==
  ASSUME PartnerInv, restart
  PROVE  PartnerInv' /\ AnswerStep
<1>1. /\ UNCHANGED <<keyRecord, partnerOp, committed, attached, evidenceRow, controlClaim, dbErrors>>
      /\ callers' = [c \in Callers |-> IdleCaller] /\ sandbox' = Forgotten(sandbox.life + 1)
      /\ sandbox'.receipt = NoReceipt
  BY DEF restart, Forgotten
<1>2. PICK scenario \in Scenarios[partner.kind] : partner' = [partner EXCEPT !.scenario = scenario]
  BY DEF restart
<1>3. NoReceipt \in Receipts /\ IdleCaller \in CallStates
  BY StatusesHold DEF NoReceipt, Receipts, IdleCaller, CallStates
<1>4. PartnerTypeOK'
  <2>1. partner' \in [kind : {"ANCHOR", "ISSUER", "CONTROL"}, scenario : Statuses]
        /\ partner'.scenario \in Scenarios[partner'.kind]
    BY <1>2, StatusesHold, TypesHold DEF PartnerTypeOK
  <2>2. sandbox' \in [life : Nat \ {0}, attempts : {0, 1}, receipt : Receipts]
    BY <1>1, <1>3, TypesHold DEF Forgotten
  <2>3. callers' \in [Callers -> CallStates]
    BY <1>1, <1>3
  <2>4. QED
    BY <1>1, <2>1, <2>2, <2>3, TypesHold DEF PartnerTypeOK
<1>5. KeyMatches' /\ SandboxDecides' /\ ClaimFollows' /\ AnswerStep
  BY <1>1 DEF PartnerInv, KeyMatches, SandboxDecides, ClaimFollows, AnswerStep, NoReceipt
<1>6. \A c \in Callers : CallerKnows(c)'
  BY <1>1 DEF CallerKnows, UnderWay, IdleCaller
<1>7. QED
  BY <1>4, <1>5, <1>6 DEF PartnerInv

LEMMA OthersMoveClaim ==
  ASSUME PartnerInv, moveClaim
  PROVE  PartnerInv' /\ AnswerStep
<1>1. /\ UNCHANGED <<partner, sandbox, keyRecord, partnerOp, committed, attached, evidenceRow, callers, dbErrors>>
      /\ controlClaim' \in {"ELIGIBLE", "PAUSED"}
  BY DEF moveClaim
<1>2. Acceptable' = Acceptable
  BY <1>1, AcceptableStays
<1>3. QED
  BY <1>1, <1>2 DEF PartnerInv, PartnerTypeOK, KeyMatches, SandboxDecides, ClaimFollows,
     CallerKnows, UnderWay, Doomed, AnswerStep

LEMMA PartnerStep == PartnerInv /\ [PartnerNext]_partnerVars => PartnerInv' /\ AnswerStep
<1> SUFFICES ASSUME PartnerInv, [PartnerNext]_partnerVars PROVE PartnerInv' /\ AnswerStep
  OBVIOUS
<1>1. ASSUME NEW c \in Callers, CallStep(c) PROVE PartnerInv' /\ AnswerStep
  BY <1>1, BeginStep, RequestStep, RecordSuccessStep, FailedAttemptStep, FindStep,
     RecordFailureStep, CommitStep, EndsStep, AttachStep
  DEF CallStep
<1>2. CASE UNCHANGED partnerVars
  <2>1. Acceptable' = Acceptable
    BY <1>2, AcceptableStays DEF partnerVars
  <2>2. QED
    BY <1>2, <2>1 DEF partnerVars, PartnerInv, PartnerTypeOK, KeyMatches, SandboxDecides,
       ClaimFollows, CallerKnows, UnderWay, Doomed, AnswerStep
<1>3. QED
  BY <1>1, <1>2, RestartStep, OthersMoveClaim DEF PartnerNext

-----------------------------------------------------------------------------

(* Journals, sandbox, calls and rows keep their types.                     *)
THEOREM PartnerTypeCorrect == PartnerSpec => []PartnerTypeOK
<1>1. PartnerInv => PartnerTypeOK
  BY DEF PartnerInv
<1>2. QED
  BY <1>1, PartnerInitially, PartnerStep, PTL DEF PartnerSpec

(* A receipt or a terminal failure that a key was answered is its answer   *)
(* for ever, whatever overlaps, fails, or restarts.                        *)
THEOREM AnswersStay == PartnerSpec => AnswerIsFinal
<1>1. ASSUME PartnerInv, [PartnerNext]_partnerVars
      PROVE  [keyRecord \notin {NoReceipt, [life |-> 0, status |-> "absent"]} =>
                UNCHANGED keyRecord]_partnerVars
  BY <1>1, PartnerStep DEF AnswerStep, Absent
<1>2. QED
  BY <1>1, PartnerInitially, PartnerStep, PTL DEF PartnerSpec, AnswerIsFinal

(* A claim is controlled on a committed receipt that says VERIFIED.        *)
THEOREM ControlIsVerified == PartnerSpec => []ControlledIsVerified
<1>1. PartnerInv => ControlledIsVerified
  BY DEF PartnerInv, KeyMatches, ClaimFollows, ControlledIsVerified
<1>2. QED
  BY <1>1, PartnerInitially, PartnerStep, PTL DEF PartnerSpec

-----------------------------------------------------------------------------
(* The life of a credential. What carries the argument is the version: a   *)
(* call that still holds the row's version holds the row (CallsRemember),  *)
(* so what it learnt of the registry since it read the row is true of the  *)
(* row it replaces.                                                        *)

(* The indexer knows only what the registry holds.                         *)
IndexIsTrue == \A k \in indexedKeys : HasEvent(k)

(* A transaction carries the envelope that is stored.                      *)
FlightsMatch == \A tx \in inFlight : tx.key = "REGISTER" => tx.at = jcc.at /\ jcc # NoRow

(* What a call read of the row.                                            *)
CallRemembers(c) ==
  LET call == custodians[c] IN
  /\ call.row.version <= jcc.version
  /\ call.row.version = jcc.version => call.row = jcc
  /\ call.pc # "sign" => call.row # NoRow /\ call.row.at = jcc.at /\ jcc # NoRow
  /\ call.row.status = "REVOKED" => revoked # "none"

(* What a call has to do, and what it has found on its way to its write.   *)
CallKnows(c) ==
  LET call == custodians[c] IN
  /\ call.act # "none"
  /\ call.pc = "sign" => call.act = "issue"
  /\ call.act = "revoke" => call.key # "REGISTER" /\ call.pc # "read"
  /\ call.act # "revoke" => call.key = "REGISTER"
  /\ call.act = "refresh" => call.at <= jccClock /\ call.row.status # "REVOKED"
                             /\ call.pc \in {"read", "publish"}
  /\ call.act = "issue" /\ call.pc \in {"read", "publish"} => "REGISTER" \in indexedKeys
  /\ call.pc = "publish" =>
       /\ call.act = "issue" => call.row.status # "REVOKED"
       /\ call.act = "revoke" => call.key \in indexedKeys
       /\ call.act = "refresh" => registered # -1 /\ call.at >= ExpiresAt

BusyCall(c) == custodians[c].pc # "free" => CallRemembers(c) /\ CallKnows(c)

RowVersion == jcc = NoRow <=> jcc.version = 0

JccInv ==
  /\ JccTypeOK /\ RowVersion /\ RowFollowsRegistry
  /\ IndexIsTrue /\ FlightsMatch
  /\ \A c \in Custodians : BusyCall(c)

-----------------------------------------------------------------------------

LEMMA JccInitially == JccInit => JccInv
BY JccAssumption
DEF JccInit, JccInv, JccTypeOK, Credentials, Moments, SubmissionKeys, NoRow, Free, Calls, RowVersion,
    RowFollowsRegistry, IndexIsTrue, FlightsMatch, BusyCall

(* The insertion: nobody else is past its own when there is no row yet.    *)
LEMMA StoreStep ==
  ASSUME JccInv, NEW c \in Custodians, storeEnvelope(c)
  PROVE  JccInv'
<1> USE JccAssumption
    DEF JccInv, JccTypeOK, Credentials, Moments, SubmissionKeys, NoRow, RowVersion, HasEvent,
        RowFollowsRegistry, IndexIsTrue, FlightsMatch, BusyCall, CallRemembers, CallKnows,
        jccRows, jccChain, Reached, Turn, Withdraw, Free, Calls
<1> DEFINE at == custodians[c].at
<1>1. /\ custodians[c].pc = "sign" /\ custodians[c] \in Calls /\ jcc \in Credentials
      /\ UNCHANGED <<issuer, jccClock, submissions, jccChain, losses>>
  BY DEF storeEnvelope
<1>2. CASE jcc = NoRow
  <2>1. /\ jcc' = [status |-> "PENDING_REGISTRATION", version |-> 1, at |-> at]
        /\ custodians' = [custodians EXCEPT ![c] = [@ EXCEPT !.pc = "begin", !.row = jcc']]
    BY <1>2 DEF storeEnvelope, SameEnvelope
  <2>2. /\ jcc' \in Credentials /\ jcc'.status = "PENDING_REGISTRATION"
        /\ jcc'.version = 1 /\ jcc'.at = at /\ jcc' # NoRow
    BY <1>1, <2>1
  <2>3. /\ custodians' \in [Custodians -> Calls]
        /\ custodians'[c] = [custodians[c] EXCEPT !.pc = "begin", !.row = jcc']
        /\ \A d \in Custodians : d # c => custodians'[d] = custodians[d]
    BY <1>1, <2>1, <2>2, ZenonT(60)
  <2>4. JccTypeOK' /\ RowVersion' /\ RowFollowsRegistry'
    BY <1>1, <1>2, <2>2, <2>3
  <2>5. IndexIsTrue' /\ FlightsMatch'
    BY <1>1, <1>2, <2>2
  <2>6. BusyCall(c)'
    BY <1>1, <1>2, <2>2, <2>3
  <2>7. ASSUME NEW d \in Custodians, d # c PROVE BusyCall(d)'
    BY <1>1, <1>2, <2>2, <2>3, <2>7
  <2>8. QED
    BY <2>4, <2>5, <2>6, <2>7
<1>3. CASE jcc # NoRow /\ SameEnvelope(jcc, at)
  <2>1. /\ jcc' = jcc
        /\ custodians' = [custodians EXCEPT ![c] = [@ EXCEPT !.pc = "begin", !.row = jcc]]
    BY <1>3 DEF storeEnvelope
  <2>2. /\ custodians' \in [Custodians -> Calls]
        /\ custodians'[c] = [custodians[c] EXCEPT !.pc = "begin", !.row = jcc]
        /\ \A d \in Custodians : d # c => custodians'[d] = custodians[d]
    BY <1>1, <2>1, ZenonT(60)
  <2>3. JccTypeOK' /\ RowVersion' /\ RowFollowsRegistry' /\ IndexIsTrue' /\ FlightsMatch'
    BY <1>1, <2>1, <2>2
  <2>4. BusyCall(c)'
    <3>1. jcc.status = "REVOKED" => revoked # "none"
      OBVIOUS
    <3>2. QED
      BY <1>1, <1>3, <2>1, <2>2, <3>1
  <2>5. ASSUME NEW d \in Custodians, d # c PROVE BusyCall(d)'
    BY <1>1, <2>1, <2>2, <2>5
  <2>6. QED
    BY <2>3, <2>4, <2>5
<1>4. CASE jcc # NoRow /\ ~ SameEnvelope(jcc, at)
  <2>1. jcc' = jcc /\ custodians' = [custodians EXCEPT ![c] = Free]
    BY <1>4 DEF storeEnvelope
  <2>2. QED
    BY <1>1, <2>1
<1>5. QED
  BY <1>2, <1>3, <1>4

(* The transaction: included, refused, or lost from sight.                 *)
LEMMA SendStep ==
  ASSUME JccInv, NEW c \in Custodians, sendTransaction(c)
  PROVE  JccInv'
<1> USE JccAssumption
    DEF JccInv, JccTypeOK, Credentials, Moments, SubmissionKeys, NoRow, RowVersion, HasEvent,
        RowFollowsRegistry, IndexIsTrue, FlightsMatch, BusyCall, CallRemembers, CallKnows,
        jccRows, jccChain, Reached, Turn, Withdraw, Free, Calls
<1> USE DEF sendTransaction, Admits, Include, Loss
<1>1. CASE inFlight' = inFlight /\ losses' = losses /\ Admits(custodians[c].key) /\ Turn(c, "submitted")
           /\ Include(custodians[c].key, custodians[c].row.at)
  <2>1. CASE custodians[c].key = "REGISTER"
    BY <1>1, <2>1
  <2>2. CASE custodians[c].key # "REGISTER"
    <3>1. /\ revoked = "none" /\ revoked' = custodians[c].key /\ registered' = registered
          /\ revoked' \in RevokeReasons /\ revoked' # "none" /\ revoked' # "REGISTER"
      BY <1>1, <2>2
    <3>2. indexedKeys \subseteq {"REGISTER"}
      BY <3>1
    <3>3. QED
      BY <1>1, <3>1, <3>2
  <2>3. QED
    BY <2>1, <2>2
<1>2. CASE UNCHANGED <<registered, revoked, inFlight, losses>> /\ Withdraw(c)
  BY <1>2
<1>3. CASE /\ Loss /\ Withdraw(c) /\ UNCHANGED <<registered, revoked>>
           /\ inFlight' = inFlight \union {[key |-> custodians[c].key, at |-> custodians[c].row.at]}
  BY <1>3
<1>4. QED
  BY <1>1, <1>2, <1>3

(* The write under the row's version: who makes it holds the row.          *)
LEMMA PublishStep ==
  ASSUME JccInv, NEW c \in Custodians, publishStatus(c)
  PROVE  JccInv' /\ (jcc.status = "REVOKED" => jcc'.status = "REVOKED")
<1> DEFINE act == custodians[c].act
<1>1. act \in {"issue", "revoke", "refresh"}
  <2>1. custodians[c] \in Calls /\ CallKnows(c)
    BY DEF publishStatus, Reached, JccInv, JccTypeOK, BusyCall
  <2>. QED
    BY <2>1 DEF Calls, CallKnows
<1> USE JccAssumption
    DEF JccInv, JccTypeOK, Credentials, Moments, SubmissionKeys, NoRow, RowVersion, HasEvent,
        RowFollowsRegistry, IndexIsTrue, FlightsMatch, BusyCall, CallRemembers, CallKnows,
        jccRows, jccChain, Reached, Turn, Withdraw, Free, Calls
<1>2. CASE jcc' = jcc /\ (Turn(c, "settle") \/ Withdraw(c))
  <2>0. UNCHANGED <<issuer, jccClock, jccRows, jccChain, losses>>
    BY <1>2 DEF publishStatus
  <2>1. JccTypeOK' /\ RowVersion'
    <3>1. custodians \in [Custodians -> Calls]
      OBVIOUS
    <3>2. CASE Turn(c, "settle")
      BY <2>0, <3>1, <3>2
    <3>3. CASE Withdraw(c)
      BY <2>0, <3>1, <3>3
    <3>. QED
      BY <1>2, <3>2, <3>3
  <2>2. RowFollowsRegistry'
    BY <2>0
  <2>3. IndexIsTrue' /\ FlightsMatch'
    BY <1>2 DEF publishStatus
  <2>4. ASSUME NEW d \in Custodians PROVE BusyCall(d)'
    BY <1>2 DEF publishStatus
  <2>. QED
    BY <1>2, <2>1, <2>2, <2>3, <2>4
<1>3. CASE /\ jcc.version = custodians[c].row.version
           /\ jcc' = [jcc EXCEPT !.status = Outcome(act), !.version = @ + 1]
           /\ IF act = "refresh" THEN Withdraw(c) ELSE Turn(c, "settle")
  <2>1. jcc = custodians[c].row /\ jcc # NoRow
    BY <1>3 DEF publishStatus
  <2>2. /\ act = "issue" => Outcome(act) = "ACTIVE"
        /\ act = "revoke" => Outcome(act) = "REVOKED"
        /\ act = "refresh" => Outcome(act) = "EXPIRED"
    BY Zenon DEF Outcome
  <2>3. /\ jcc'.status = Outcome(act) /\ jcc'.version = jcc.version + 1 /\ jcc'.at = jcc.at
        /\ jcc' \in Credentials /\ jcc' # NoRow
    <3>1. jcc \in Credentials /\ jcc.version \in Nat
      OBVIOUS
    <3>2. Outcome(act) \in {"ACTIVE", "REVOKED", "EXPIRED"}
      BY <1>1, <2>2
    <3>3. jcc' = [status |-> Outcome(act), version |-> jcc.version + 1, at |-> jcc.at]
      BY <1>3, <3>1
    <3>4. jcc'.version # 0
      BY <3>1, <3>3
    <3>5. QED
      BY <3>1, <3>2, <3>3, <3>4
  <2>4. JccTypeOK' /\ RowVersion'
    BY <1>3, <2>1, <2>3 DEF publishStatus
  <2>5. RowFollowsRegistry'
    BY <1>1, <2>1, <2>2, <2>3 DEF publishStatus
  <2>6. IndexIsTrue' /\ FlightsMatch'
    BY <2>1, <2>3 DEF publishStatus
  <2>7. ASSUME NEW d \in Custodians PROVE BusyCall(d)'
    BY <1>1, <1>3, <2>1, <2>3, <2>7 DEF publishStatus
  <2>8. jcc.status = "REVOKED" => jcc'.status = "REVOKED"
    BY <1>1, <2>1, <2>2, <2>3 DEF publishStatus
  <2>9. QED
    BY <2>4, <2>5, <2>6, <2>7, <2>8
<1>4. QED
  BY <1>2, <1>3 DEF publishStatus

LEMMA JccStep == JccInv /\ [JccNext]_jccVars => JccInv'
<1> SUFFICES ASSUME JccInv, [JccNext]_jccVars PROVE JccInv'
  OBVIOUS
<1> USE JccAssumption
    DEF JccInv, JccTypeOK, Credentials, Moments, SubmissionKeys, NoRow, RowVersion, HasEvent,
        RowFollowsRegistry, IndexIsTrue, FlightsMatch, BusyCall, CallRemembers, CallKnows,
        jccRows, jccChain, Reached, Turn, Withdraw, Free, Calls
<1>1. CASE passTime
  BY <1>1 DEF passTime
<1>2. ASSUME NEW k \in SubmissionKeys, indexJccEvent(k) PROVE JccInv'
  BY <1>2 DEF indexJccEvent
<1>3. CASE landJccTransaction
  BY <1>3 DEF landJccTransaction, Admits, Include
<1>4. ASSUME NEW c \in Custodians, endCall(c) PROVE JccInv'
  BY <1>4 DEF endCall, Loss
<1>5. ASSUME NEW c \in Custodians, openIssuance(c) PROVE JccInv'
  BY <1>5 DEF openIssuance, MayOpen, Taken, IssuedAt, Signable, SameEnvelope
<1>6. ASSUME NEW c \in Custodians, openRefresh(c) PROVE JccInv'
  BY <1>6 DEF openRefresh, MayOpen, Taken
<1>7. ASSUME NEW c \in Custodians, storeEnvelope(c) PROVE JccInv'
  BY <1>7, StoreStep
<1>8. ASSUME NEW c \in Custodians, beginSubmission(c) PROVE JccInv'
  BY <1>8 DEF beginSubmission
<1>9. ASSUME NEW c \in Custodians, sendTransaction(c) PROVE JccInv'
  BY <1>9, SendStep
<1>10. ASSUME NEW c \in Custodians, markJccSubmitted(c) PROVE JccInv'
  BY <1>10 DEF markJccSubmitted
<1>11. ASSUME NEW c \in Custodians, reconcileJcc(c) PROVE JccInv'
  BY <1>11, SMTT(30) DEF reconcileJcc
<1>12. ASSUME NEW c \in Custodians, readRegistry(c) PROVE JccInv'
  BY <1>12, SMTT(30) DEF readRegistry, LiveStatus, Outcome
<1>13. ASSUME NEW c \in Custodians, publishStatus(c) PROVE JccInv'
  BY <1>13, PublishStep
<1>14. ASSUME NEW c \in Custodians, markJccReconciled(c) PROVE JccInv'
  BY <1>14 DEF markJccReconciled
<1>15. ASSUME NEW c \in Custodians, NEW reason \in RevokeReasons, openRevoke(c, reason) PROVE JccInv'
  BY <1>15 DEF openRevoke, MayOpen, Taken
<1>16. CASE UNCHANGED jccVars
  BY <1>16 DEF jccVars
<1>17. QED
  BY <1>1, <1>2, <1>3, <1>4, <1>5, <1>6, <1>7, <1>8, <1>9, <1>10, <1>11, <1>12, <1>13, <1>14, <1>15, <1>16
  DEF JccNext

(* The row, the submissions, the registry and the calls keep their types.  *)
THEOREM JccTypeCorrect == JccSpec => []JccTypeOK
<1>1. JccInv => JccTypeOK
  BY DEF JccInv
<1>2. QED
  BY <1>1, JccInitially, JccStep, PTL DEF JccSpec

(* The row's envelope is the registered one and its status says what the   *)
(* registry and its indexed events say, whichever calls overlap.           *)
THEOREM RowIsTrue == JccSpec => []RowFollowsRegistry
<1>1. JccInv => RowFollowsRegistry
  BY DEF JccInv
<1>2. QED
  BY <1>1, JccInitially, JccStep, PTL DEF JccSpec

(* No call takes the row out of REVOKED, however early it read.            *)
THEOREM RevocationStays == JccSpec => RevokedIsFinal
<1>1. ASSUME JccInv, [JccNext]_jccVars
      PROVE  [jcc.status = "REVOKED" => jcc'.status = "REVOKED"]_jccVars
  <2>1. ASSUME NEW c \in Custodians, storeEnvelope(c)
        PROVE  jcc.status = "REVOKED" => jcc'.status = "REVOKED"
    BY <2>1 DEF storeEnvelope, NoRow
  <2>2. ASSUME NEW c \in Custodians, publishStatus(c)
        PROVE  jcc.status = "REVOKED" => jcc'.status = "REVOKED"
    BY <1>1, <2>2, PublishStep
  <2>3. CASE jcc' = jcc
    BY <2>3
  <2>4. QED
    BY <1>1, <2>1, <2>2, <2>3
    DEF JccNext, jccVars, jccRows, passTime, indexJccEvent, landJccTransaction, endCall,
        openIssuance, openRefresh, openRevoke, beginSubmission, sendTransaction,
        markJccSubmitted, reconcileJcc, readRegistry, markJccReconciled
<1>2. QED
  BY <1>1, JccInitially, JccStep, PTL DEF JccSpec, RevokedIsFinal

-----------------------------------------------------------------------------
(* The commands on claims and offers. The invariant is the property        *)
(* itself and what a request carries: a request for an offer names a       *)
(* claim.                                                                  *)

Target == ClaimKeys \cup OfferKeys \cup {"stream", "none"}
Payload == [target : Target, hint : BOOLEAN]

Client == [pc : {"idle", "claim", "mutate"}, key : CommandKeys \cup {"none"},
           payload : Payload, seen : BOOLEAN]

StreamStates == {"NONE", "DRAFT", "ELIGIBLE"} \cup TerminalStates

FinancingOffer == [claim : ClaimKeys \cup {"none"}, status : {"NONE", "OFFERED", "ACCEPTED"}]

CommandsTyped ==
  /\ streamClaims \in [ClaimKeys -> StreamStates]
  /\ offers \in [OfferKeys -> FinancingOffer]
  /\ keys \in [CommandKeys -> Payload]
  /\ bodies \in [CommandKeys -> Target]
  /\ clients \in [Clients -> Client]

(* An offer is asked for on a claim, with every request of its key.        *)
OffersAskForClaims ==
  /\ \A k \in OfferKeys : bodies[k] \in ClaimKeys \cup {"none"}
  /\ \A x \in Clients : ~ Serves(x, "idle") /\ Asked(x) \in OfferKeys => Body(x).target \in ClaimKeys

CommandInv == CommandsTyped /\ OffersAskForClaims /\ OneActive

(* A request that is answered leaves the other requests where they are.    *)
LEMMA AnsweredStays ==
  ASSUME CommandInv, NEW x \in Clients, Answered(x), bodies' = bodies
  PROVE  clients' \in [Clients -> Client] /\ OffersAskForClaims'
<1>1. IdleClient \in Client /\ IdleClient.pc = "idle"
  BY DEF IdleClient, Client, NoPayload, Payload, Target
<1> HIDE DEF IdleClient
<1>2. clients' \in [Clients -> Client]
  BY <1>1 DEF Answered, CommandInv, CommandsTyped
<1>3. \A y \in Clients : clients'[y] = clients[y] \/ clients'[y].pc = "idle"
  BY <1>1 DEF Answered, CommandInv, CommandsTyped
<1>. QED
  BY <1>2, <1>3 DEF CommandInv, OffersAskForClaims, Serves, Asked, Body

(* An answered key is recorded with the payload of the request, if at all. *)
LEMMA CompletesStays ==
  ASSUME CommandInv, NEW x \in Clients, ~ Serves(x, "idle"), Asked(x) \in CommandKeys,
         Completes(x) \/ (Refuses(x) /\ keys' = keys)
  PROVE  /\ keys' \in [CommandKeys -> Payload] /\ bodies' \in [CommandKeys -> Target]
         /\ clients' \in [Clients -> Client] /\ OffersAskForClaims'
<1>1. Answered(x) /\ bodies' = bodies
  BY DEF Completes, Refuses
<1>2. Body(x) \in Payload
  BY DEF Body, CommandInv, CommandsTyped, Client
<1>3. keys' \in [CommandKeys -> Payload]
  BY <1>2 DEF Completes, Refuses, CommandInv, CommandsTyped
<1>. QED
  BY <1>1, <1>3, AnsweredStays DEF CommandInv, CommandsTyped

(* Every step keeps the invariant: the two indexes are asked again at the  *)
(* write, so what was read before it decides nothing alone.                *)
LEMMA CommandNextKeeps == CommandInv /\ [CommandNext]_commandVars => CommandInv'
<1> SUFFICES ASSUME CommandInv, [CommandNext]_commandVars PROVE CommandInv'
  OBVIOUS
<1>1. ASSUME NEW x \in Clients, NEW k \in CommandKeys, ask(x, k) PROVE CommandInv'
  <2>1. PICK body \in Target :
          /\ bodies' = [bodies EXCEPT ![k] = body]
          /\ k \in OfferKeys => body \in ClaimKeys
    <3>1. CASE bodies[k] # "none"
      BY <1>1, <3>1 DEF ask, CommandInv, CommandsTyped, OffersAskForClaims
    <3>2. CASE bodies[k] = "none"
      <4>1. PICK body \in CASE k \in ClaimKeys -> {"stream"}
                            [] k \in OfferKeys -> {c \in ClaimKeys : streamClaims[c] # "NONE"}
                            [] OTHER -> {o \in OfferKeys : offers[o] # NoOffer} :
              bodies' = [bodies EXCEPT ![k] = body]
        BY <1>1, <3>2 DEF ask
      <4>2. body \in Target /\ (k \in OfferKeys => body \in ClaimKeys)
        BY <4>1, CommandAssumption DEF Target
      <4>. QED
        BY <4>1, <4>2
    <3>. QED
      BY <3>1, <3>2
  <2>2. bodies' \in [CommandKeys -> Target] /\ bodies'[k] = body
    BY <2>1 DEF CommandInv, CommandsTyped
  <2> DEFINE hint == k \in OfferKeys /\ ActiveOffers(bodies'[k]) # {}
             c == [IdleClient EXCEPT !.pc = "claim", !.key = k, !.payload = [target |-> body, hint |-> hint]]
  <2>3. clients' = [clients EXCEPT ![x] = c]
    BY <1>1, <2>2 DEF ask
  <2>4. c \in Client /\ c.key = k /\ c.payload.target = body
    BY <2>1 DEF IdleClient, Client, NoPayload, Payload
  <2> HIDE DEF c
  <2>5. clients' \in [Clients -> Client]
    BY <2>3, <2>4 DEF CommandInv, CommandsTyped
  <2>6. OffersAskForClaims'
    <3>1. \A j \in OfferKeys : bodies'[j] \in ClaimKeys \cup {"none"}
      BY <2>1 DEF CommandInv, CommandsTyped, OffersAskForClaims
    <3>2. \A y \in Clients : clients'[y] = clients[y] \/ (clients'[y].key = k /\ clients'[y].payload.target = body)
      BY <2>3, <2>4 DEF CommandInv, CommandsTyped
    <3>. QED
      BY <2>1, <3>1, <3>2 DEF CommandInv, OffersAskForClaims, Serves, Asked, Body
  <2>. QED
    BY <1>1, <2>2, <2>5, <2>6 DEF ask, CommandInv, CommandsTyped, OneActive, ActiveClaims, ActiveOffers
<1>2. ASSUME NEW x \in Clients, claimKey(x) PROVE CommandInv'
  <2> DEFINE seen == Reads(Asked(x), Body(x).target)
             c == [clients[x] EXCEPT !.pc = "mutate", !.seen = seen]
  <2>1. clients' \in [Clients -> Client] /\ OffersAskForClaims'
    <3>1. CASE Answered(x)
      BY <1>2, <3>1, AnsweredStays DEF claimKey
    <3>2. CASE clients' = [clients EXCEPT ![x] = c]
      <4>1. seen \in BOOLEAN
        BY DEF Reads
      <4> HIDE DEF seen
      <4>2. c \in Client /\ c.key = clients[x].key /\ c.payload = clients[x].payload
        BY <4>1 DEF CommandInv, CommandsTyped, Client
      <4> HIDE DEF c
      <4>3. clients' \in [Clients -> Client]
        BY <3>2, <4>2 DEF CommandInv, CommandsTyped
      <4>4. \A y \in Clients : clients'[y] = clients[y] \/ (y = x /\ clients'[y] = c)
        BY <3>2 DEF CommandInv, CommandsTyped
      <4>. QED
        BY <1>2, <4>2, <4>3, <4>4 DEF claimKey, CommandInv, OffersAskForClaims, Serves, Asked, Body
    <3>. QED
      BY <1>2, <3>1, <3>2 DEF claimKey
  <2>. QED
    BY <1>2, <2>1 DEF claimKey, CommandInv, CommandsTyped, OneActive, ActiveClaims, ActiveOffers
<1>3. ASSUME NEW x \in Clients, createClaim(x) PROVE CommandInv'
  <2>1. /\ keys' \in [CommandKeys -> Payload] /\ bodies' \in [CommandKeys -> Target]
        /\ clients' \in [Clients -> Client] /\ OffersAskForClaims'
    BY <1>3, CompletesStays DEF createClaim, Refuses, Serves, CommandKeys
  <2>2. \/ streamClaims' = streamClaims
        \/ ActiveClaims = {} /\ streamClaims' = [streamClaims EXCEPT ![Asked(x)] = "DRAFT"]
    BY <1>3 DEF createClaim
  <2>3. streamClaims' \in [ClaimKeys -> StreamStates] /\ offers' = offers
    BY <1>3, <2>2 DEF createClaim, CommandInv, CommandsTyped, StreamStates
  <2>4. \A c, d \in ActiveClaims' : c = d
    BY <2>2, <2>3 DEF ActiveClaims, CommandInv, CommandsTyped, OneActive
  <2>. QED
    BY <2>1, <2>3, <2>4 DEF CommandInv, CommandsTyped, OneActive, ActiveOffers
<1>4. ASSUME NEW x \in Clients, createFinancingOffer(x) PROVE CommandInv'
  <2> DEFINE c == Body(x).target
             o == Asked(x)
  <2>1. /\ keys' \in [CommandKeys -> Payload] /\ bodies' \in [CommandKeys -> Target]
        /\ clients' \in [Clients -> Client] /\ OffersAskForClaims'
    BY <1>4, CompletesStays DEF createFinancingOffer, Refuses, Serves, CommandKeys
  <2>2. o \in OfferKeys /\ c \in ClaimKeys /\ streamClaims' = streamClaims
    BY <1>4 DEF createFinancingOffer, CommandInv, OffersAskForClaims, Serves
  <2> DEFINE offer == [claim |-> c, status |-> "OFFERED"]
  <2>3. offers' = offers \/ (ActiveOffers(c) = {} /\ offers' = [offers EXCEPT ![o] = offer])
    BY <1>4 DEF createFinancingOffer, InsertOffer, Vacant
  <2>4. offer \in FinancingOffer /\ offer.claim = c
    BY <2>2 DEF FinancingOffer
  <2> HIDE DEF c, o, offer
  <2>5. offers' \in [OfferKeys -> FinancingOffer]
    BY <2>3, <2>4 DEF CommandInv, CommandsTyped
  <2>6. \A d \in ClaimKeys : \A p, q \in ActiveOffers(d)' : p = q
    <3>1. \A p \in OfferKeys : offers'[p] = offers[p] \/ (ActiveOffers(c) = {} /\ p = o /\ offers'[p].claim = c)
      BY <2>3, <2>4 DEF CommandInv, CommandsTyped
    <3>. QED
      BY <3>1 DEF ActiveOffers, CommandInv, OneActive
  <2>. QED
    BY <2>1, <2>2, <2>5, <2>6 DEF CommandInv, CommandsTyped, OneActive, ActiveClaims
<1>5. ASSUME NEW x \in Clients, acceptFinancingOffer(x) PROVE CommandInv'
  <2> DEFINE o == Body(x).target
  <2>1. /\ keys' \in [CommandKeys -> Payload] /\ bodies' \in [CommandKeys -> Target]
        /\ clients' \in [Clients -> Client] /\ OffersAskForClaims'
    BY <1>5, CompletesStays DEF acceptFinancingOffer, Refuses, Serves, CommandKeys
  <2>2. \/ offers' = offers
        \/ offers[o].status = "OFFERED" /\ offers' = [offers EXCEPT ![o].status = "ACCEPTED"]
    BY <1>5 DEF acceptFinancingOffer, UpdateOffer
  <2>3. /\ offers' \in [OfferKeys -> FinancingOffer]
        /\ \A p \in OfferKeys : /\ offers'[p].claim = offers[p].claim
                                /\ offers'[p].status # offers[p].status => offers[p].status = "OFFERED"
    BY <2>2 DEF CommandInv, CommandsTyped, FinancingOffer
  <2>. QED
    BY <1>5, <2>1, <2>3 DEF acceptFinancingOffer, CommandInv, CommandsTyped, OneActive, ActiveClaims, ActiveOffers
<1>6. ASSUME NEW x \in Clients, rollBack(x) PROVE CommandInv'
  <2>1. clients' \in [Clients -> Client] /\ OffersAskForClaims'
    BY <1>6, AnsweredStays DEF rollBack, Answered
  <2>. QED
    BY <1>6, <2>1 DEF rollBack, CommandInv, CommandsTyped, OneActive, ActiveClaims, ActiveOffers
<1>7. ASSUME NEW c \in ClaimKeys, moveClaimOn(c) PROVE CommandInv'
  <2>1. /\ streamClaims' \in [ClaimKeys -> StreamStates]
        /\ \A d \in ClaimKeys : streamClaims'[d] # streamClaims[d] => streamClaims[d] \in {"DRAFT", "ELIGIBLE"}
    BY <1>7 DEF moveClaimOn, CommandInv, CommandsTyped, StreamStates
  <2>2. ActiveClaims' \subseteq ActiveClaims
    BY <2>1 DEF ActiveClaims, TerminalStates
  <2>. QED
    BY <1>7, <2>1, <2>2 DEF moveClaimOn, CommandInv, CommandsTyped, OffersAskForClaims, OneActive, ActiveOffers,
       Serves, Asked, Body
<1>8. CASE UNCHANGED commandVars
  BY <1>8 DEF commandVars, CommandInv, CommandsTyped, OffersAskForClaims, OneActive, ActiveClaims, ActiveOffers,
     Serves, Asked, Body
<1>. QED
  BY <1>1, <1>2, <1>3, <1>4, <1>5, <1>6, <1>7, <1>8 DEF CommandNext, CommandStep

(* The invariant holds in every behaviour.                                 *)
LEMMA CommandHolds == CommandSpec => []CommandInv
<1>1. ASSUME CommandInit PROVE CommandInv
  <2>1. IdleClient \in Client /\ IdleClient.pc = "idle" /\ NoOffer \in FinancingOffer /\ NoPayload \in Payload
        /\ NoOffer.status = "NONE"
    BY DEF IdleClient, Client, NoPayload, Payload, Target, NoOffer, FinancingOffer
  <2>2. CommandsTyped
    BY <1>1, <2>1 DEF CommandInit, CommandsTyped, StreamStates, Target
  <2>3. OffersAskForClaims
    BY <1>1, <2>1 DEF CommandInit, OffersAskForClaims, Serves, CommandKeys
  <2>4. OneActive
    BY <1>1, <2>1 DEF CommandInit, OneActive, ActiveClaims, ActiveOffers
  <2>. QED
    BY <2>2, <2>3, <2>4 DEF CommandInv
<1>. QED
  BY <1>1, CommandNextKeeps, PTL DEF CommandSpec

(* The variables of the commands on claims and offers keep their types.    *)
THEOREM CommandTypeCorrect == CommandSpec => []CommandTypeOK
<1>1. CommandInv => CommandTypeOK
  BY DEF CommandInv, CommandsTyped, CommandTypeOK, StreamStates, FinancingOffer, Target, Payload, Client
<1>. QED
  BY <1>1, CommandHolds, PTL

(* A settlement snapshot has one active claim and a claim one active       *)
(* offer, whatever two commands have read before they write.               *)
THEOREM OneOfEach == CommandSpec => []OneActive
<1>1. CommandInv => OneActive
  BY DEF CommandInv
<1>. QED
  BY <1>1, CommandHolds, PTL

-----------------------------------------------------------------------------
(* The intake of settlements. The rows, keys and answers that name an      *)
(* event name the one that is stored.                                      *)

Settles(e) == \E s \in settlements : s.id = e

Connection ==
  [pc : {"closed", "sent", "storing", "answered"}, key : SettlementKeys \cup {"none"},
   at : -1..MaxUpdates, answer : SettlementKeys \cup {"none", "conflict", "failed"}]

Desk ==
  [pc : {"idle", "waiting", "refreshing"}, key : SettlementKeys \cup {"none"},
   line : Connections \cup {"none"}, known : SettlementKeys \cup {"none"}]

DeskTyped ==
  /\ claimUpdates \in 0..MaxUpdates
  /\ settlements \subseteq [id : SettlementKeys, external : {"claim"}, at : 0..MaxUpdates]
  /\ settlementKeys \in [SettlementKeys -> [at : -1..MaxUpdates, event : SettlementKeys \cup {"none"}]]
  /\ connections \in [Connections -> Connection]
  /\ \A n \in Connections : connections[n].pc \in {"sent", "storing"} =>
       connections[n].key \in SettlementKeys /\ connections[n].at \in 0..MaxUpdates
  /\ desks \in [Desks -> Desk]

OneRow == \A s, t \in settlements : s = t

KeysAnswer ==
  \A k \in SettlementKeys : settlementKeys[k] # NoAnswer =>
    \E s \in settlements : s.id = settlementKeys[k].event /\ s.at = settlementKeys[k].at

RepliesSettle ==
  \A n \in Connections : connections[n].pc = "answered" =>
    connections[n].answer \in {"conflict", "failed"} \/ Settles(connections[n].answer)

DesksKnow ==
  /\ \A d \in Desks : desks[d].known # "none" => Settles(desks[d].known)
  /\ \A e \in waterfalled : Settles(e)

DeskInv == DeskTyped /\ OneRow /\ KeysAnswer /\ RepliesSettle /\ DesksKnow

(* A step of a request moves it alone and keeps what it asks for.          *)
Served(n) ==
  /\ connections' \in [Connections -> Connection]
  /\ \A m \in Connections : m # n => connections'[m] = connections[m]
  /\ connections'[n].key = connections[n].key /\ connections'[n].at = connections[n].at
  /\ connections'[n].pc = "answered" =>
       connections'[n].answer \in {"conflict", "failed"} \/ Settles(connections'[n].answer)

(* What a tab learns from an answer is of a settlement that is stored.     *)
LEMMA ToldType ==
  ASSUME DeskInv, NEW d \in Desks,
         NEW answer \in SettlementKeys \cup {"conflict", "failed"},
         answer \in {"conflict", "failed"} \/ Settles(answer)
  PROVE  Told(d, answer) \in Desk /\ (Told(d, answer).known # "none" => Settles(Told(d, answer).known))
BY DEF Told, DeskInv, DeskTyped, DesksKnow, Desk

(* Every step keeps the invariant: the index on the external id leaves     *)
(* room for one row, and an answer names the row it found or made.         *)
LEMMA DeskStep == DeskInv /\ [DeskNext]_deskVars => DeskInv'
<1> SUFFICES ASSUME DeskInv, [DeskNext]_deskVars PROVE DeskInv'
  OBVIOUS
<1> USE DeskAssumption
<1>1. CASE touchClaim
  BY <1>1 DEF touchClaim, deskRows, DeskInv, DeskTyped, OneRow, KeysAnswer, RepliesSettle, DesksKnow, Settles
<1>2. ASSUME NEW d \in Desks, NEW n \in Connections, NEW k \in SettlementKeys, recordSettlement(d, n, k)
      PROVE  DeskInv'
  <2>0. desks[d] \in Desk /\ claimUpdates \in 0..MaxUpdates
    BY DEF DeskInv, DeskTyped
  <2>1. [pc |-> "sent", key |-> k, at |-> claimUpdates, answer |-> "none"] \in Connection
    <3>1. claimUpdates \in -1..MaxUpdates
      BY <2>0
    <3>. QED
      BY <3>1 DEF Connection
  <2>4. [desks[d] EXCEPT !.pc = "waiting", !.key = k, !.line = n] \in Desk
    BY <2>0 DEF Desk
  <2>2. DeskTyped'
    BY <1>2, <2>1, <2>4 DEF recordSettlement, deskRows, DeskInv, DeskTyped
  <2>3. /\ UNCHANGED <<settlements, settlementKeys, waterfalled>>
        /\ \A m \in Connections : connections'[m] = connections[m] \/ connections'[m].pc = "sent"
        /\ \A b \in Desks : desks'[b].known = desks[b].known
    BY <1>2 DEF recordSettlement, deskRows, DeskInv, DeskTyped, Desk
  <2>. QED
    BY <2>2, <2>3 DEF DeskInv, OneRow, KeysAnswer, RepliesSettle, DesksKnow, Settles
<1>3. ASSUME NEW d \in Desks, giveUp(d) \/ refreshWorkspace(d) \/ leavePage(d)
      PROVE  DeskInv'
  <2>0. desks \in [Desks -> Desk] /\ desks[d] \in Desk
    BY DEF DeskInv, DeskTyped
  <2>1. /\ desks' \in [Desks -> Desk]
        /\ \A b \in Desks : desks'[b].known \in {"none", desks[b].known}
    <3>1. CASE giveUp(d)
      BY <2>0, <3>1 DEF giveUp, Desk
    <3>2. CASE refreshWorkspace(d)
      <4>1. PICK kept \in {"none", desks[d].key} :
              desks' = [desks EXCEPT ![d] = [@ EXCEPT !.pc = "idle", !.key = kept]]
        BY <3>2 DEF refreshWorkspace
      <4>. QED
        BY <2>0, <4>1 DEF Desk
    <3>3. CASE leavePage(d)
      <4>1. PICK known \in {"none", desks[d].known} :
              desks' = [desks EXCEPT ![d] = [Fresh EXCEPT !.known = known]]
        BY <3>3 DEF leavePage
      <4>. QED
        BY <2>0, <4>1 DEF Fresh, Desk
    <3>. QED
      BY <1>3, <3>1, <3>2, <3>3
  <2>2. UNCHANGED <<claimUpdates, deskRows, connections, waterfalled>>
    BY <1>3 DEF giveUp, refreshWorkspace, leavePage
  <2>. QED
    BY <2>1, <2>2 DEF deskRows, DeskInv, DeskTyped, OneRow, KeysAnswer, RepliesSettle, DesksKnow, Settles
<1>4. ASSUME NEW d \in Desks, runWaterfall(d)
      PROVE  DeskInv'
  BY <1>4 DEF runWaterfall, deskRows, DeskInv, DeskTyped, OneRow, KeysAnswer, RepliesSettle, DesksKnow, Settles
<1>5. ASSUME NEW n \in Connections, beginIngest(n)
      PROVE  DeskInv'
  <2> DEFINE k == connections[n].key
             at == connections[n].at
  <2>1. k \in SettlementKeys /\ at \in 0..MaxUpdates /\ connections[n] \in Connection
    BY <1>5 DEF beginIngest, DeskInv, DeskTyped
  <2>2. /\ UNCHANGED <<claimUpdates, settlements, desks, waterfalled>>
        /\ \/ settlementKeys' = settlementKeys
           \/ \E e \in settlements : e.at = at /\ settlementKeys' = [settlementKeys EXCEPT ![k] = [at |-> at, event |-> e.id]]
    BY <1>5 DEF beginIngest, Namesakes, Contradicts, Completed
  <2>3. \/ connections' = [connections EXCEPT ![n].pc = "storing"]
        \/ \E answer \in {"conflict", "failed"} : Replied(n, answer)
        \/ \E s \in settlements : Replied(n, s.id)
    BY <1>5, <2>1 DEF beginIngest, Namesakes, DeskInv, KeysAnswer
  <2>4. Served(n)
    <3>1. CASE connections' = [connections EXCEPT ![n].pc = "storing"]
      BY <2>1, <3>1 DEF Served, DeskInv, DeskTyped, Connection
    <3>2. ASSUME NEW answer \in {"conflict", "failed"} \cup SettlementKeys, Replied(n, answer),
                 answer \in {"conflict", "failed"} \/ Settles(answer)
          PROVE  Served(n)
      BY <2>1, <3>2 DEF Served, Replied, DeskInv, DeskTyped, Connection
    <3>. QED
      BY <2>3, <3>1, <3>2 DEF Settles, DeskInv, DeskTyped
  <2>5. settlementKeys' \in [SettlementKeys -> [at : -1..MaxUpdates, event : SettlementKeys \cup {"none"}]]
    <3>1. \A e \in settlements : [at |-> at, event |-> e.id] \in [at : -1..MaxUpdates, event : SettlementKeys \cup {"none"}]
      BY <2>1 DEF DeskInv, DeskTyped
    <3>2. settlementKeys \in [SettlementKeys -> [at : -1..MaxUpdates, event : SettlementKeys \cup {"none"}]]
      BY DEF DeskInv, DeskTyped
    <3>3. CASE settlementKeys' = settlementKeys
      BY <3>2, <3>3
    <3>4. ASSUME NEW e \in settlements,
                 settlementKeys' = [settlementKeys EXCEPT ![k] = [at |-> at, event |-> e.id]]
          PROVE  settlementKeys' \in [SettlementKeys -> [at : -1..MaxUpdates, event : SettlementKeys \cup {"none"}]]
      <4> HIDE DEF k, at
      <4>. QED
        BY <3>1, <3>2, <3>4
    <3>. QED
      BY <2>2, <3>3, <3>4
  <2>6. DeskTyped'
    BY <2>1, <2>2, <2>4, <2>5 DEF Served, DeskInv, DeskTyped
  <2>7. KeysAnswer'
    <3>1. CASE settlementKeys' = settlementKeys
      BY <2>2, <3>1 DEF DeskInv, KeysAnswer
    <3>2. ASSUME NEW e \in settlements, e.at = at,
                 settlementKeys' = [settlementKeys EXCEPT ![k] = [at |-> at, event |-> e.id]]
          PROVE  KeysAnswer'
      BY <2>1, <2>2, <3>2 DEF DeskInv, DeskTyped, KeysAnswer
    <3>. QED
      BY <2>2, <3>1, <3>2
  <2>8. RepliesSettle'
    BY <2>2, <2>4 DEF Served, DeskInv, RepliesSettle, Settles
  <2>. QED
    BY <2>2, <2>6, <2>7, <2>8 DEF DeskInv, OneRow, DesksKnow, Settles
<1>6. ASSUME NEW n \in Connections, commitIngest(n)
      PROVE  DeskInv'
  <2> DEFINE k == connections[n].key
             at == connections[n].at
             row == [id |-> k, external |-> "claim", at |-> at]
  <2>1. k \in SettlementKeys /\ at \in 0..MaxUpdates /\ connections[n] \in Connection
    BY <1>6 DEF commitIngest, DeskInv, DeskTyped
  <2>2. UNCHANGED <<claimUpdates, desks, waterfalled>>
    BY <1>6 DEF commitIngest
  <2>3. CASE Namesakes(k) # {}
    <3>1. /\ UNCHANGED deskRows
          /\ connections' = [connections EXCEPT ![n] = [connections[n] EXCEPT !.pc = "answered", !.answer = "failed"]]
      BY <1>6, <2>1, <2>3 DEF commitIngest, Replied, DeskInv, DeskTyped, Connection
    <3>2. [connections[n] EXCEPT !.pc = "answered", !.answer = "failed"] \in Connection
      BY <2>1 DEF Connection
    <3>. QED
      BY <2>1, <2>2, <3>1, <3>2 DEF deskRows, DeskInv, DeskTyped, OneRow, KeysAnswer, RepliesSettle, DesksKnow, Settles
  <2>4. CASE Namesakes(k) = {}
    <3>1. settlements = {}
      BY <2>1, <2>4 DEF Namesakes, ExternalId, DeskInv, DeskTyped
    <3>2. /\ settlements' = {row}
          /\ settlementKeys' = [settlementKeys EXCEPT ![k] = [at |-> at, event |-> k]]
          /\ connections' = [connections EXCEPT ![n] = [connections[n] EXCEPT !.pc = "answered", !.answer = k]]
      BY <1>6, <2>1, <2>4, <3>1 DEF commitIngest, Replied, Completed, ExternalId, DeskInv, DeskTyped, Connection
    <3>3. [connections[n] EXCEPT !.pc = "answered", !.answer = k] \in Connection
      BY <2>1 DEF Connection
    <3>4. DeskTyped'
      BY <2>1, <2>2, <3>2, <3>3 DEF DeskInv, DeskTyped
    <3>5. \A j \in SettlementKeys : settlementKeys[j] = NoAnswer
      BY <3>1 DEF DeskInv, KeysAnswer
    <3>6. KeysAnswer'
      BY <2>1, <3>2, <3>5 DEF DeskInv, DeskTyped, KeysAnswer
    <3>7. RepliesSettle'
      BY <2>1, <3>1, <3>2 DEF DeskInv, DeskTyped, RepliesSettle, Settles
    <3>. QED
      BY <2>2, <3>1, <3>2, <3>4, <3>6, <3>7 DEF DeskInv, OneRow, DesksKnow, Settles
  <2>. QED BY <2>3, <2>4
<1>7. ASSUME NEW n \in Connections, answerDesk(n)
      PROVE  DeskInv'
  <2>1. connections[n].answer \in SettlementKeys \cup {"conflict", "failed"}
    BY <1>7 DEF answerDesk, DeskInv, DeskTyped, RepliesSettle, Settles, Connection
  <2>2. connections[n].answer \in {"conflict", "failed"} \/ Settles(connections[n].answer)
    BY <1>7 DEF answerDesk, DeskInv, RepliesSettle
  <2>3. \A d \in Desks : desks'[d] = desks[d] \/ desks'[d] = Told(d, connections[n].answer)
    BY <1>7 DEF answerDesk
  <2>4. \A d \in Desks : desks'[d] \in Desk /\ (desks'[d].known # "none" => Settles(desks'[d].known))
    BY <2>1, <2>2, <2>3, ToldType DEF DeskInv, DeskTyped, DesksKnow
  <2>5. /\ UNCHANGED <<claimUpdates, deskRows, waterfalled>> /\ Closed \in Connection
        /\ connections' = [connections EXCEPT ![n] = Closed] /\ desks' \in [Desks -> Desk]
    BY <1>7, <2>4 DEF answerDesk, Closed, Connection
  <2>. QED
    BY <2>4, <2>5 DEF Closed, deskRows, DeskInv, DeskTyped, OneRow, KeysAnswer, RepliesSettle, DesksKnow, Settles
<1>8. ASSUME NEW n \in Connections, dropRequest(n)
      PROVE  DeskInv'
  <2>3. \A d \in Desks : desks'[d] = desks[d] \/ desks'[d] = Told(d, "failed")
    BY <1>8 DEF dropRequest
  <2>4. \A d \in Desks : desks'[d] \in Desk /\ (desks'[d].known # "none" => Settles(desks'[d].known))
    BY <2>3, ToldType DEF DeskInv, DeskTyped, DesksKnow
  <2>5. /\ UNCHANGED <<claimUpdates, deskRows, waterfalled>> /\ Closed \in Connection
        /\ connections' = [connections EXCEPT ![n] = Closed] /\ desks' \in [Desks -> Desk]
    BY <1>8, <2>4 DEF dropRequest, Closed, Connection
  <2>. QED
    BY <2>4, <2>5 DEF Closed, deskRows, DeskInv, DeskTyped, OneRow, KeysAnswer, RepliesSettle, DesksKnow, Settles
<1>9. CASE UNCHANGED deskVars
  BY <1>9 DEF deskVars, deskRows, DeskInv, DeskTyped, OneRow, KeysAnswer, RepliesSettle, DesksKnow, Settles
<1>. QED
  BY <1>1, <1>2, <1>3, <1>4, <1>5, <1>6, <1>7, <1>8, <1>9 DEF DeskNext

(* The invariant holds in every behaviour.                                 *)
LEMMA DeskHolds == DeskSpec => []DeskInv
<1>1. DeskInit => DeskInv
  BY DeskAssumption DEF DeskInit, NoAnswer, Closed, Fresh, DeskInv, DeskTyped, OneRow, KeysAnswer,
     RepliesSettle, DesksKnow, Settles, Connection, Desk
<1>. QED
  BY <1>1, DeskStep, PTL DEF DeskSpec

(* The variables of the intake of settlements keep their types.            *)
THEOREM DeskTypeCorrect == DeskSpec => []DeskTypeOK
<1>1. DeskInv => DeskTypeOK
  BY DEF DeskInv, DeskTyped, Desk, DeskTypeOK
<1>. QED
  BY <1>1, DeskHolds, PTL

(* A claim gets one settlement, whatever tabs, keys and lost answers do,   *)
(* and what a tab knows and what the waterfall is fed is that one.         *)
THEOREM SettledOnce == DeskSpec => []OneSettlementPerClaim
<1>1. DeskInv => OneSettlementPerClaim
  <2> SUFFICES ASSUME DeskInv PROVE OneSettlementPerClaim
    OBVIOUS
  <2>1. ASSUME NEW e, Settles(e) PROVE {s.id : s \in settlements} = {e}
    BY <2>1 DEF Settles, DeskInv, OneRow
  <2>. QED
    BY <2>1 DEF DeskInv, DesksKnow, KeysAnswer, OneSettlementPerClaim
<1>. QED
  BY <1>1, DeskHolds, PTL

-----------------------------------------------------------------------------
(* The invitations. A visitor who is about to accept an invitation is the  *)
(* person it is for, and the grants are those of the accepted rows.        *)

Visitor ==
  [step : {"none", "accept", "revoke"}, person : People \cup {Founder}, id : 0..MaxInvitations]

Grant == [person : People \cup {Founder}, role : InvitedRoles, by : 0..MaxInvitations]

VisitorsTyped ==
  /\ visitors \in [Visitors -> Visitor]
  /\ \A v \in Visitors : visitors[v].step # "none" => visitors[v].id \in InvitationIds
  /\ \A v \in Visitors : visitors[v].step = "accept" =>
       visitors[v].person \in People /\ invitations[visitors[v].id].email = visitors[v].person

RowsTyped ==
  /\ invitations \in Seq(InvitationRows) /\ Len(invitations) <= MaxInvitations
  /\ expired \subseteq InvitationIds
  /\ toldRevoked \subseteq InvitationIds
  /\ \A i \in toldRevoked : invitations[i].status = "REVOKED"

(* Every grant is the founder's or comes from an accepted invitation, and  *)
(* every role of an accepted invitation is held.                           *)
Invited(g) ==
  /\ g.by \in InvitationIds /\ invitations[g.by].status = "ACCEPTED"
  /\ g.person = invitations[g.by].email /\ g.role \in invitations[g.by].roles

GrantsInvited ==
  /\ grants \subseteq Grant
  /\ \A g \in grants : (g.by = 0 /\ g.person = Founder) \/ Invited(g)
  /\ \A g, h \in grants : g.person = h.person /\ g.role = h.role => g = h
  /\ \A i \in InvitationIds : invitations[i].status = "ACCEPTED" =>
       \A r \in invitations[i].roles : \E g \in grants : g.person = invitations[i].email /\ g.role = r

InvitationInv == RowsTyped /\ VisitorsTyped /\ GrantsInvited

(* A row's status changes, and nothing else of the table.                  *)
StatusMoves(i, status) == invitations' = [invitations EXCEPT ![i].status = status]

(* The update of one row by its id, seen as an update of the table.        *)
LEMMA StatusMove ==
  ASSUME RowsTyped, NEW i \in InvitationIds, NEW status \in {"PENDING", "ACCEPTED", "REVOKED"},
         StatusMoves(i, status)
  PROVE  /\ invitations' \in Seq(InvitationRows) /\ Len(invitations') = Len(invitations)
         /\ DOMAIN invitations' = DOMAIN invitations
         /\ \A j \in InvitationIds :
              /\ invitations'[j].email = invitations[j].email
              /\ invitations'[j].roles = invitations[j].roles
              /\ invitations'[j].status = IF j = i THEN status ELSE invitations[j].status
<1> DEFINE row == [invitations[i] EXCEPT !.status = status]
<1>1. i \in 1..Len(invitations) /\ invitations \in Seq(InvitationRows) /\ invitations[i] \in InvitationRows
  BY DEF RowsTyped, InvitationIds
<1>2. row \in InvitationRows
  BY <1>1 DEF InvitationRows
<1>3. invitations' = [invitations EXCEPT ![i] = row]
  BY DEF StatusMoves
<1>4. row.email = invitations[i].email /\ row.roles = invitations[i].roles /\ row.status = status
  BY <1>1 DEF InvitationRows
<1> HIDE DEF row
<1>5. /\ invitations' \in Seq(InvitationRows) /\ Len(invitations') = Len(invitations)
      /\ \A j \in 1..Len(invitations) : invitations'[j] = IF i = j THEN row ELSE invitations[j]
  BY <1>1, <1>2, <1>3, ExceptSeq
<1>. QED
  BY <1>1, <1>4, <1>5 DEF InvitationIds

(* Every step keeps the invariant: an acceptance grants the roles of one   *)
(* row to the person the row is for, and only once.                        *)
LEMMA InvitationStep == InvitationInv /\ [InvitationNext]_invitationVars => InvitationInv'
<1> SUFFICES ASSUME InvitationInv, [InvitationNext]_invitationVars PROVE InvitationInv'
  OBVIOUS
<1> USE InvitationAssumption
<1>0. /\ invitations \in Seq(InvitationRows) /\ Len(invitations) \in Nat
      /\ InvitationIds = 1..Len(invitations) /\ Gone \in Visitor
      /\ \A i \in InvitationIds : invitations[i] \in InvitationRows
  <2>1. invitations \in Seq(InvitationRows) /\ InvitationIds = 1..Len(invitations)
    BY DEF InvitationInv, RowsTyped, InvitationIds
  <2>2. Gone \in Visitor
    BY DEF Gone, Visitor
  <2>. QED
    BY <2>1, <2>2
<1>1. CASE createInvitation
  <2>1. PICK row \in InvitationRows : /\ invitations' = Append(invitations, row)
                                      /\ row.status = "PENDING"
    BY <1>1 DEF createInvitation, InvitationRows
  <2>2. /\ UNCHANGED <<expired, grants, toldRevoked, visitors>> /\ Len(invitations) < MaxInvitations
    BY <1>1 DEF createInvitation
  <2>3. /\ invitations' \in Seq(InvitationRows) /\ Len(invitations') = Len(invitations) + 1
        /\ InvitationIds' = 1..(Len(invitations) + 1)
        /\ \A i \in InvitationIds : invitations'[i] = invitations[i]
        /\ invitations'[Len(invitations) + 1] = row
    BY <1>0, <2>1 DEF InvitationIds
  <2>4. InvitationIds \subseteq InvitationIds' /\ \A i \in InvitationIds' : i \in InvitationIds \/ i = Len(invitations) + 1
    BY <1>0, <2>3
  <2>5. RowsTyped'
    <3>1. Len(invitations') <= MaxInvitations
      BY <1>0, <2>2, <2>3
    <3>2. /\ expired \subseteq InvitationIds' /\ toldRevoked \subseteq InvitationIds'
          /\ \A i \in toldRevoked : invitations'[i].status = "REVOKED"
      BY <2>3, <2>4 DEF InvitationInv, RowsTyped
    <3>. QED
      BY <2>2, <2>3, <3>1, <3>2 DEF RowsTyped
  <2>6. VisitorsTyped'
    BY <2>2, <2>3, <2>4 DEF InvitationInv, VisitorsTyped
  <2>7. GrantsInvited'
    <3>1. \A g \in grants : (g.by = 0 /\ g.person = Founder) \/ Invited(g)'
      BY <2>3, <2>4 DEF InvitationInv, GrantsInvited, Invited
    <3>2. \A i \in InvitationIds' : invitations'[i].status = "ACCEPTED" =>
            i \in InvitationIds /\ invitations'[i] = invitations[i]
      BY <2>1, <2>3, <2>4
    <3>. QED
      BY <2>2, <3>1, <3>2 DEF InvitationInv, GrantsInvited
  <2>. QED
    BY <2>5, <2>6, <2>7 DEF InvitationInv
<1>2. CASE passExpiry
  BY <1>2 DEF passExpiry, InvitationInv, RowsTyped, VisitorsTyped, GrantsInvited, Invited, InvitationIds
<1>3. ASSUME NEW v \in Visitors, lookUp(v) \/ askRevocation(v)
      PROVE  InvitationInv'
  <2>1. UNCHANGED <<invitations, expired, grants, toldRevoked>>
    BY <1>3 DEF lookUp, askRevocation
  <2>2. PICK c : /\ visitors' = [visitors EXCEPT ![v] = c]
                 /\ \E step \in {"accept", "revoke"}, person \in People \cup {Founder}, i \in InvitationIds :
                      /\ c = [step |-> step, person |-> person, id |-> i]
                      /\ step = "accept" => person \in People /\ invitations[i].email = person
    <3>1. CASE lookUp(v)
      <4>1. PICK person \in People, i \in InvitationIds :
              /\ invitations[i].email = person
              /\ visitors' = [visitors EXCEPT ![v] = [step |-> "accept", person |-> person, id |-> i]]
        BY <3>1 DEF lookUp
      <4>. QED BY <4>1
    <3>2. CASE askRevocation(v)
      <4>1. PICK person \in People \cup {Founder}, i \in InvitationIds :
              visitors' = [visitors EXCEPT ![v] = [step |-> "revoke", person |-> person, id |-> i]]
        BY <3>2 DEF askRevocation
      <4>. QED BY <4>1
    <3>. QED BY <1>3, <3>1, <3>2
  <2>3. InvitationIds \subseteq 0..MaxInvitations
    BY <1>0 DEF InvitationInv, RowsTyped
  <2>4. /\ c \in Visitor /\ c.id \in InvitationIds
        /\ c.step = "accept" => c.person \in People /\ invitations[c.id].email = c.person
    BY <2>2, <2>3 DEF Visitor
  <2>5. VisitorsTyped'
    BY <2>1, <2>2, <2>4 DEF InvitationInv, VisitorsTyped, InvitationIds
  <2>. QED
    BY <2>1, <2>5 DEF InvitationInv, RowsTyped, GrantsInvited, Invited, InvitationIds
<1>4. ASSUME NEW v \in Visitors, visitors' = [visitors EXCEPT ![v] = Gone],
             DOMAIN invitations' = DOMAIN invitations,
             \A j \in InvitationIds : invitations'[j].email = invitations[j].email
      PROVE  VisitorsTyped'
  BY <1>0, <1>4 DEF InvitationInv, VisitorsTyped, InvitationIds, Gone
<1>5. ASSUME UNCHANGED <<invitations, expired, toldRevoked, grants>>
      PROVE  RowsTyped' /\ GrantsInvited'
  BY <1>5 DEF InvitationInv, RowsTyped, GrantsInvited, Invited, InvitationIds
<1>6. ASSUME NEW v \in Visitors, acceptInvitation(v)
      PROVE  InvitationInv'
  <2> DEFINE i == visitors[v].id
             person == visitors[v].person
             granted == NewGrants(person, i)
  <2>1. /\ i \in InvitationIds /\ person \in People /\ invitations[i].email = person
        /\ visitors' = [visitors EXCEPT ![v] = Gone] /\ UNCHANGED <<expired, toldRevoked>>
    BY <1>6 DEF acceptInvitation, InvitationInv, VisitorsTyped
  <2>2. CASE UNCHANGED <<grants, invitations>>
    <3>1. VisitorsTyped'
      BY <1>4, <2>1, <2>2
    <3>. QED
      BY <1>5, <2>1, <2>2, <3>1 DEF InvitationInv
  <2>3. CASE /\ invitations[i].status = "PENDING" /\ grants' = grants \cup granted
             /\ StatusMoves(i, "ACCEPTED")
    <3>1. /\ invitations' \in Seq(InvitationRows) /\ Len(invitations') = Len(invitations)
          /\ DOMAIN invitations' = DOMAIN invitations /\ InvitationIds' = InvitationIds
          /\ \A j \in InvitationIds :
               /\ invitations'[j].email = invitations[j].email
               /\ invitations'[j].roles = invitations[j].roles
               /\ invitations'[j].status = IF j = i THEN "ACCEPTED" ELSE invitations[j].status
      BY <2>1, <2>3, StatusMove DEF InvitationInv, InvitationIds
    <3>2. RowsTyped'
      BY <2>1, <2>3, <3>1 DEF InvitationInv, RowsTyped
    <3>3. VisitorsTyped'
      BY <1>4, <2>1, <3>1
    <3>4. /\ \A g \in granted : /\ g \in Grant /\ g.person = person /\ g.by = i
                                /\ g.role \in invitations[i].roles \ RolesOf(person)
          /\ \A r \in invitations[i].roles \ RolesOf(person) :
               \E g \in granted : g.person = person /\ g.role = r
          /\ \A g, h \in granted : g.role = h.role => g = h
      <4>1. i \in 0..MaxInvitations /\ invitations[i].roles \subseteq InvitedRoles
        BY <1>0, <2>1 DEF InvitationInv, RowsTyped, InvitationRows
      <4>2. \A r \in invitations[i].roles : [person |-> person, role |-> r, by |-> i] \in Grant
        BY <2>1, <4>1 DEF Grant
      <4>3. granted = {[person |-> person, role |-> r, by |-> i] : r \in invitations[i].roles \ RolesOf(person)}
        BY DEF NewGrants
      <4> HIDE DEF granted
      <4>4. \A g \in granted : /\ g \in Grant /\ g.person = person /\ g.by = i
                               /\ g.role \in invitations[i].roles \ RolesOf(person)
        BY <4>2, <4>3
      <4>5. \A r \in invitations[i].roles \ RolesOf(person) :
              \E g \in granted : g.person = person /\ g.role = r
        <5> TAKE r \in invitations[i].roles \ RolesOf(person)
        <5> DEFINE g == [person |-> person, role |-> r, by |-> i]
        <5>1. g \in granted
          BY <4>3
        <5>. QED
          BY <5>1
      <4>6. \A g, h \in granted : g.role = h.role => g = h
        BY <4>3
      <4>. QED
        BY <4>4, <4>5, <4>6
    <3> HIDE DEF granted
    <3>5. \A r : r \in RolesOf(person) <=> \E g \in grants : g.person = person /\ g.role = r
      BY DEF RolesOf
    <3>6. GrantsInvited'
      <4>1. grants' \subseteq Grant
        BY <2>3, <3>4 DEF InvitationInv, GrantsInvited
      <4>2. \A g \in grants' : (g.by = 0 /\ g.person = Founder) \/ Invited(g)'
        <5>1. ASSUME NEW g \in grants PROVE (g.by = 0 /\ g.person = Founder) \/ Invited(g)'
          BY <3>1 DEF InvitationInv, GrantsInvited, Invited
        <5>2. ASSUME NEW g \in granted PROVE Invited(g)'
          BY <2>1, <3>1, <3>4 DEF Invited
        <5>. QED BY <2>3, <5>1, <5>2
      <4>3. \A g, h \in grants' : g.person = h.person /\ g.role = h.role => g = h
        BY <2>3, <3>4, <3>5 DEF InvitationInv, GrantsInvited
      <4>4. ASSUME NEW j \in InvitationIds, invitations'[j].status = "ACCEPTED",
                   NEW r \in invitations'[j].roles
            PROVE  \E g \in grants' : g.person = invitations'[j].email /\ g.role = r
        <5>1. CASE j = i
          BY <2>1, <2>3, <3>1, <3>4, <3>5, <4>4, <5>1
        <5>2. CASE j # i
          BY <2>3, <3>1, <4>4, <5>2 DEF InvitationInv, GrantsInvited
        <5>. QED BY <5>1, <5>2
      <4>. QED
        BY <3>1, <4>1, <4>2, <4>3, <4>4 DEF GrantsInvited
    <3>. QED
      BY <3>2, <3>3, <3>6 DEF InvitationInv
  <2>. QED
    BY <1>6, <2>2, <2>3 DEF acceptInvitation, StillUsable, StatusMoves
<1>7. ASSUME NEW v \in Visitors, revokeInvitation(v)
      PROVE  InvitationInv'
  <2> DEFINE i == visitors[v].id
  <2>1. /\ i \in InvitationIds /\ UNCHANGED <<expired, grants>>
        /\ visitors' = [visitors EXCEPT ![v] = Gone]
    BY <1>7 DEF revokeInvitation, InvitationInv, VisitorsTyped
  <2>2. CASE UNCHANGED <<invitations, toldRevoked>>
    <3>1. VisitorsTyped'
      BY <1>4, <2>1, <2>2
    <3>. QED
      BY <1>5, <2>1, <2>2, <3>1 DEF InvitationInv
  <2>3. CASE /\ invitations[i].status # "ACCEPTED" /\ toldRevoked' = toldRevoked \cup {i}
             /\ StatusMoves(i, "REVOKED")
    <3>1. /\ invitations' \in Seq(InvitationRows) /\ Len(invitations') = Len(invitations)
          /\ DOMAIN invitations' = DOMAIN invitations /\ InvitationIds' = InvitationIds
          /\ \A j \in InvitationIds :
               /\ invitations'[j].email = invitations[j].email
               /\ invitations'[j].roles = invitations[j].roles
               /\ invitations'[j].status = IF j = i THEN "REVOKED" ELSE invitations[j].status
      BY <2>1, <2>3, StatusMove DEF InvitationInv, InvitationIds
    <3>2. RowsTyped'
      BY <2>1, <2>3, <3>1 DEF InvitationInv, RowsTyped
    <3>3. VisitorsTyped'
      BY <1>4, <2>1, <3>1
    <3>4. GrantsInvited'
      BY <2>1, <2>3, <3>1 DEF InvitationInv, GrantsInvited, Invited
    <3>. QED
      BY <3>2, <3>3, <3>4 DEF InvitationInv
  <2>. QED
    BY <1>7, <2>2, <2>3 DEF revokeInvitation, StatusMoves
<1>8. CASE UNCHANGED invitationVars
  BY <1>8 DEF invitationVars, InvitationInv, RowsTyped, VisitorsTyped, GrantsInvited, Invited, InvitationIds
<1>. QED
  BY <1>1, <1>2, <1>3, <1>6, <1>7, <1>8 DEF InvitationNext

(* The invariant holds in every behaviour.                                 *)
LEMMA InvitationHolds == InvitationSpec => []InvitationInv
<1>1. InvitationInit => InvitationInv
  BY InvitationAssumption DEF InvitationInit, InvitationInv, RowsTyped, VisitorsTyped, GrantsInvited,
     Invited, InvitationIds, Gone, Visitor, Grant
<1>. QED
  BY <1>1, InvitationStep, PTL DEF InvitationSpec

(* The variables of the invitations keep their types.                      *)
THEOREM InvitationTypeCorrect == InvitationSpec => []InvitationTypeOK
<1>1. InvitationInv => InvitationTypeOK
  BY DEF InvitationInv, RowsTyped, VisitorsTyped, GrantsInvited, Visitor, Grant, InvitationTypeOK
<1>. QED
  BY <1>1, InvitationHolds, PTL

(* A member holds exactly the roles of the invitations accepted for the    *)
(* member's address, each once, and none of an invitation of which an      *)
(* administrator was told that it is revoked.                              *)
THEOREM MembersWereInvited == InvitationSpec => []InvitedOnly
<1>1. InvitationInv => InvitedOnly
  <2> SUFFICES ASSUME InvitationInv PROVE InvitedOnly
    OBVIOUS
  <2>1. ASSUME NEW person \in People
        PROVE  RolesOf(person) = UNION {invitations[i].roles :
                 i \in {j \in InvitationIds : invitations[j].status = "ACCEPTED"
                                              /\ invitations[j].email = person}}
    <3>1. person # Founder
      BY InvitationAssumption
    <3>2. \A g \in grants : g.person = person => Invited(g)
      BY <3>1 DEF InvitationInv, GrantsInvited
    <3>. QED
      BY <3>2 DEF RolesOf, InvitationInv, GrantsInvited, Invited
  <2>2. \A g \in grants : g.by \notin toldRevoked
    <3>1. 0 \notin InvitationIds
      BY DEF InvitationIds, InvitationInv, RowsTyped
    <3>. QED
      BY <3>1 DEF InvitationInv, GrantsInvited, Invited, RowsTyped
  <2>. QED
    BY <2>1, <2>2 DEF InvitedOnly, InvitationInv, GrantsInvited
<1>. QED
  BY <1>1, InvitationHolds, PTL

-----------------------------------------------------------------------------
(* The demo module. The answers of the keys and those that were given      *)
(* name a spike that is stored, and no claim is at the version of its      *)
(* spike any more.                                                         *)

DemoStates == {"DRAFT", "FUNDED", "SETTLING", "PAUSED", "REPAID"}

Tenant == [scenario : DemoScenarios, claimState : DemoStates, version : Nat \ {0}]

Tab == [step : {"none", "ask", "inject"}, tenant : ResetKeys \cup {"none"}, role : {"NONE", "ORIGINATOR", "RESOLVER", "SYSTEM"},
        key : SpikeKeys \cup {"none"}, seen : Nat]

Spike == [id : Nat, tenant : ResetKeys, key : SpikeKeys, at : Nat]

SpikedBy(t, key, id) == \E s \in spikes : s.id = id /\ s.tenant = t /\ s.key = key

DemoTyped ==
  /\ tenants \in [ResetKeys -> Tenant \cup {Unseeded}]
  /\ spikes \subseteq Spike /\ IsFiniteSet(spikes)
  /\ spikeKeys \in [ResetKeys \X SpikeKeys -> Nat]
  /\ \A b \in Tabs : tabs[b] # NoTab => tabs[b].tenant \in Seeded /\ tabs[b].key \in SpikeKeys
  /\ tabs \in [Tabs -> Tab]

SpikesStand ==
  /\ \A s, t \in spikes : s.tenant = t.tenant => s = t
  /\ \A s \in spikes : tenants[s.tenant].version > s.at

KeysSpike ==
  \A t \in ResetKeys, key \in SpikeKeys :
    spikeKeys[<<t, key>>] # 0 => SpikedBy(t, key, spikeKeys[<<t, key>>])

AnswersSpike == \A a \in spikeTold : SpikedBy(a.tenant, a.key, a.spike)

DemoInv == DemoTyped /\ SpikesStand /\ KeysSpike /\ AnswersSpike

(* Every step keeps the invariant: a spike is injected only where there    *)
(* is none, and the version it was injected at is left behind.             *)
LEMMA DemoStep == DemoInv /\ [DemoNext]_demoVars => DemoInv'
<1> SUFFICES ASSUME DemoInv, [DemoNext]_demoVars PROVE DemoInv'
  OBVIOUS
<1>0. /\ Unseeded \notin Tenant
      /\ \A t \in Seeded : tenants[t] \in Tenant
      /\ \A t \in ResetKeys \ Seeded : tenants[t] = Unseeded /\ tenants[t].version = 0
      /\ \A s \in spikes : s.tenant \in Seeded
  BY DEF Unseeded, Tenant, Seeded, DemoInv, DemoTyped, SpikesStand, Spike
<1>1. ASSUME UNCHANGED <<spikes, spikeKeys, spikeTold, tabs>>,
             tenants' \in [ResetKeys -> Tenant \cup {Unseeded}],
             \A t \in Seeded : tenants'[t] # Unseeded /\ tenants'[t].version >= tenants[t].version
      PROVE  DemoInv'
  <2>1. Seeded \subseteq Seeded'
    BY <1>1 DEF Seeded
  <2>2. DemoTyped'
    BY <1>1, <2>1 DEF DemoInv, DemoTyped
  <2>3. SpikesStand'
    <3>1. \A s \in spikes : s.at \in Nat /\ tenants[s.tenant].version \in Nat /\ tenants'[s.tenant].version \in Nat
      BY <1>0, <1>1 DEF DemoInv, DemoTyped, Spike, Tenant, Unseeded
    <3>2. \A s \in spikes : tenants'[s.tenant].version > s.at
      BY <1>0, <1>1, <3>1 DEF DemoInv, SpikesStand
    <3>. QED
      BY <1>1, <3>2 DEF DemoInv, SpikesStand
  <2>. QED
    BY <1>1, <2>2, <2>3 DEF DemoInv, KeysSpike, AnswersSpike, SpikedBy
<1>2. CASE resetDemo
  <2>1. PICK t \in ResetKeys \ Seeded, scenario \in DemoScenarios :
          tenants' = [tenants EXCEPT ![t] = [scenario |-> scenario, claimState |-> "DRAFT", version |-> 1]]
    BY <1>2 DEF resetDemo, Repeats
  <2>2. [scenario |-> scenario, claimState |-> "DRAFT", version |-> 1] \in Tenant
    BY DEF Tenant, DemoStates
  <2>3. \A u \in Seeded : tenants'[u] = tenants[u] /\ tenants[u].version \in Nat /\ tenants[u] # Unseeded
    BY <1>0, <2>1 DEF Tenant, Seeded, DemoInv, DemoTyped
  <2>. QED
    BY <1>1, <1>2, <2>1, <2>2, <2>3 DEF resetDemo, DemoInv, DemoTyped
<1>3. CASE advanceClaim
  <2>1. PICK t \in Seeded, m \in ClaimMoves :
          tenants' = [tenants EXCEPT ![t].claimState = m[2], ![t].version = @ + 1]
    BY <1>3 DEF advanceClaim
  <2> DEFINE moved == [scenario |-> tenants[t].scenario, claimState |-> m[2], version |-> tenants[t].version + 1]
  <2>2. m[2] \in DemoStates
    BY DEF ClaimMoves, DemoStates
  <2>3. moved \in Tenant /\ moved.version >= tenants[t].version
    BY <1>0, <2>2 DEF Tenant
  <2>4. tenants' = [tenants EXCEPT ![t] = moved]
    <3>1. t \in ResetKeys /\ tenants[t] \in Tenant
      BY <1>0 DEF Seeded
    <3>. QED
      BY <2>1, <3>1 DEF DemoInv, DemoTyped, Tenant
  <2> HIDE DEF moved
  <2>5. \A u \in Seeded : tenants'[u] # Unseeded /\ tenants'[u].version >= tenants[u].version
    BY <1>0, <2>3, <2>4 DEF Seeded, DemoInv, DemoTyped, Tenant
  <2>. QED
    BY <1>1, <1>3, <2>3, <2>4, <2>5 DEF advanceClaim, DemoInv, DemoTyped
<1>4. ASSUME NEW b \in Tabs, openSession(b) \/ closeTab(b) PROVE DemoInv'
  <2>1. /\ UNCHANGED <<tenants, spikes, spikeKeys, spikeTold>>
        /\ \E v \in Tab : tabs' = [tabs EXCEPT ![b] = v] /\ (v # NoTab => v.tenant \in Seeded /\ v.key \in SpikeKeys)
    <3>1. CASE openSession(b)
      <4>1. PICK t \in Seeded, role \in {"ORIGINATOR", "RESOLVER", "SYSTEM"}, key \in SpikeKeys :
              tabs' = [tabs EXCEPT ![b] =
                [step |-> "ask", tenant |-> t, role |-> role, key |-> key, seen |-> tenants[t].version]]
        BY <3>1 DEF openSession, HasActor
      <4> DEFINE v == [step |-> "ask", tenant |-> t, role |-> role, key |-> key, seen |-> tenants[t].version]
      <4>2. v \in Tab /\ v.tenant \in Seeded /\ v.key \in SpikeKeys
        BY <1>0 DEF Tab, Tenant, Seeded
      <4>. QED
        BY <3>1, <4>1, <4>2 DEF openSession
    <3>2. CASE closeTab(b)
      <4>1. NoTab \in Tab
        BY DEF NoTab, Tab
      <4>. QED
        BY <3>2, <4>1 DEF closeTab
    <3>. QED
      BY <1>4, <3>1, <3>2
  <2>. QED
    BY <2>1 DEF Seeded, DemoInv, DemoTyped, SpikesStand, KeysSpike, AnswersSpike, SpikedBy
<1>5. ASSUME NEW b \in Tabs, lookUpKey(b) PROVE DemoInv'
  <2> DEFINE c == tabs[b]
  <2>1. UNCHANGED <<tenants, spikes, spikeKeys>> /\ c # NoTab /\ c.tenant \in Seeded /\ c.key \in SpikeKeys
    BY <1>5 DEF lookUpKey, NoTab, DemoInv, DemoTyped
  <2>2. \/ spikeTold' = spikeTold
        \/ /\ spikeKeys[<<c.tenant, c.key>>] # 0
           /\ spikeTold' = spikeTold \cup
                {[tenant |-> c.tenant, key |-> c.key, spike |-> spikeKeys[<<c.tenant, c.key>>]]}
    BY <1>5 DEF lookUpKey, Answer
  <2>3. AnswersSpike'
    BY <2>1, <2>2 DEF DemoInv, AnswersSpike, KeysSpike, SpikedBy, Seeded
  <2>4. /\ tabs' \in [Tabs -> Tab]
        /\ \A d \in Tabs : tabs'[d] = NoTab \/ (tabs'[d].tenant = tabs[d].tenant /\ tabs'[d].key = tabs[d].key /\ tabs[d] # NoTab)
    <3>1. \/ tabs' = [tabs EXCEPT ![b] = NoTab]
          \/ tabs' = [tabs EXCEPT ![b] = [c EXCEPT !.step = "inject"]]
      BY <1>5 DEF lookUpKey, DemoInv, DemoTyped
    <3> DEFINE on == [c EXCEPT !.step = "inject"]
    <3>2. c \in Tab /\ on \in Tab /\ on.tenant = c.tenant /\ on.key = c.key
      BY DEF Tab, DemoInv, DemoTyped
    <3>3. NoTab \in Tab
      BY DEF NoTab, Tab
    <3> HIDE DEF on
    <3>. QED
      BY <2>1, <3>1, <3>2, <3>3 DEF on, DemoInv, DemoTyped
  <2>5. DemoTyped'
    BY <2>1, <2>4 DEF DemoInv, DemoTyped, Seeded
  <2>. QED
    BY <2>1, <2>3, <2>5 DEF DemoInv, SpikesStand, KeysSpike, SpikedBy
<1>6. ASSUME NEW b \in Tabs, injectSpike(b) PROVE DemoInv'
  <2> DEFINE c == tabs[b]
             t == c.tenant
             id == Cardinality(spikes) + 1
             spike == [id |-> id, tenant |-> t, key |-> c.key, at |-> tenants[t].version]
  <2>1. c # NoTab /\ t \in Seeded /\ t \in ResetKeys /\ c.key \in SpikeKeys /\ tabs' = [tabs EXCEPT ![b] = NoTab]
    BY <1>6 DEF injectSpike, NoTab, DemoInv, DemoTyped, Seeded
  <2>2. tabs' \in [Tabs -> Tab] /\ \A d \in Tabs : tabs'[d] = NoTab \/ tabs'[d] = tabs[d]
    <3>1. NoTab \in Tab
      BY DEF NoTab, Tab
    <3>. QED
      BY <2>1, <3>1 DEF DemoInv, DemoTyped
  <2>3. CASE UNCHANGED <<spikes, spikeKeys, tenants, spikeTold>>
    BY <2>1, <2>2, <2>3 DEF DemoInv, DemoTyped, SpikesStand, KeysSpike, AnswersSpike, SpikedBy, Seeded
  <2>4. CASE /\ ~ Injected(t) /\ spikes' = spikes \cup {spike}
             /\ spikeKeys' = [spikeKeys EXCEPT ![<<t, c.key>>] = id]
             /\ tenants' = [tenants EXCEPT ![t].version = @ + 1]
             /\ spikeTold' = spikeTold \cup {[tenant |-> t, key |-> c.key, spike |-> id]}
    <3>1. id \in Nat /\ tenants[t] \in Tenant /\ tenants[t].version \in Nat
      BY <1>0, <2>1, FS_CardinalityType DEF DemoInv, DemoTyped, Tenant
    <3>2. spike \in Spike /\ IsFiniteSet(spikes')
      BY <2>1, <2>4, <3>1, FS_AddElement DEF Spike, DemoInv, DemoTyped
    <3> HIDE DEF id
    <3> DEFINE moved == [tenants[t] EXCEPT !.version = @ + 1]
    <3>3. moved \in Tenant /\ moved.version = tenants[t].version + 1 /\ tenants' = [tenants EXCEPT ![t] = moved]
      BY <2>4, <3>1 DEF Tenant
    <3> HIDE DEF moved
    <3>4. Seeded \subseteq Seeded' /\ tenants' \in [ResetKeys -> Tenant \cup {Unseeded}]
      BY <1>0, <2>1, <3>3 DEF DemoInv, DemoTyped, Seeded
    <3>5. spike.id = id /\ spike.tenant = t /\ spike.key = c.key /\ spike.at = tenants[t].version
      OBVIOUS
    <3> HIDE DEF spike
    <3>6. DemoTyped'
      BY <2>1, <2>2, <2>4, <3>1, <3>2, <3>4 DEF DemoInv, DemoTyped
    <3>7. \A s \in spikes : s.tenant # t
      BY <2>4 DEF Injected, SpikesOf
    <3>8. SpikesStand'
      <4>1. \A s \in spikes : tenants'[s.tenant] = tenants[s.tenant]
        BY <3>3, <3>7 DEF DemoInv, DemoTyped, Spike
      <4>2. tenants'[t].version > spike.at
        BY <2>1, <3>1, <3>3, <3>5 DEF DemoInv, DemoTyped
      <4>. QED
        BY <2>4, <3>5, <3>7, <4>1, <4>2 DEF DemoInv, SpikesStand
    <3>9. \A u, key, i : SpikedBy(u, key, i) \/ (u = t /\ key = c.key /\ i = id) => SpikedBy(u, key, i)'
      BY <2>4, <3>5 DEF SpikedBy
    <3>10. KeysSpike'
      <4>1. \A u \in ResetKeys, key \in SpikeKeys :
              \/ u = t /\ key = c.key /\ spikeKeys'[<<u, key>>] = id
              \/ spikeKeys'[<<u, key>>] = spikeKeys[<<u, key>>]
        BY <2>1, <2>4 DEF DemoInv, DemoTyped
      <4>. QED
        BY <3>9, <4>1 DEF DemoInv, KeysSpike
    <3>11. AnswersSpike'
      BY <2>4, <3>9 DEF DemoInv, AnswersSpike
    <3>. QED
      BY <3>6, <3>8, <3>10, <3>11 DEF DemoInv
  <2>. QED
    BY <1>6, <2>3, <2>4 DEF injectSpike, Answer
<1>7. CASE UNCHANGED demoVars
  BY <1>7 DEF demoVars, DemoInv, DemoTyped, SpikesStand, KeysSpike, AnswersSpike, SpikedBy, Seeded
<1>. QED
  BY <1>2, <1>3, <1>4, <1>5, <1>6, <1>7 DEF DemoNext

(* The invariant holds in every behaviour.                                 *)
LEMMA DemoHolds == DemoSpec => []DemoInv
<1>1. DemoInit => DemoInv
  BY FS_EmptySet DEF DemoInit, NoTab, Tab, Unseeded, DemoInv, DemoTyped, SpikesStand, KeysSpike, AnswersSpike, SpikedBy, Seeded
<1>. QED
  BY <1>1, DemoStep, PTL DEF DemoSpec

(* The variables of the demo module keep their types.                      *)
THEOREM DemoTypeCorrect == DemoSpec => []DemoTypeOK
<1>1. DemoInv => DemoTypeOK
  <2>1. DemoStates = {m[1] : m \in ClaimMoves} \union {"REPAID"}
    BY DEF DemoStates, ClaimMoves
  <2>. QED
    BY <2>1 DEF DemoInv, DemoTyped, DemoTypeOK, Tenant, Spike, Seeded
<1>. QED
  BY <1>1, DemoHolds, PTL

(* A claim of a reset gets at most one refund spike, stays beyond it, and  *)
(* every key is answered with the spike it made.                           *)
THEOREM SpikedOnce == DemoSpec => []OneSpike
<1>1. DemoInv => OneSpike
  BY DEF DemoInv, SpikesStand, AnswersSpike, SpikedBy, OneSpike
<1>. QED
  BY <1>1, DemoHolds, PTL

-----------------------------------------------------------------------------
(* The marketplace ledger. A snapshot keeps what it may load: runs and     *)
(* events are only added, and the run of a file that an ingestion is about *)
(* to store is not there before. So a snapshot whose boundary and cutoff   *)
(* are not before its predecessor's includes all that one included, and    *)
(* what it adds is the rest.                                               *)

AllRows == UNION {Rows(file) : file \in Files}
Run == [createdAt : 0..MaxStarts, blocks : BOOLEAN]
Event == [row : AllRows, createdAt : Nat]
Ingestor == [pc : {"idle", "run", "rows"}, file : Files \cup {<<>>}, createdAt : 0..MaxStarts,
             accepted : SUBSET AllRows, blocks : BOOLEAN, left : SUBSET Nat]
SnapshotRow == [file : Files, cutoff : Cutoffs, predecessor : Nat, included : SUBSET AllRows,
                gross : Int, blocks : BOOLEAN]

LedgerTyped ==
  /\ runs \in [Files -> Run] /\ starts \in 0..MaxStarts
  /\ events \subseteq Event /\ IsFiniteSet(events) /\ \A e \in events : e.createdAt \in 1..starts
  /\ ingestors \in [Ingestors -> Ingestor] /\ snapshots \in Seq(SnapshotRow)

(* What an ingestion holds: rows of its file, and, from the insertion of   *)
(* its run on, the only claim to that file.                                *)
IngestorFits(g) ==
  /\ IsFiniteSet(g.accepted) /\ g.accepted \subseteq Rows(g.file) /\ g.left \subseteq 1..Len(g.file)
  /\ g.pc # "idle" => g.file \in Files /\ g.createdAt \in 1..starts
  /\ g.pc = "rows" => ~ HasReport(g.file)

IngestorsFit ==
  /\ \A i \in Ingestors : IngestorFits(ingestors[i])
  /\ \A i, j \in Ingestors :
       ingestors[i].pc = "rows" /\ ingestors[j].pc = "rows" /\ ingestors[i].file = ingestors[j].file => i = j

(* What a snapshot includes is still there to be loaded.                   *)
SnapshotFits(s) ==
  HasReport(s.file) /\ IsFiniteSet(s.included) /\ s.included \subseteq loadEvents(s.file, s.cutoff)

SnapshotsFit ==
  \A n \in 1..Len(snapshots) : snapshots[n].predecessor \in 0..(n - 1) /\ SnapshotFits(snapshots[n])

LedgerInv == LedgerTyped /\ IngestorsFit /\ SnapshotsFit /\ SnapshotAddsUp

(* Runs and events are only ever added.                                    *)
StoreGrows ==
  /\ \A file \in Files : HasReport(file) => runs'[file] = runs[file]
  /\ events \subseteq events'

LEMMA RowAmount == \A r \in AllRows : r.amount \in Int
BY LedgerAssumption DEF AllRows, Rows

LEMMA TotalSplit ==
  ASSUME NEW S \in SUBSET AllRows, IsFiniteSet(S), NEW T \in SUBSET S
  PROVE  Total(S) = Total(T) + Total(S \ T) /\ Total(S) \in Int
<1> DEFINE f == [r \in S |-> r.amount]
           Amounts(U) == [r \in U |-> r.amount]
<1>1. \A r \in S : f[r] \in Int
  BY RowAmount
<1>2. IsFiniteSet(T) /\ IsFiniteSet(S \ T)
  BY FS_Subset
<1>3. SumFunctionOnSet(f, S) = SumFunctionOnSet(f, T) + SumFunctionOnSet(f, S \ T)
  BY <1>1, SumSplit
<1>4. SumFunctionOnSet(f, T) = SumFunctionOnSet(Amounts(T), T)
  <2>1. \A r \in T : f[r] = Amounts(T)[r]
    OBVIOUS
  <2> HIDE DEF f, Amounts
  <2>. QED BY <1>2, <2>1, SumSame
<1>5. SumFunctionOnSet(f, S \ T) = SumFunctionOnSet(Amounts(S \ T), S \ T)
  <2>1. \A r \in S \ T : f[r] = Amounts(S \ T)[r]
    OBVIOUS
  <2> HIDE DEF f, Amounts
  <2>. QED BY <1>2, <2>1, SumSame
<1>6. SumFunctionOnSet(f, S) \in Int
  BY <1>1, SumInt
<1>. QED
  BY <1>3, <1>4, <1>5, <1>6 DEF Total

LEMMA NothingTotals == Total({}) = 0
BY SumEmpty DEF Total

(* A snapshot that fits goes on to fit.                                    *)
LEMMA LoadGrows ==
  ASSUME StoreGrows, NEW file \in Files, HasReport(file), NEW cutoff
  PROVE  loadEvents(file, cutoff) \subseteq loadEvents(file, cutoff)' /\ HasReport(file)'
<1>1. runs'[file] = runs[file]
  BY DEF StoreGrows
<1>2. HasReport(file)'
  BY <1>1 DEF HasReport
<1>3. ASSUME NEW e \in events, e.row.at <= cutoff, e.createdAt <= runs[file].createdAt
      PROVE  e.row \in loadEvents(file, cutoff)'
  BY <1>1, <1>3 DEF StoreGrows, loadEvents
<1>. QED
  BY <1>2, <1>3 DEF loadEvents

LEMMA SnapshotRests ==
  ASSUME StoreGrows, NEW s, s.file \in Files, SnapshotFits(s)
  PROVE  SnapshotFits(s)'
BY LoadGrows DEF SnapshotFits

LEMMA SnapshotIs ==
  ASSUME LedgerInv, NEW n \in 1..Len(snapshots)
  PROVE  /\ snapshots[n] \in SnapshotRow /\ snapshots[n].file \in Files /\ snapshots[n].predecessor \in 0..(n - 1)
         /\ SnapshotFits(snapshots[n])
<1>1. snapshots[n] \in SnapshotRow
  BY DEF LedgerInv, LedgerTyped
<1>2. snapshots[n].file \in Files
  BY <1>1 DEF SnapshotRow
<1>. QED
  BY <1>1, <1>2 DEF LedgerInv, SnapshotsFit

(* A chain of snapshots that goes on did so before.                        *)
LEMMA WentOn ==
  ASSUME LedgerInv, StoreGrows, NEW n \in 1..Len(snapshots), GoesOn(n)',
         Len(snapshots) <= Len(snapshots'), \A m \in 1..Len(snapshots) : snapshots'[m] = snapshots[m]
  PROVE  GoesOn(n)
<1>0. Len(snapshots) \in Nat
  BY DEF LedgerInv, LedgerTyped
<1>1. PICK chain \in SUBSET (1..n) :
        /\ n \in chain
        /\ \A m \in chain :
             \/ snapshots'[m].predecessor = 0
             \/ /\ snapshots'[m].predecessor \in chain
                /\ runs'[snapshots'[snapshots'[m].predecessor].file].createdAt <= runs'[snapshots'[m].file].createdAt
  BY DEF GoesOn
<1>2. ASSUME NEW m \in chain
      PROVE  /\ m \in 1..Len(snapshots) /\ snapshots'[m] = snapshots[m]
             /\ runs'[snapshots[m].file] = runs[snapshots[m].file]
  <2>1. m \in 1..Len(snapshots)
    BY <1>0
  <2>2. snapshots[m].file \in Files /\ HasReport(snapshots[m].file)
    BY <2>1, SnapshotIs DEF SnapshotFits
  <2>. QED
    BY <2>1, <2>2 DEF StoreGrows
<1>3. ASSUME NEW m \in chain
      PROVE  \/ snapshots[m].predecessor = 0
             \/ /\ snapshots[m].predecessor \in chain
                /\ runs[snapshots[snapshots[m].predecessor].file].createdAt <= runs[snapshots[m].file].createdAt
  <2>1. CASE snapshots'[m].predecessor = 0
    BY <1>2, <2>1
  <2>2. CASE snapshots'[m].predecessor # 0
    <3>1. PICK p : p = snapshots[m].predecessor
      OBVIOUS
    <3>2. p \in chain /\ runs'[snapshots'[p].file].createdAt <= runs'[snapshots'[m].file].createdAt
      BY <1>1, <1>2, <2>2, <3>1
    <3>3. snapshots'[p] = snapshots[p] /\ runs'[snapshots[p].file] = runs[snapshots[p].file]
      BY <1>2, <3>2
    <3>. QED
      BY <1>2, <3>1, <3>2, <3>3
  <2>. QED
    BY <2>1, <2>2
<1>. QED
  BY <1>1, <1>3 DEF GoesOn

(* A step of an ingestion leaves the snapshots what they are.              *)
LEMMA SnapshotsStay ==
  ASSUME LedgerInv, StoreGrows, UNCHANGED snapshots
  PROVE  SnapshotsFit' /\ SnapshotAddsUp'
<1>0. Len(snapshots) \in Nat
  BY DEF LedgerInv, LedgerTyped
<1>1. ASSUME NEW n \in 1..Len(snapshots)
      PROVE  snapshots[n].predecessor \in 0..(n - 1) /\ SnapshotFits(snapshots[n])'
  <2>1. PICK s : s = snapshots[n]
    OBVIOUS
  <2>2. s.file \in Files /\ SnapshotFits(s) /\ s.predecessor \in 0..(n - 1)
    BY <2>1, SnapshotIs
  <2>3. SnapshotFits(s)'
    BY <2>2, SnapshotRests
  <2>. QED
    BY <2>1, <2>2, <2>3 DEF SnapshotFits, HasReport, loadEvents
<1>2. SnapshotsFit'
  BY <1>1 DEF SnapshotsFit
<1>3. ASSUME NEW n \in 1..Len(snapshots), GoesOn(n)' PROVE GoesOn(n)
  BY <1>0, <1>3, WentOn
<1>4. SnapshotAddsUp'
  BY <1>3 DEF LedgerInv, SnapshotAddsUp, Total
<1>. QED
  BY <1>2, <1>4

LEMMA StoreRests ==
  ASSUME UNCHANGED <<runs, events>>
  PROVE  StoreGrows
BY DEF StoreGrows

(* An ingestion goes on beside the others.                                 *)
LEMMA IngestorGoes ==
  ASSUME LedgerInv, UNCHANGED runs, starts' \in Nat, starts <= starts', NEW i \in Ingestors, NEW g \in Ingestor,
         ingestors' = [ingestors EXCEPT ![i] = g], IngestorFits(g)',
         g.pc = "rows" => \A j \in Ingestors \ {i} : ingestors[j].pc = "rows" => ingestors[j].file # g.file
  PROVE  IngestorsFit' /\ ingestors' \in [Ingestors -> Ingestor]
<1>1. /\ ingestors' \in [Ingestors -> Ingestor]
      /\ \A j \in Ingestors : ingestors'[j] = IF j = i THEN g ELSE ingestors[j]
  BY DEF LedgerInv, LedgerTyped
<1>2. ASSUME NEW j \in Ingestors PROVE IngestorFits(ingestors[j])'
  <2>1. PICK v : v = ingestors'[j]
    OBVIOUS
  <2>2. CASE j = i
    BY <1>1, <2>2 DEF IngestorFits, HasReport
  <2>3. CASE j # i
    <3>1. v = ingestors[j] /\ IngestorFits(v)
      BY <1>1, <2>1, <2>3 DEF LedgerInv, IngestorsFit
    <3>2. starts \in Nat /\ (v.createdAt \in 1..starts => v.createdAt \in 1..starts')
      BY LedgerAssumption DEF LedgerInv, LedgerTyped
    <3>. QED
      BY <2>1, <3>1, <3>2 DEF IngestorFits, HasReport
  <2>. QED
    BY <2>2, <2>3
<1>3. IngestorsFit'
  BY <1>1, <1>2 DEF LedgerInv, IngestorsFit
<1>. QED
  BY <1>1, <1>3

LEMMA Idle == IdleIngestor \in Ingestor /\ IdleIngestor.pc = "idle" /\ IngestorFits(IdleIngestor)'
<1>1. IsFiniteSet({})
  BY FS_EmptySet
<1>. QED
  BY <1>1, LedgerAssumption DEF IdleIngestor, Ingestor, IngestorFits

LEMMA StartStays ==
  ASSUME LedgerInv, NEW i \in Ingestors, NEW file \in Files, start(i, file)
  PROVE  LedgerInv'
<1>1. /\ UNCHANGED <<runs, events, snapshots>> /\ starts' = starts + 1 /\ starts < MaxStarts /\ starts \in Nat
      /\ MaxStarts \in Nat
  BY LedgerAssumption DEF start, LedgerInv, LedgerTyped
<1>2. PICK g : g = [IdleIngestor EXCEPT !.pc = "run", !.file = file, !.createdAt = starts']
  OBVIOUS
<1>3. starts' \in 0..MaxStarts /\ starts' \in 1..starts'
  BY <1>1
<1>4. /\ g \in Ingestor /\ g.pc = "run" /\ g.file = file /\ g.createdAt = starts' /\ g.accepted = {} /\ g.left = {}
  BY <1>2, <1>3 DEF IdleIngestor, Ingestor
<1>5. IngestorFits(g)'
  BY <1>3, <1>4, FS_EmptySet DEF IngestorFits
<1>6. IngestorsFit' /\ ingestors' \in [Ingestors -> Ingestor]
  <2>1. ingestors' = [ingestors EXCEPT ![i] = g] /\ starts' \in Nat /\ starts <= starts'
    BY <1>1, <1>2 DEF start
  <2>. QED
    BY <1>1, <1>4, <1>5, <2>1, IngestorGoes
<1>7. SnapshotsFit' /\ SnapshotAddsUp'
  BY <1>1, StoreRests, SnapshotsStay
<1>8. LedgerTyped'
  BY <1>1, <1>3, <1>6 DEF LedgerInv, LedgerTyped
<1>. QED
  BY <1>6, <1>7, <1>8 DEF LedgerInv

(* A step of an ingestion that commits nothing.                            *)
LEMMA IngestionStep ==
  ASSUME LedgerInv, UNCHANGED <<runs, events, starts, snapshots>>, NEW i \in Ingestors, NEW g \in Ingestor,
         ingestors' = [ingestors EXCEPT ![i] = g], IngestorFits(g)',
         g.pc = "rows" => \A j \in Ingestors \ {i} : ingestors[j].pc = "rows" => ingestors[j].file # g.file
  PROVE  LedgerInv'
<1>1. starts' \in Nat /\ starts <= starts'
  BY LedgerAssumption DEF LedgerInv, LedgerTyped
<1>2. IngestorsFit' /\ ingestors' \in [Ingestors -> Ingestor]
  BY <1>1, IngestorGoes
<1>3. SnapshotsFit' /\ SnapshotAddsUp'
  BY StoreRests, SnapshotsStay
<1>. QED
  BY <1>2, <1>3 DEF LedgerInv, LedgerTyped

LEMMA InsertRunStays ==
  ASSUME LedgerInv, NEW i \in Ingestors, insertRun(i)
  PROVE  LedgerInv'
<1>1. PICK g : g = ingestors[i]
  OBVIOUS
<1>2. g \in Ingestor /\ g.pc = "run" /\ IngestorFits(g) /\ UNCHANGED <<runs, events, starts, snapshots>>
  BY <1>1 DEF insertRun, IngestorAt, LedgerInv, LedgerTyped, IngestorsFit
<1>3. CASE ~ HasReport(g.file)
  <2>1. PICK v : v = [g EXCEPT !.pc = "rows", !.left = Parsed(g.file), !.blocks = Inconsistent(g.file)]
    OBVIOUS
  <2>2. /\ v.pc = "rows" /\ v.file = g.file /\ v.createdAt = g.createdAt /\ v.accepted = g.accepted
        /\ v.left = Parsed(g.file)
    BY <1>2, <2>1 DEF Ingestor
  <2>3. v \in Ingestor /\ Parsed(g.file) \subseteq 1..Len(g.file)
    <3>1. Parsed(g.file) \subseteq 1..Len(g.file) /\ 1..Len(g.file) \subseteq Nat
      BY DEF Parsed
    <3>2. Inconsistent(g.file) \in BOOLEAN
      BY DEF Inconsistent
    <3>. QED
      BY <1>2, <2>1, <3>1, <3>2 DEF Ingestor
  <2>4. IngestorFits(v)'
    BY <1>2, <1>3, <2>2, <2>3 DEF IngestorFits, HasReport
  <2>5. ingestors' = [ingestors EXCEPT ![i] = v]
    BY <1>1, <1>3, <2>1 DEF insertRun, HasReport
  <2>6. \A j \in Ingestors : ingestors[j].pc = "rows" => ingestors[j].file # v.file
    BY <1>1, <2>2 DEF insertRun, IngestorAt
  <2>. QED
    BY <1>2, <2>3, <2>4, <2>5, <2>6, IngestionStep
<1>4. CASE HasReport(g.file)
  BY <1>1, <1>2, <1>4, Idle, IngestionStep DEF insertRun, HasReport, IngestorEnds
<1>. QED
  BY <1>3, <1>4

LEMMA InsertEventStays ==
  ASSUME LedgerInv, NEW i \in Ingestors, insertEvent(i)
  PROVE  LedgerInv'
<1>1. PICK g : g = ingestors[i]
  OBVIOUS
<1>2. g \in Ingestor /\ g.pc = "rows" /\ IngestorFits(g) /\ UNCHANGED <<runs, events, starts, snapshots>>
  BY <1>1 DEF insertEvent, IngestorAt, LedgerInv, LedgerTyped, IngestorsFit
<1>3. PICK n, v, accepted, blocks :
        /\ n \in g.left /\ ingestors' = [ingestors EXCEPT ![i] = v]
        /\ v = [g EXCEPT !.left = g.left \ {n}, !.accepted = accepted, !.blocks = blocks]
        /\ accepted \in {g.accepted, g.accepted \cup {g.file[n]}} /\ blocks \in BOOLEAN
  <2>1. PICK n \in g.left :
          ingestors' = [ingestors EXCEPT ![i] = [g EXCEPT
            !.left = g.left \ {n},
            !.accepted = IF Stored(g.file[n].id) = {} THEN g.accepted \cup {g.file[n]} ELSE g.accepted,
            !.blocks = g.blocks \/ \E e \in Stored(g.file[n].id) : e.row # g.file[n]]]
    BY <1>1 DEF insertEvent
  <2>2. PICK accepted, blocks :
          /\ accepted = IF Stored(g.file[n].id) = {} THEN g.accepted \cup {g.file[n]} ELSE g.accepted
          /\ blocks = (g.blocks \/ \E e \in Stored(g.file[n].id) : e.row # g.file[n])
    OBVIOUS
  <2>3. blocks \in BOOLEAN
    BY <2>2
  <2>. QED
    BY <2>1, <2>2, <2>3
<1>4. g.file \in Files /\ n \in 1..Len(g.file)
  BY <1>2, <1>3 DEF IngestorFits
<1>5. g.file[n] \in Rows(g.file) /\ g.file[n] \in AllRows
  BY <1>4 DEF Rows, AllRows
<1>6. accepted \in SUBSET AllRows /\ accepted \subseteq Rows(g.file) /\ IsFiniteSet(accepted)
  <2>1. IsFiniteSet(g.accepted) /\ IsFiniteSet(g.accepted \cup {g.file[n]})
    BY <1>2, FS_AddElement DEF IngestorFits
  <2>. QED
    BY <1>2, <1>3, <1>5, <2>1 DEF Ingestor, IngestorFits
<1>7. /\ v \in Ingestor /\ v.pc = "rows" /\ v.file = g.file /\ v.createdAt = g.createdAt /\ v.accepted = accepted
      /\ v.left = g.left \ {n}
  BY <1>2, <1>3, <1>6 DEF Ingestor
<1>8. IngestorFits(v)'
  BY <1>2, <1>6, <1>7 DEF IngestorFits, HasReport
<1>9. \A j \in Ingestors \ {i} : ingestors[j].pc = "rows" => ingestors[j].file # v.file
  BY <1>1, <1>2, <1>7 DEF LedgerInv, IngestorsFit
<1>. QED
  BY <1>2, <1>3, <1>7, <1>8, <1>9, IngestionStep

LEMMA AbortStays ==
  ASSUME LedgerInv, NEW i \in Ingestors, abortRun(i)
  PROVE  LedgerInv'
BY Idle, IngestionStep DEF abortRun, IngestorEnds

LEMMA FinishStays ==
  ASSUME LedgerInv, NEW i \in Ingestors, finishRun(i)
  PROVE  LedgerInv'
<1>1. PICK g : g = ingestors[i]
  OBVIOUS
<1>2. g \in Ingestor /\ g.pc = "rows" /\ IngestorFits(g) /\ UNCHANGED <<starts, snapshots>>
  BY <1>1 DEF finishRun, IngestorAt, LedgerInv, LedgerTyped, IngestorsFit
<1>3. g.file \in Files /\ g.createdAt \in 1..starts /\ ~ HasReport(g.file) /\ starts \in 0..MaxStarts
  BY <1>2 DEF IngestorFits, LedgerInv, LedgerTyped
<1>4. PICK run \in Run : runs' = [runs EXCEPT ![g.file] = run]
  <2>1. PICK blocks \in BOOLEAN : blocks = (g.blocks \/ g.file = <<>>)
    OBVIOUS
  <2>2. [createdAt |-> g.createdAt, blocks |-> blocks] \in Run
    BY <1>2 DEF Run, Ingestor
  <2>. QED
    BY <1>1, <2>1, <2>2 DEF finishRun
<1>5. PICK new : new = {[row |-> r, createdAt |-> g.createdAt] : r \in g.accepted}
  OBVIOUS
<1>6. events' = events \cup new
  BY <1>1, <1>5 DEF finishRun
<1>7. IsFiniteSet(new) /\ new \subseteq Event /\ \A e \in new : e.createdAt = g.createdAt
  <2>1. IsFiniteSet(g.accepted)
    BY <1>2 DEF IngestorFits
  <2>2. IsFiniteSet(new)
    <3> DEFINE f == [r \in g.accepted |-> [row |-> r, createdAt |-> g.createdAt]]
    <3>1. new = {f[r] : r \in g.accepted}
      BY <1>5
    <3> HIDE DEF f
    <3>. QED
      BY <2>1, <3>1, FiniteImage
  <2>3. ASSUME NEW e \in new PROVE e \in Event /\ e.createdAt = g.createdAt
    BY <1>2, <1>3, <1>5, LedgerAssumption DEF Ingestor, Event
  <2>. QED
    BY <2>2, <2>3
<1>8. /\ events' \subseteq Event /\ IsFiniteSet(events') /\ \A e \in events' : e.createdAt \in 1..starts'
  <2>1. IsFiniteSet(events')
    BY <1>6, <1>7, FS_Union DEF LedgerInv, LedgerTyped
  <2>. QED
    BY <1>2, <1>3, <1>6, <1>7, <2>1 DEF LedgerInv, LedgerTyped
<1>9. runs' \in [Files -> Run] /\ \A file \in Files : file # g.file => runs'[file] = runs[file]
  BY <1>4 DEF LedgerInv, LedgerTyped
<1>10. StoreGrows
  BY <1>3, <1>6, <1>9 DEF StoreGrows
<1>11. /\ ingestors' \in [Ingestors -> Ingestor]
       /\ \A j \in Ingestors : ingestors'[j] = IF j = i THEN IdleIngestor ELSE ingestors[j]
  BY Idle DEF finishRun, IngestorEnds, LedgerInv, LedgerTyped
<1>12. ASSUME NEW j \in Ingestors PROVE IngestorFits(ingestors[j])'
  <2>1. PICK v : v = ingestors'[j]
    OBVIOUS
  <2>2. CASE j # i
    <3>1. v = ingestors[j] /\ v \in Ingestor /\ IngestorFits(v)
      BY <1>11, <2>1, <2>2 DEF LedgerInv, LedgerTyped, IngestorsFit
    <3>2. v.pc = "rows" => runs'[v.file] = runs[v.file]
      <4>1. v.pc = "rows" => v.file # g.file /\ v.file \in Files
        BY <1>1, <1>2, <2>2, <3>1 DEF LedgerInv, IngestorsFit, IngestorFits
      <4>. QED
        BY <1>9, <4>1
    <3>. QED
      BY <1>2, <2>1, <3>1, <3>2 DEF IngestorFits, HasReport
  <2>3. CASE j = i
    <3>1. v = IdleIngestor /\ IngestorFits(v)'
      BY <1>11, <2>1, <2>3, Idle DEF IngestorFits
    <3>. QED
      BY <2>1, <3>1 DEF IngestorFits
  <2>. QED
    BY <2>2, <2>3
<1>13. IngestorsFit'
  <2>1. \A j \in Ingestors : ingestors'[j].pc = "rows" => j # i /\ ingestors'[j] = ingestors[j]
    BY <1>11, Idle
  <2>. QED
    BY <1>12, <2>1 DEF LedgerInv, IngestorsFit
<1>14. LedgerTyped'
  BY <1>2, <1>8, <1>9, <1>11 DEF LedgerInv, LedgerTyped
<1>. QED
  BY <1>2, <1>10, <1>13, <1>14, SnapshotsStay DEF LedgerInv

(* A new snapshot adds the events its predecessor does not include to what *)
(* that one adds up; it includes all of those, as the boundary and the     *)
(* cutoff are not before the predecessor's.                                *)
LEMMA CreateStays ==
  ASSUME LedgerInv, NEW file \in Files, NEW cutoff \in Cutoffs, NEW p \in 0..Len(snapshots), create(file, cutoff, p)
  PROVE  LedgerInv'
<1>1. PICK q, s : q = Snapshot(p) /\ s = buildDecisionSnapshot(file, cutoff, p)
  OBVIOUS
<1>2. /\ UNCHANGED <<runs, events, ingestors, starts>> /\ HasReport(file) /\ q.cutoff <= cutoff
      /\ snapshots' = snapshots \/ snapshots' = Append(snapshots, s)
  BY <1>1 DEF create, Insert
<1>3. StoreGrows
  BY <1>2, StoreRests
<1>4. IngestorsFit'
  BY <1>2 DEF LedgerInv, IngestorsFit, IngestorFits, HasReport
<1>5. PICK included : included = loadEvents(file, cutoff)
  OBVIOUS
<1>6. included \in SUBSET AllRows /\ IsFiniteSet(included)
  <2>1. included \in SUBSET AllRows
    BY <1>5 DEF loadEvents, LedgerInv, LedgerTyped, Event
  <2> DEFINE loaded == {f \in events : f.row.at <= cutoff /\ f.createdAt <= runs[file].createdAt}
             row == [e \in loaded |-> e.row]
  <2>2. IsFiniteSet(loaded)
    BY FS_Subset DEF LedgerInv, LedgerTyped
  <2>3. included = {row[e] : e \in loaded}
    BY <1>5 DEF loadEvents
  <2> HIDE DEF row, loaded
  <2>. QED
    BY <2>1, <2>2, <2>3, FiniteImage
<1>7. /\ q.included \in SUBSET AllRows /\ IsFiniteSet(q.included) /\ q.gross \in Int
      /\ p = 0 => q.included = {} /\ q.gross = 0
  <2>1. CASE p = 0
    BY <1>1, <2>1, FS_EmptySet DEF Snapshot, NoSnapshot
  <2>2. CASE p # 0
    <3>1. p \in 1..Len(snapshots) /\ q = snapshots[p]
      BY <1>1, <2>2 DEF Snapshot, LedgerInv, LedgerTyped
    <3>. QED
      BY <2>2, <3>1, SnapshotIs DEF SnapshotRow, SnapshotFits
  <2>. QED
    BY <2>1, <2>2
<1>8. PICK incremental : incremental = included \ q.included
  OBVIOUS
<1>9. incremental \in SUBSET AllRows /\ IsFiniteSet(incremental) /\ Total(incremental) \in Int
  <2>1. incremental \in SUBSET AllRows /\ IsFiniteSet(incremental)
    BY <1>6, <1>8, FS_Subset
  <2>. QED
    BY <2>1, TotalSplit
<1>10. /\ s.file = file /\ s.cutoff = cutoff /\ s.predecessor = p /\ s.included = included
       /\ s.gross = q.gross + Total(incremental) /\ s.blocks = runs[file].blocks
  BY <1>1, <1>5, <1>8 DEF buildDecisionSnapshot
<1>11. s \in SnapshotRow
  <2>1. runs[file].blocks \in BOOLEAN
    BY DEF LedgerInv, LedgerTyped, Run
  <2>2. q.gross + Total(incremental) \in Int /\ p \in Nat
    BY <1>7, <1>9
  <2>3. s = [file |-> file, cutoff |-> cutoff, predecessor |-> p, included |-> included,
             gross |-> q.gross + Total(incremental), blocks |-> runs[file].blocks]
    BY <1>1, <1>5, <1>8 DEF buildDecisionSnapshot
  <2>. QED
    BY <1>6, <2>1, <2>2, <2>3 DEF SnapshotRow
<1>12. CASE UNCHANGED snapshots
  <2>1. LedgerTyped'
    BY <1>2, <1>12 DEF LedgerInv, LedgerTyped
  <2>. QED
    BY <1>3, <1>4, <1>12, <2>1, SnapshotsStay DEF LedgerInv
<1>13. CASE snapshots' = Append(snapshots, s)
  <2>1. PICK last : last = Len(snapshots) + 1
    OBVIOUS
  <2>2. /\ Len(snapshots) \in Nat /\ Len(snapshots') = last /\ snapshots'[last] = s
        /\ \A m \in 1..Len(snapshots) : snapshots'[m] = snapshots[m]
        /\ snapshots' \in Seq(SnapshotRow)
    BY <1>11, <1>13, <2>1 DEF LedgerInv, LedgerTyped
  <2>3. LedgerTyped'
    BY <1>2, <2>2 DEF LedgerInv, LedgerTyped
  <2>4. SnapshotFits(s)'
    BY <1>2, <1>5, <1>6, <1>10 DEF SnapshotFits, HasReport, loadEvents
  <2>5. ASSUME NEW n \in 1..last PROVE snapshots'[n].predecessor \in 0..(n - 1) /\ SnapshotFits(snapshots[n])'
    <3>1. PICK v : v = snapshots'[n]
      OBVIOUS
    <3>2. CASE n = last
      BY <1>10, <2>1, <2>2, <2>4, <3>2 DEF SnapshotFits, HasReport, loadEvents
    <3>3. CASE n # last
      <4>1. n \in 1..Len(snapshots) /\ v = snapshots[n]
        BY <2>1, <2>2, <3>1, <3>3
      <4>2. SnapshotFits(v)' /\ v.predecessor \in 0..(n - 1)
        BY <1>3, <4>1, SnapshotIs, SnapshotRests
      <4>. QED
        BY <3>1, <4>2 DEF SnapshotFits, HasReport, loadEvents
    <3>. QED
      BY <3>2, <3>3
  <2>6. SnapshotsFit'
    BY <2>2, <2>5 DEF SnapshotsFit
  <2>7. ASSUME GoesOn(last)' PROVE s.gross = Total(s.included)
    <3>1. q.included \subseteq included /\ q.gross = Total(q.included)
      <4>1. CASE p = 0
        BY <1>7, <4>1, NothingTotals
      <4>2. CASE p # 0
        <5>1. p \in 1..Len(snapshots) /\ q = snapshots[p]
          BY <1>1, <4>2 DEF Snapshot, LedgerInv, LedgerTyped
        <5>2. PICK chain \in SUBSET (1..last) :
                /\ last \in chain
                /\ \A m \in chain :
                     \/ snapshots'[m].predecessor = 0
                     \/ /\ snapshots'[m].predecessor \in chain
                        /\ runs'[snapshots'[snapshots'[m].predecessor].file].createdAt
                             <= runs'[snapshots'[m].file].createdAt
          BY <2>7 DEF GoesOn
        <5>3. p \in chain /\ runs[q.file].createdAt <= runs[file].createdAt
          BY <1>2, <1>10, <2>2, <4>2, <5>1, <5>2
        <5>4. GoesOn(p)'
          <6> DEFINE part == chain \cap (1..p)
          <6>1. part \in SUBSET (1..p) /\ p \in part
            BY <5>1, <5>3
          <6>2. ASSUME NEW m \in part
                PROVE  \/ snapshots'[m].predecessor = 0
                       \/ /\ snapshots'[m].predecessor \in part
                          /\ runs'[snapshots'[snapshots'[m].predecessor].file].createdAt
                               <= runs'[snapshots'[m].file].createdAt
            <7>1. PICK v : v = snapshots'[m].predecessor
              OBVIOUS
            <7>2. m \in 1..last /\ m <= p /\ v \in 0..(m - 1)
              BY <2>1, <2>5, <5>1, <7>1
            <7>3. v \in chain /\ v # 0 => v \in part
              BY <5>1, <7>2, <2>2
            <7>. QED
              BY <5>2, <7>1, <7>3
          <6> HIDE DEF part
          <6>. QED
            BY <6>1, <6>2 DEF GoesOn
        <5>5. GoesOn(p)
          BY <1>3, <2>1, <2>2, <5>1, <5>4, WentOn
        <5>6. q.gross = Total(q.included)
          BY <5>1, <5>5 DEF LedgerInv, SnapshotAddsUp
        <5>7. q.included \subseteq loadEvents(q.file, q.cutoff) /\ q \in SnapshotRow
          BY <5>1, SnapshotIs DEF SnapshotFits
        <5>8. ASSUME NEW e \in events, e.row.at <= q.cutoff, e.createdAt <= runs[q.file].createdAt
              PROVE  e.row \in included
          <6>1. e.row.at \in Nat /\ e.createdAt \in Nat
            BY LedgerAssumption DEF LedgerInv, LedgerTyped, Event, AllRows, Rows
          <6>2. q.cutoff \in Nat /\ cutoff \in Nat /\ q.file \in Files
            BY <5>7, LedgerAssumption DEF SnapshotRow
          <6>3. runs[q.file].createdAt \in Nat /\ runs[file].createdAt \in Nat
            BY <6>2, LedgerAssumption DEF LedgerInv, LedgerTyped, Run
          <6>4. e.row.at <= cutoff /\ e.createdAt <= runs[file].createdAt
            BY <1>2, <5>3, <5>8, <6>1, <6>2, <6>3
          <6>. QED
            BY <1>5, <6>4 DEF loadEvents
        <5>9. loadEvents(q.file, q.cutoff) \subseteq included
          BY <5>8 DEF loadEvents
        <5>. QED
          BY <5>6, <5>7, <5>9
      <4>. QED
        BY <4>1, <4>2
    <3>2. Total(included) = Total(q.included) + Total(incremental)
      BY <1>6, <1>8, <3>1, TotalSplit
    <3>. QED
      BY <1>10, <3>1, <3>2
  <2>8. SnapshotAddsUp'
    <3>1. ASSUME NEW n \in 1..last, GoesOn(n)' PROVE snapshots'[n].gross = Total(snapshots'[n].included)
      <4>1. CASE n = last
        BY <2>2, <2>7, <3>1, <4>1
      <4>2. CASE n # last
        <5>1. n \in 1..Len(snapshots) /\ snapshots'[n] = snapshots[n] /\ Len(snapshots) <= Len(snapshots')
          BY <2>1, <2>2, <4>2
        <5>2. GoesOn(n)
          BY <1>3, <2>2, <3>1, <5>1, WentOn
        <5>. QED
          BY <5>1, <5>2 DEF LedgerInv, SnapshotAddsUp
      <4>. QED
        BY <4>1, <4>2
    <3>. QED
      BY <2>2, <3>1 DEF SnapshotAddsUp, Total
  <2>. QED
    BY <1>4, <2>3, <2>6, <2>8 DEF LedgerInv
<1>. QED
  BY <1>2, <1>12, <1>13

LEMMA LedgerStarts == LedgerInit => LedgerInv
<1>. SUFFICES ASSUME LedgerInit PROVE LedgerInv
  OBVIOUS
<1>1. /\ runs = [file \in Files |-> NoRun] /\ events = {} /\ starts = 0 /\ snapshots = <<>>
      /\ ingestors = [i \in Ingestors |-> IdleIngestor]
  BY DEF LedgerInit
<1>2. IdleIngestor \in Ingestor /\ IdleIngestor.pc = "idle" /\ IngestorFits(IdleIngestor) /\ IsFiniteSet({})
  BY LedgerAssumption, FS_EmptySet DEF IdleIngestor, Ingestor, IngestorFits
<1>3. NoRun \in Run /\ 0 \in 0..MaxStarts
  BY LedgerAssumption DEF NoRun, Run
<1>4. LedgerTyped
  BY <1>1, <1>2, <1>3 DEF LedgerTyped
<1>5. IngestorsFit
  BY <1>1, <1>2 DEF IngestorsFit
<1>6. SnapshotsFit /\ SnapshotAddsUp
  BY <1>1 DEF SnapshotsFit, SnapshotAddsUp
<1>. QED
  BY <1>4, <1>5, <1>6 DEF LedgerInv

LEMMA LedgerStays == LedgerInv /\ [LedgerNext]_ledgerVars => LedgerInv'
<1>. SUFFICES ASSUME LedgerInv, [LedgerNext]_ledgerVars PROVE LedgerInv'
  OBVIOUS
<1>1. ASSUME UNCHANGED ledgerVars PROVE LedgerInv'
  <2>1. UNCHANGED <<runs, events, ingestors, starts, snapshots>>
    BY <1>1 DEF ledgerVars
  <2>2. IngestorsFit' /\ LedgerTyped'
    BY <2>1 DEF LedgerInv, IngestorsFit, IngestorFits, HasReport, LedgerTyped
  <2>. QED
    BY <2>1, <2>2, StoreRests, SnapshotsStay DEF LedgerInv
<1>2. ASSUME NEW file, NEW cutoff \in Cutoffs, NEW p \in 0..Len(snapshots), file \in Files, create(file, cutoff, p)
      PROVE  LedgerInv'
  BY <1>2, CreateStays
<1>. QED
  BY <1>1, <1>2, StartStays, InsertRunStays, InsertEventStays, FinishStays, AbortStays DEF LedgerNext

LEMMA LedgerHolds == LedgerSpec => []LedgerInv
<1>. QED
  BY LedgerStarts, LedgerStays, PTL DEF LedgerSpec

(* Runs, events, ingestions and snapshots keep their types.                *)
THEOREM LedgerTypeCorrect == LedgerSpec => []LedgerTypeOK
<1>1. ASSUME LedgerInv PROVE LedgerTypeOK
  <2>1. runs \in [Files -> [createdAt : 0..MaxStarts, blocks : BOOLEAN]]
    BY <1>1 DEF LedgerInv, LedgerTyped, Run
  <2>2. ASSUME NEW e \in events PROVE e.createdAt \in 1..starts /\ \E file \in Files : e.row \in Rows(file)
    BY <1>1 DEF LedgerInv, LedgerTyped, Event, AllRows
  <2>3. ASSUME NEW i \in Ingestors PROVE ingestors[i].accepted \subseteq Rows(ingestors[i].file)
    BY <1>1 DEF LedgerInv, IngestorsFit, IngestorFits
  <2>4. ASSUME NEW n \in 1..Len(snapshots) PROVE snapshots[n].predecessor < n
    <3>1. n \in Nat /\ snapshots[n].predecessor \in 0..(n - 1)
      BY <1>1, SnapshotIs DEF LedgerInv, LedgerTyped
    <3>. QED
      BY <3>1
  <2>. QED
    BY <2>1, <2>2, <2>3, <2>4 DEF LedgerTypeOK
<1>. QED
  BY <1>1, LedgerHolds, PTL

(* A snapshot adds up exactly the events it includes, each once, however   *)
(* long the history it continues and whichever ingestions committed in     *)
(* between, as long as no boundary in that history goes back.              *)
THEOREM SnapshotsAddUp == LedgerSpec => []SnapshotAddsUp
<1>1. LedgerInv => SnapshotAddsUp
  BY DEF LedgerInv
<1>. QED
  BY <1>1, LedgerHolds, PTL

-----------------------------------------------------------------------------
(* The files behind control evidence. Intents and deposits are only ever   *)
(* added and time only passes, so a content that was once not agreed on,   *)
(* or not fresh, stays so: a request about to remove a file as a mismatch  *)
(* has seen that the content is not agreed on, and a clean-up about to     *)
(* remove one that it was old when the run began, and that no row from     *)
(* before then refers to it.                                               *)

(* The bytes of an intent were put under its key, and something that looks *)
(* like them under its type.                                               *)
BytesPut(i) == \E d \in deposits : d.key = i.key /\ d.content.bytes = i.content.bytes
TypePut(i) ==
  \E d \in deposits :
    d.key = i.key /\ d.content.type = i.content.type /\ SameSize(d.content.bytes, i.content.bytes)

(* What is in the bucket was put there.                                    *)
BucketLogged ==
  \A k \in EvidenceKeys : bucket[k] # NoObject =>
    \E d \in deposits : d.key = k /\ d.content = bucket[k].content /\ d.at = bucket[k].at

(* No row is from the future.                                              *)
RowsDated == \A e \in Evidences : references[e].at <= vaultClock

(* No upload under the key is as old as what a clean-up may remove now.    *)
StillFresh(k) == \A d \in deposits : d.key = k => vaultClock < d.at + AbandonedAfter

(* What a finalization knows.                                              *)
FinalizerKnows(r) ==
  /\ r.pc \notin {"new", "done"} => r.intent \in intents
  /\ r.pc = "read" => IF r.likely THEN TypePut(r.intent) ELSE ~ Agreed(r.intent.key)
  /\ r.pc = "verified" => BytesPut(r.intent) /\ TypePut(r.intent)
  /\ r.pc = "verified" /\ Agreed(r.intent.key) /\ StillFresh(r.intent.key) =>
       bucket[r.intent.key] # NoObject
  /\ r.pc = "reject" => ~ Agreed(r.intent.key)

(* A row that refers to the key is not from before the time.               *)
NotBefore(k, t) == Reference(k) # NoContent => t <= references[k[1]].at

(* What a clean-up knows: each key is on the page once, with the time of   *)
(* an upload; the object to remove is old enough, and no row has referred  *)
(* to it since before the run.                                             *)
CleanerKnows(run) ==
  /\ run.since <= vaultClock
  /\ \A o, p \in run.page : o.key = p.key => o = p
  /\ \A o \in run.page : \E d \in deposits : d.key = o.key /\ d.at = o.at
  /\ run.pc = "remove" =>
       \A o \in run.page : (\A p \in run.page : ~ Before(p.key, o.key)) =>
         o.at + AbandonedAfter <= run.since /\ NotBefore(o.key, run.since)

VaultInv ==
  /\ VaultTypeOK /\ BucketLogged /\ RowsDated /\ EvidenceWasVerified /\ FreshIsKept
  /\ \A f \in Finalizers : FinalizerKnows(finalizers[f])
  /\ \A w \in Cleaners : CleanerKnows(cleaners[w])

-----------------------------------------------------------------------------

(* Nothing in the log of intents and uploads is taken back, and no time.   *)
LogGrows ==
  /\ intents \subseteq intents' /\ deposits \subseteq deposits'
  /\ vaultClock <= vaultClock'

LEMMA DoubtStays ==
  ASSUME VaultTypeOK, VaultTypeOK', LogGrows, NEW k
  PROVE  /\ (Agreed(k)' => Agreed(k)) /\ (StillFresh(k)' => StillFresh(k))
         /\ UNCHANGED references /\ FinalizedYoung(k)' => FinalizedYoung(k)
<1>1. Agreed(k)' => Agreed(k)
  BY DEF Agreed, LogGrows
<1>2. ASSUME StillFresh(k)', NEW d \in deposits, d.key = k PROVE vaultClock < d.at + AbandonedAfter
  <2>1. d \in deposits' /\ d.at \in Nat /\ vaultClock \in Nat /\ vaultClock' \in Nat
    BY DEF LogGrows, VaultTypeOK, SignedIntents
  <2>2. vaultClock' < d.at + AbandonedAfter /\ vaultClock <= vaultClock'
    BY <1>2, <2>1 DEF StillFresh, LogGrows
  <2>. QED
    BY <2>1, <2>2, VaultAssumption
<1>3. UNCHANGED references /\ FinalizedYoung(k)' => FinalizedYoung(k)
  BY DEF FinalizedYoung, LogGrows
<1>. QED
  BY <1>1, <1>2, <1>3 DEF StillFresh

(* The file under a key of which everybody means the same, and which is    *)
(* fresh or was finalized young, is not removed.                           *)
Safe(k) == StillFresh(k) \/ (Reference(k) # NoContent /\ FinalizedYoung(k))

SafeStay ==
  \A k \in EvidenceKeys : Agreed(k) /\ Safe(k) /\ bucket[k] # NoObject => bucket'[k] # NoObject

CleanerRecords ==
  [pc : {"idle", "check", "remove"}, since : Nat, page : SUBSET [key : EvidenceKeys, at : Nat]]

(* A row that was not from before a time is not replaced by one that is.   *)
RowsAge == \A k \in EvidenceKeys, t \in Nat : t <= vaultClock /\ NotBefore(k, t) => NotBefore(k, t)'

LEMMA RowsRest ==
  ASSUME VaultInv, LogGrows, VaultTypeOK', UNCHANGED references
  PROVE  RowsAge /\ RowsDated' /\ \A k \in EvidenceKeys : Reference(k)' = Reference(k)
<1>1. \A k \in EvidenceKeys : Reference(k)' = Reference(k)
  BY DEF Reference
<1>2. RowsAge
  BY <1>1 DEF RowsAge, NotBefore
<1>3. RowsDated'
  <2>1. ASSUME NEW e \in Evidences PROVE references[e].at <= vaultClock'
    <3>1. references[e].at \in Nat /\ vaultClock \in Nat /\ vaultClock' \in Nat
      BY DEF VaultInv, VaultTypeOK
    <3>2. references[e].at <= vaultClock /\ vaultClock <= vaultClock'
      BY DEF VaultInv, RowsDated, LogGrows
    <3>. QED
      BY <3>1, <3>2
  <2>. QED
    BY <2>1 DEF RowsDated
<1>. QED
  BY <1>1, <1>2, <1>3

LEMMA PutsStay ==
  ASSUME LogGrows, NEW i
  PROVE  (BytesPut(i) => BytesPut(i)') /\ (TypePut(i) => TypePut(i)')
BY DEF BytesPut, TypePut, LogGrows

LEMMA RequestStays ==
  ASSUME VaultTypeOK, VaultTypeOK', LogGrows, SafeStay, NEW r, FinalizerKnows(r),
         r.intent.key \in EvidenceKeys \/ r.pc \in {"new", "done"}
  PROVE  FinalizerKnows(r)'
<1>1. PICK k : k = r.intent.key
  OBVIOUS
<1>2. (Agreed(k)' => Agreed(k)) /\ (StillFresh(k)' => StillFresh(k))
  BY DoubtStays
<1>3. PICK i : i = r.intent
  OBVIOUS
<1>4. (BytesPut(i) => BytesPut(i)') /\ (TypePut(i) => TypePut(i)')
  BY PutsStay
<1>5. r.pc \notin {"new", "done"} => r.intent \in intents'
  BY DEF FinalizerKnows, LogGrows
<1>6. r.pc = "read" => IF r.likely THEN TypePut(i)' ELSE ~ Agreed(k)'
  BY <1>1, <1>2, <1>3, <1>4 DEF FinalizerKnows
<1>7. r.pc = "verified" => BytesPut(i)' /\ TypePut(i)'
  BY <1>3, <1>4 DEF FinalizerKnows
<1>8. r.pc = "verified" /\ Agreed(k)' /\ StillFresh(k)' => bucket'[k] # NoObject
  BY <1>1, <1>2 DEF FinalizerKnows, SafeStay, Safe
<1>9. r.pc = "reject" => ~ Agreed(k)'
  BY <1>1, <1>2 DEF FinalizerKnows
<1>. QED
  BY <1>1, <1>3, <1>5, <1>6, <1>7, <1>8, <1>9 DEF FinalizerKnows, BytesPut, TypePut, Agreed, StillFresh

LEMMA RunStays ==
  ASSUME VaultTypeOK, VaultTypeOK', LogGrows, RowsAge, NEW run \in CleanerRecords, CleanerKnows(run)
  PROVE  CleanerKnows(run)'
<1>1. run.since \in Nat /\ run.since <= vaultClock'
  BY DEF CleanerKnows, LogGrows, VaultTypeOK, CleanerRecords
<1>2. ASSUME NEW o \in run.page, NotBefore(o.key, run.since) PROVE NotBefore(o.key, run.since)'
  BY <1>1, <1>2 DEF RowsAge, CleanerKnows, CleanerRecords
<1>3. ASSUME run.pc = "remove", NEW o \in run.page, \A p \in run.page : ~ Before(p.key, o.key)
      PROVE  o.at + AbandonedAfter <= run.since /\ NotBefore(o.key, run.since)'
  BY <1>2, <1>3 DEF CleanerKnows
<1>. QED
  BY <1>1, <1>3 DEF CleanerKnows, LogGrows, NotBefore, Reference

LEMMA FinalizerType ==
  ASSUME VaultTypeOK, NEW f \in Finalizers, FinalizerKnows(finalizers[f]), finalizers[f].pc \notin {"new", "done"}
  PROVE  /\ Wanted(f) \in intents /\ Wanted(f).key \in EvidenceKeys /\ Wanted(f).content \in Contents
         /\ Wanted(f).at \in Nat
         /\ Wanted(f).key[1] \in Evidences /\ Wanted(f).key[2] \in Versions
         /\ Wanted(f).key = <<Wanted(f).key[1], Wanted(f).key[2]>>
BY DEF VaultTypeOK, FinalizerKnows, Wanted, SignedIntents, EvidenceKeys

(* When the log grows, no safe file goes and the rows rest, the invariant  *)
(* is a matter of the types, of the bucket and of who has moved.           *)
LEMMA LogStays ==
  ASSUME VaultInv, VaultTypeOK', LogGrows, SafeStay, UNCHANGED references
  PROVE  EvidenceWasVerified' /\ FreshIsKept' /\ RowsDated' /\ RowsAge
<1>1. RowsDated' /\ RowsAge /\ \A k \in EvidenceKeys : Reference(k)' = Reference(k)
  BY RowsRest
<1>2. EvidenceWasVerified'
  BY <1>1 DEF VaultInv, EvidenceWasVerified, LogGrows
<1>3. ASSUME NEW k \in EvidenceKeys, Reference(k)' # NoContent, Agreed(k)', FinalizedYoung(k)'
      PROVE  bucket'[k] # NoObject
  <2>1. Reference(k) # NoContent /\ Agreed(k) /\ FinalizedYoung(k)
    BY <1>1, <1>3, DoubtStays DEF VaultInv
  <2>. QED
    BY <2>1 DEF VaultInv, FreshIsKept, SafeStay, Safe
<1>. QED
  BY <1>1, <1>2, <1>3 DEF FreshIsKept

LEMMA OthersStay ==
  ASSUME VaultInv, VaultTypeOK', LogGrows, SafeStay, RowsAge
  PROVE  /\ \A f \in Finalizers : finalizers'[f] = finalizers[f] => FinalizerKnows(finalizers[f])'
         /\ \A w \in Cleaners : cleaners'[w] = cleaners[w] => CleanerKnows(cleaners[w])'
<1>1. ASSUME NEW f \in Finalizers, finalizers'[f] = finalizers[f] PROVE FinalizerKnows(finalizers[f])'
  <2>1. PICK r : r = finalizers[f]
    OBVIOUS
  <2>2. FinalizerKnows(r) /\ (r.intent.key \in EvidenceKeys \/ r.pc \in {"new", "done"})
    BY <2>1, FinalizerType DEF VaultInv, Wanted
  <2>3. FinalizerKnows(r)'
    BY <2>2, RequestStays DEF VaultInv
  <2>. QED
    BY <1>1, <2>1, <2>3 DEF FinalizerKnows, BytesPut, TypePut, Agreed, StillFresh
<1>2. ASSUME NEW w \in Cleaners, cleaners'[w] = cleaners[w] PROVE CleanerKnows(cleaners[w])'
  <2>1. PICK run : run = cleaners[w]
    OBVIOUS
  <2>2. CleanerKnows(run) /\ run \in CleanerRecords
    BY <2>1 DEF VaultInv, VaultTypeOK, CleanerRecords
  <2>3. CleanerKnows(run)'
    BY <2>2, RunStays DEF VaultInv
  <2>. QED
    BY <1>2, <2>1, <2>3 DEF CleanerKnows, NotBefore, Reference
<1>. QED
  BY <1>1, <1>2

-----------------------------------------------------------------------------
(* The steps.                                                              *)

(* What a step of a finalization leaves alone, but for its own place.      *)
AllButFinalizers ==
  UNCHANGED <<vaultClock, bucket, deposits, asked, intents, references, cleaners, storageErrors>>

(* A step that leaves bucket, log, rows and clean-ups, and moves one       *)
(* finalization to where what it knows holds.                              *)
LEMMA FinalizerMoves ==
  ASSUME VaultInv, NEW f \in Finalizers, NEW r,
         AllButFinalizers,
         finalizers' = [finalizers EXCEPT ![f] = r],
         r.pc \in {"new", "lookup", "inspect", "read", "verified", "reject", "done"},
         r.intent \in SignedIntents \union {NoIntent}, r.likely \in BOOLEAN,
         r = [pc |-> r.pc, intent |-> r.intent, likely |-> r.likely],
         FinalizerKnows(r)
  PROVE  VaultInv'
<1>1. VaultTypeOK'
  BY DEF AllButFinalizers, VaultInv, VaultTypeOK
<1>2. LogGrows /\ SafeStay
  BY <1>1 DEF AllButFinalizers, LogGrows, SafeStay, VaultInv, VaultTypeOK
<1>3. EvidenceWasVerified' /\ FreshIsKept' /\ RowsDated' /\ RowsAge
  BY <1>1, <1>2, LogStays DEF AllButFinalizers
<1>4. BucketLogged'
  BY DEF AllButFinalizers, VaultInv, BucketLogged
<1>5. FinalizerKnows(r)'
  BY DEF AllButFinalizers, FinalizerKnows, BytesPut, TypePut, Agreed, StillFresh
<1>6. ASSUME NEW g \in Finalizers PROVE FinalizerKnows(finalizers[g])'
  <2>1. finalizers'[g] = IF g = f THEN r ELSE finalizers[g]
    BY DEF VaultInv, VaultTypeOK
  <2>2. CASE g = f
    BY <1>5, <2>1, <2>2 DEF FinalizerKnows, BytesPut, TypePut, Agreed, StillFresh
  <2>3. CASE g # f
    BY <1>1, <1>2, <1>3, <2>1, <2>3, OthersStay
  <2>. QED
    BY <2>2, <2>3
<1>7. ASSUME NEW w \in Cleaners PROVE CleanerKnows(cleaners[w])'
  BY <1>1, <1>2, <1>3, OthersStay DEF AllButFinalizers
<1>. QED
  BY <1>1, <1>3, <1>4, <1>6, <1>7 DEF VaultInv

LEMMA EndedKnows ==
  /\ FinalizerKnows(Request("done")) /\ FinalizerKnows(Request("done"))'
  /\ Request("done") = [pc |-> "done", intent |-> NoIntent, likely |-> FALSE]
BY DEF FinalizerKnows, Request

LEMMA FinalizerEnds ==
  ASSUME VaultInv, NEW f \in Finalizers, Ends(f),
         AllButFinalizers
  PROVE  VaultInv'
<1>1. PICK r : r = Request("done")
  OBVIOUS
<1>2. r = [pc |-> "done", intent |-> NoIntent, likely |-> FALSE] /\ FinalizerKnows(r)
  BY <1>1, EndedKnows
<1>. QED
  BY <1>1, <1>2, FinalizerMoves DEF Ends

FinalizerRecords ==
  [pc : {"new", "lookup", "inspect", "read", "verified", "reject", "done"},
   intent : SignedIntents \union {NoIntent}, likely : BOOLEAN]

LEMMA RequestChanges ==
  ASSUME NEW q \in FinalizerRecords, NEW pc
  PROVE  [q EXCEPT !.pc = pc] = [pc |-> pc, intent |-> q.intent, likely |-> q.likely]
BY DEF FinalizerRecords

LEMMA FinalizerIs ==
  ASSUME VaultInv, NEW f \in Finalizers
  PROVE  /\ finalizers[f] \in FinalizerRecords
         /\ finalizers[f].intent \in SignedIntents \union {NoIntent}
         /\ finalizers[f].likely \in BOOLEAN
         /\ FinalizerKnows(finalizers[f])
BY DEF VaultInv, VaultTypeOK, FinalizerRecords

LEMMA FinalizeStays ==
  ASSUME VaultInv, NEW f \in Finalizers, finalize(f) PROVE VaultInv'
<1>1. PICK i \in intents : finalizers' = [finalizers EXCEPT ![f] = [pc |-> "lookup", intent |-> i, likely |-> FALSE]]
  BY DEF finalize
<1>2. PICK r : r = [pc |-> "lookup", intent |-> i, likely |-> FALSE]
  OBVIOUS
<1>3. i \in SignedIntents /\ FinalizerKnows(r) /\ AllButFinalizers
  BY <1>2 DEF VaultInv, VaultTypeOK, FinalizerKnows, finalize, AllButFinalizers
<1>. QED
  BY <1>1, <1>2, <1>3, FinalizerMoves

(* A finalization that goes on with the intent it has.                     *)
LEMMA FinalizerGoes ==
  ASSUME VaultInv, NEW f \in Finalizers, NEW pc, NEW likely \in BOOLEAN,
         AllButFinalizers,
         pc \in {"lookup", "inspect", "read", "verified", "reject"},
         finalizers' = [finalizers EXCEPT ![f] = [pc |-> pc, intent |-> Wanted(f), likely |-> likely]],
         finalizers[f].pc \notin {"new", "done"},
         pc = "read" => IF likely THEN TypePut(Wanted(f)) ELSE ~ Agreed(Wanted(f).key),
         pc = "verified" => /\ BytesPut(Wanted(f)) /\ TypePut(Wanted(f))
                            /\ Agreed(Wanted(f).key) /\ StillFresh(Wanted(f).key) => bucket[Wanted(f).key] # NoObject,
         pc = "reject" => ~ Agreed(Wanted(f).key)
  PROVE  VaultInv'
<1>1. PICK r : r = [pc |-> pc, intent |-> Wanted(f), likely |-> likely]
  OBVIOUS
<1>2. Wanted(f) \in intents /\ Wanted(f) \in SignedIntents
  BY FinalizerIs, FinalizerType DEF VaultInv, VaultTypeOK
<1>3. r.pc = pc /\ r.intent = Wanted(f) /\ r.likely = likely
  BY <1>1
<1>4. FinalizerKnows(r)
  BY <1>2, <1>3 DEF FinalizerKnows
<1>. QED
  BY <1>1, <1>2, <1>3, <1>4, FinalizerMoves

(* One that goes on as it is.                                              *)
LEMMA FinalizerPasses ==
  ASSUME VaultInv, NEW f \in Finalizers, NEW pc, AllButFinalizers,
         pc \in {"inspect", "verified", "reject"}, MovesTo(f, pc),
         finalizers[f].pc \notin {"new", "done"},
         pc = "verified" => /\ BytesPut(Wanted(f)) /\ TypePut(Wanted(f))
                            /\ Agreed(Wanted(f).key) /\ StillFresh(Wanted(f).key) => bucket[Wanted(f).key] # NoObject,
         pc = "reject" => ~ Agreed(Wanted(f).key)
  PROVE  VaultInv'
<1>1. [finalizers[f] EXCEPT !.pc = pc] = [pc |-> pc, intent |-> Wanted(f), likely |-> finalizers[f].likely]
  BY FinalizerIs, RequestChanges DEF Wanted
<1>2. finalizers' = [finalizers EXCEPT ![f] = [pc |-> pc, intent |-> Wanted(f), likely |-> finalizers[f].likely]]
  BY <1>1 DEF MovesTo
<1>3. finalizers[f].likely \in BOOLEAN
  BY FinalizerIs
<1>. QED
  BY <1>2, <1>3, FinalizerGoes

LEMMA FreshIsYoung ==
  ASSUME VaultInv, NEW k \in EvidenceKeys, StillFresh(k) PROVE FinalizedYoung(k)
<1>1. k[1] \in Evidences /\ references[k[1]].at \in Nat /\ vaultClock \in Nat
  BY DEF VaultInv, VaultTypeOK, EvidenceKeys
<1>2. references[k[1]].at <= vaultClock
  BY <1>1 DEF VaultInv, RowsDated
<1>3. ASSUME NEW d \in deposits, d.key = k PROVE references[k[1]].at < d.at + AbandonedAfter
  <2>1. d.at \in Nat
    BY DEF VaultInv, VaultTypeOK, SignedIntents
  <2>2. vaultClock < d.at + AbandonedAfter
    BY <1>3 DEF StillFresh
  <2>. QED
    BY <1>1, <1>2, <2>1, <2>2, VaultAssumption
<1>. QED
  BY <1>3 DEF FinalizedYoung

LEMMA FindStays ==
  ASSUME VaultInv, NEW f \in Finalizers, findFinalized(f) PROVE VaultInv'
<1>1. PICK k : k = Wanted(f).key
  OBVIOUS
<1>2. finalizers[f].pc = "lookup" /\ k \in EvidenceKeys /\ Wanted(f).content \in Contents /\ AllButFinalizers
  BY <1>1, FinalizerIs, FinalizerType DEF findFinalized, At, VaultInv, AllButFinalizers
<1>3. CASE Reference(k) = NoContent
  <2>1. MovesTo(f, "inspect")
    BY <1>1, <1>3 DEF findFinalized
  <2>. QED
    BY <1>2, <2>1, FinalizerPasses
<1>4. CASE Reference(k) # NoContent /\ Reference(k) = Wanted(f).content
  <2>1. BytesPut(Wanted(f)) /\ TypePut(Wanted(f))
    BY <1>1, <1>2, <1>4 DEF VaultInv, EvidenceWasVerified, BytesPut, TypePut
  <2>2. Agreed(k) /\ StillFresh(k) => bucket[k] # NoObject
    BY <1>2, <1>4, FreshIsYoung DEF VaultInv, FreshIsKept
  <2>3. MovesTo(f, "verified")
    BY <1>1, <1>4 DEF findFinalized
  <2>. QED
    BY <1>1, <1>2, <2>1, <2>2, <2>3, FinalizerPasses
<1>5. CASE Reference(k) # NoContent /\ Reference(k) # Wanted(f).content
  <2>1. Ends(f)
    BY <1>1, <1>5 DEF findFinalized
  <2>. QED
    BY <1>2, <2>1, FinalizerEnds
<1>. QED
  BY <1>3, <1>4, <1>5

LEMMA FilesHaveContent ==
  ASSUME VaultInv, NEW k \in EvidenceKeys, bucket[k] # NoObject PROVE bucket[k].content \in Contents
<1>1. PICK d \in deposits : d.content = bucket[k].content
  BY DEF VaultInv, BucketLogged
<1>. QED
  BY <1>1 DEF VaultInv, VaultTypeOK, SignedIntents

LEMMA InspectStays ==
  ASSUME VaultInv, NEW f \in Finalizers, inspectObject(f) PROVE VaultInv'
<1>1. PICK k : k = Wanted(f).key
  OBVIOUS
<1>2. finalizers[f].pc = "inspect" /\ k \in EvidenceKeys /\ AllButFinalizers
  BY <1>1, FinalizerIs, FinalizerType DEF inspectObject, At, VaultInv, AllButFinalizers
<1>3. CASE bucket[k] = NoObject
  <2>1. Ends(f)
    BY <1>1, <1>3 DEF inspectObject
  <2>. QED
    BY <1>2, <2>1, FinalizerEnds
<1>4. CASE bucket[k] # NoObject
  <2>1. PICK c \in Contents : c = bucket[k].content
    BY <1>2, <1>4, FilesHaveContent
  <2>2. PICK d \in deposits : d.key = k /\ d.content = c
    BY <1>2, <1>4, <2>1 DEF VaultInv, BucketLogged
  <2>3. PICK likely : likely = LooksLike(c, Wanted(f).content)
    OBVIOUS
  <2>4. likely \in BOOLEAN
    BY <2>3 DEF LooksLike
  <2>5. Wanted(f) \in intents /\ Wanted(f).key = k
    BY <1>1, <1>2, FinalizerIs, FinalizerType DEF VaultInv
  <2>6. likely => TypePut(Wanted(f))
    BY <2>2, <2>3, <2>5 DEF LooksLike, TypePut
  <2>7. ~ likely => ~ Agreed(k)
    BY <2>2, <2>3, <2>5 DEF LooksLike, SameSize, Agreed
  <2>8. finalizers' = [finalizers EXCEPT ![f] = [pc |-> "read", intent |-> Wanted(f), likely |-> likely]]
    BY <1>1, <1>4, <2>1, <2>3 DEF inspectObject
  <2>9. PICK r : r = [pc |-> "read", intent |-> Wanted(f), likely |-> likely]
    OBVIOUS
  <2>10. r.pc = "read" /\ r.intent = Wanted(f) /\ r.likely = likely
    BY <2>9
  <2>11. FinalizerKnows(r)
    <3>1. IF r.likely THEN TypePut(r.intent) ELSE ~ Agreed(r.intent.key)
      BY <2>5, <2>6, <2>7, <2>10
    <3>. QED
      BY <2>5, <2>10, <3>1 DEF FinalizerKnows
  <2>12. Wanted(f) \in SignedIntents
    BY <2>5 DEF VaultInv, VaultTypeOK
  <2>. QED
    BY <1>2, <2>4, <2>8, <2>9, <2>10, <2>11, <2>12, FinalizerMoves
<1>. QED
  BY <1>3, <1>4

LEMMA ReadStays ==
  ASSUME VaultInv, NEW f \in Finalizers, readObject(f) PROVE VaultInv'
<1>1. PICK k : k = Wanted(f).key
  OBVIOUS
<1>2. /\ finalizers[f].pc = "read" /\ k \in EvidenceKeys /\ Wanted(f) \in intents /\ AllButFinalizers
      /\ Wanted(f).key = k
  BY <1>1, FinalizerIs, FinalizerType DEF readObject, At, VaultInv, AllButFinalizers
<1>3. CASE bucket[k] = NoObject
  <2>1. Ends(f)
    BY <1>1, <1>3 DEF readObject
  <2>. QED
    BY <1>2, <2>1, FinalizerEnds
<1>4. ASSUME bucket[k] # NoObject PROVE VaultInv'
  <2>1. PICK d \in deposits : d.key = k /\ d.content = bucket[k].content
    BY <1>2, <1>4 DEF VaultInv, BucketLogged
  <2>2. IF finalizers[f].likely THEN TypePut(Wanted(f)) ELSE ~ Agreed(k)
    BY <1>1, <1>2, FinalizerIs DEF FinalizerKnows, Wanted
  <2>3. CASE Matches(f, bucket[k].content)
    <3>1. MovesTo(f, "verified")
      BY <1>1, <1>4, <2>3 DEF readObject
    <3>2. BytesPut(Wanted(f)) /\ TypePut(Wanted(f))
      BY <1>2, <2>1, <2>2, <2>3 DEF Matches, BytesPut
    <3>. QED
      BY <1>2, <1>4, <3>1, <3>2, FinalizerPasses
  <2>4. CASE ~ Matches(f, bucket[k].content)
    <3>1. MovesTo(f, "reject")
      BY <1>1, <1>4, <2>4 DEF readObject
    <3>2. ~ Agreed(k)
      BY <1>2, <2>1, <2>2, <2>4 DEF Matches, Agreed
    <3>. QED
      BY <1>2, <3>1, <3>2, FinalizerPasses
  <2>. QED
    BY <2>3, <2>4
<1>. QED
  BY <1>3, <1>4

LEMMA RejectStays ==
  ASSUME VaultInv, NEW f \in Finalizers, rejectMismatch(f) PROVE VaultInv'
<1>1. PICK k : k = Wanted(f).key
  OBVIOUS
<1>2. k \in EvidenceKeys /\ ~ Agreed(k)
  BY <1>1, FinalizerIs, FinalizerType DEF rejectMismatch, At, VaultInv, FinalizerKnows, Wanted
<1>3. PICK r : r = Request("done")
  OBVIOUS
<1>4. r = [pc |-> "done", intent |-> NoIntent, likely |-> FALSE] /\ finalizers' = [finalizers EXCEPT ![f] = r]
  BY <1>3 DEF Request, rejectMismatch, Ends
<1>5. UNCHANGED <<vaultClock, deposits, asked, intents, references, cleaners>>
  BY DEF rejectMismatch
<1>6. /\ bucket' = [bucket EXCEPT ![k] = NoObject] \/ bucket' = bucket
      /\ storageErrors' \in Nat
  BY <1>1, VaultAssumption DEF rejectMismatch, StorageFails, VaultInv, VaultTypeOK
<1>7. VaultTypeOK'
  <2>1. bucket' \in [EvidenceKeys -> Objects]
    BY <1>6 DEF VaultInv, VaultTypeOK, Objects, NoObject
  <2>. QED
    BY <1>4, <1>5, <1>6, <2>1 DEF VaultInv, VaultTypeOK
<1>8. LogGrows /\ SafeStay
  BY <1>2, <1>5, <1>6 DEF LogGrows, SafeStay, VaultInv, VaultTypeOK
<1>9. EvidenceWasVerified' /\ FreshIsKept' /\ RowsDated' /\ RowsAge
  BY <1>5, <1>7, <1>8, LogStays
<1>10. BucketLogged'
  BY <1>5, <1>6 DEF VaultInv, VaultTypeOK, BucketLogged
<1>11. ASSUME NEW g \in Finalizers PROVE FinalizerKnows(finalizers[g])'
  <2>1. finalizers'[g] = IF g = f THEN r ELSE finalizers[g]
    BY <1>4 DEF VaultInv, VaultTypeOK
  <2>2. CASE g = f
    BY <1>4, <2>1, <2>2 DEF FinalizerKnows
  <2>3. CASE g # f
    BY <1>7, <1>8, <1>9, <2>1, <2>3, OthersStay
  <2>. QED
    BY <2>2, <2>3
<1>12. ASSUME NEW w \in Cleaners PROVE CleanerKnows(cleaners[w])'
  BY <1>5, <1>7, <1>8, <1>9, OthersStay
<1>. QED
  BY <1>7, <1>9, <1>10, <1>11, <1>12 DEF VaultInv

(* The row refers to what was verified.                                    *)
LEMMA AttachStays ==
  ASSUME VaultInv, NEW f \in Finalizers, attachReference(f) PROVE VaultInv'
<1>1. CASE UNCHANGED references
  <2>1. AllButFinalizers /\ Ends(f)
    BY <1>1 DEF attachReference, AllButFinalizers
  <2>. QED
    BY <2>1, FinalizerEnds
<1>2. ASSUME references' = [references EXCEPT ![Wanted(f).key[1]] =
                             [version |-> Wanted(f).key[2], content |-> Wanted(f).content, at |-> vaultClock]]
      PROVE  VaultInv'
  <2>1. PICK key, c : key = Wanted(f).key /\ c = Wanted(f).content
    OBVIOUS
  <2>2. /\ key \in EvidenceKeys /\ key[1] \in Evidences /\ key[2] \in Versions /\ c \in Contents
        /\ Wanted(f) \in intents /\ finalizers[f].pc = "verified"
    BY <2>1, FinalizerIs, FinalizerType DEF attachReference, At, VaultInv
  <2>3. UNCHANGED <<vaultClock, bucket, deposits, asked, intents, cleaners, storageErrors>>
    BY DEF attachReference
  <2>4. PICK r : r = Request("done")
    OBVIOUS
  <2>5. r = [pc |-> "done", intent |-> NoIntent, likely |-> FALSE] /\ finalizers' = [finalizers EXCEPT ![f] = r]
    BY <2>4 DEF Request, attachReference, Ends
  <2>6. VaultTypeOK'
    BY <1>2, <2>1, <2>2, <2>3, <2>5 DEF VaultInv, VaultTypeOK
  <2>7. LogGrows /\ SafeStay
    BY <2>3 DEF LogGrows, SafeStay, VaultInv, VaultTypeOK
  <2>8. ASSUME NEW k \in EvidenceKeys
        PROVE  \/ k = key /\ Reference(k)' = c /\ references'[k[1]].at = vaultClock
               \/ Reference(k)' = NoContent
               \/ Reference(k)' = Reference(k) /\ references'[k[1]] = references[k[1]]
    <3>1. k[1] \in Evidences /\ k = <<k[1], k[2]>> /\ key = <<key[1], key[2]>>
      BY <2>2 DEF EvidenceKeys
    <3>2. PICK row : row = [version |-> key[2], content |-> c, at |-> vaultClock]
      OBVIOUS
    <3>3. row.version = key[2] /\ row.content = c /\ row.at = vaultClock
      BY <3>2
    <3>4. references' = [references EXCEPT ![key[1]] = row]
      BY <1>2, <2>1, <3>2
    <3>5. references'[k[1]] = IF k[1] = key[1] THEN row ELSE references[k[1]]
      BY <2>2, <3>1, <3>4 DEF VaultInv, VaultTypeOK
    <3>. QED
      BY <3>1, <3>3, <3>5 DEF Reference
  <2>9. FinalizerKnows(finalizers[f])
    BY FinalizerIs
  <2>10. /\ BytesPut(Wanted(f)) /\ TypePut(Wanted(f)) /\ \E i \in intents : i.key = key /\ i.content = c
         /\ Agreed(key) /\ StillFresh(key) => bucket[key] # NoObject
    BY <2>1, <2>2, <2>9 DEF FinalizerKnows, Wanted
  <2>11. EvidenceWasVerified'
    <3>1. ASSUME NEW k \in EvidenceKeys, Reference(k)' # NoContent
          PROVE  /\ \E i \in intents : i.key = k /\ i.content = Reference(k)'
                 /\ \E d \in deposits : d.key = k /\ d.content.bytes = Reference(k)'.bytes
                 /\ \E d \in deposits : d.key = k /\ d.content.type = Reference(k)'.type
                                       /\ SameSize(d.content.bytes, Reference(k)'.bytes)
      <4>1. CASE k = key /\ Reference(k)' = c
        BY <2>1, <2>10, <4>1 DEF BytesPut, TypePut
      <4>2. CASE Reference(k)' = Reference(k)
        BY <3>1, <4>2 DEF VaultInv, EvidenceWasVerified
      <4>. QED
        BY <2>8, <3>1, <4>1, <4>2
    <3>. QED
      BY <2>3, <3>1 DEF EvidenceWasVerified
  <2>12. FreshIsKept' /\ RowsAge /\ RowsDated'
    <3>1. ASSUME NEW k \in EvidenceKeys, Reference(k)' # NoContent, Agreed(k), FinalizedYoung(k)'
          PROVE  bucket[k] # NoObject
      <4>1. CASE k = key /\ references'[k[1]].at = vaultClock
        <5>1. StillFresh(k)
          BY <2>3, <3>1, <4>1 DEF FinalizedYoung, StillFresh
        <5>. QED
          BY <2>10, <3>1, <4>1, <5>1
      <4>2. CASE Reference(k)' = Reference(k) /\ references'[k[1]] = references[k[1]]
        <5>1. FinalizedYoung(k)
          BY <2>3, <3>1, <4>2 DEF FinalizedYoung
        <5>. QED
          BY <3>1, <4>2, <5>1 DEF VaultInv, FreshIsKept
      <4>. QED
        BY <2>8, <3>1, <4>1, <4>2
    <3>2. FreshIsKept'
      BY <2>3, <3>1 DEF FreshIsKept, Agreed
    <3>3. ASSUME NEW k \in EvidenceKeys, NEW t \in Nat, t <= vaultClock, NotBefore(k, t) PROVE NotBefore(k, t)'
      BY <2>8, <3>3 DEF NotBefore
    <3>4. ASSUME NEW e \in Evidences PROVE references'[e].at <= vaultClock
      <4>1. references'[e] \in {references[e], [version |-> key[2], content |-> c, at |-> vaultClock]}
        BY <1>2, <2>1, <2>2 DEF VaultInv, VaultTypeOK
      <4>. QED
        BY <4>1 DEF VaultInv, RowsDated, VaultTypeOK
    <3>. QED
      BY <2>3, <3>2, <3>3, <3>4 DEF RowsAge, RowsDated
  <2>13. BucketLogged'
    BY <2>3 DEF VaultInv, BucketLogged
  <2>14. ASSUME NEW g \in Finalizers PROVE FinalizerKnows(finalizers[g])'
    <3>1. finalizers'[g] = IF g = f THEN r ELSE finalizers[g]
      BY <2>5 DEF VaultInv, VaultTypeOK
    <3>2. CASE g = f
      BY <2>5, <3>1, <3>2 DEF FinalizerKnows
    <3>3. CASE g # f
      BY <2>6, <2>7, <2>12, <3>1, <3>3, OthersStay
    <3>. QED
      BY <3>2, <3>3
  <2>15. ASSUME NEW w \in Cleaners PROVE CleanerKnows(cleaners[w])'
    BY <2>3, <2>6, <2>7, <2>12, OthersStay
  <2>. QED
    BY <2>6, <2>11, <2>12, <2>13, <2>14, <2>15 DEF VaultInv
<1>. QED
  BY <1>1, <1>2 DEF attachReference

-----------------------------------------------------------------------------

(* A step that leaves the bucket, the rows and the finalizations.          *)
LEMMA CleanerMoves ==
  ASSUME VaultInv, NEW w \in Cleaners, NEW run,
         UNCHANGED <<vaultClock, deposits, asked, intents, references, finalizers>>,
         cleaners' = [cleaners EXCEPT ![w] = run],
         run \in [pc : {"idle", "check", "remove"}, since : Nat, page : SUBSET [key : EvidenceKeys, at : Nat]],
         CleanerKnows(run), SafeStay, storageErrors' \in Nat,
         \A k \in EvidenceKeys : bucket'[k] \in {bucket[k], NoObject},
         bucket' \in [EvidenceKeys -> Objects]
  PROVE  VaultInv'
<1>1. VaultTypeOK'
  BY DEF VaultInv, VaultTypeOK
<1>2. LogGrows
  BY DEF LogGrows, VaultInv, VaultTypeOK
<1>3. EvidenceWasVerified' /\ FreshIsKept' /\ RowsDated' /\ RowsAge
  BY <1>1, <1>2, LogStays
<1>4. BucketLogged'
  BY DEF VaultInv, VaultTypeOK, BucketLogged
<1>5. ASSUME NEW f \in Finalizers PROVE FinalizerKnows(finalizers[f])'
  BY <1>1, <1>2, <1>3, OthersStay
<1>6. ASSUME NEW v \in Cleaners PROVE CleanerKnows(cleaners[v])'
  <2>1. cleaners'[v] = IF v = w THEN run ELSE cleaners[v]
    BY DEF VaultInv, VaultTypeOK
  <2>2. CASE v = w
    BY <2>1, <2>2 DEF CleanerKnows, NotBefore, Reference
  <2>3. CASE v # w
    BY <1>1, <1>2, <1>3, <2>1, <2>3, OthersStay
  <2>. QED
    BY <2>2, <2>3
<1>. QED
  BY <1>1, <1>3, <1>4, <1>5, <1>6 DEF VaultInv

(* A clean-up looks at one object after the other.                         *)
LEMMA RunChanges ==
  ASSUME NEW run \in CleanerRecords
  PROVE  [run EXCEPT !.pc = "remove"] = [pc |-> "remove", since |-> run.since, page |-> run.page]
BY DEF CleanerRecords

LEMMA PastKnows ==
  ASSUME VaultInv, NEW w \in Cleaners, NEW o
  PROVE  PastObject(cleaners[w], o) \in CleanerRecords /\ CleanerKnows(PastObject(cleaners[w], o))
<1>1. PICK run \in CleanerRecords : run = cleaners[w]
  BY DEF VaultInv, VaultTypeOK, CleanerRecords
<1>2. CleanerKnows(run)
  BY <1>1 DEF VaultInv
<1>3. CASE run.page = {o}
  <2>1. PastObject(run, o) = [pc |-> "idle", since |-> 0, page |-> {}]
    BY <1>3 DEF PastObject, NoCleanup
  <2>. QED
    BY <1>1, <2>1 DEF CleanerRecords, CleanerKnows, VaultInv, VaultTypeOK
<1>4. CASE run.page # {o}
  <2>1. PastObject(run, o) = [pc |-> "check", since |-> run.since, page |-> run.page \ {o}]
    BY <1>4 DEF PastObject
  <2>. QED
    BY <1>1, <1>2, <2>1 DEF CleanerRecords, CleanerKnows
<1>. QED
  BY <1>3, <1>4

LEMMA CleanupStays ==
  ASSUME VaultInv, NEW w \in Cleaners, cleanup(w) PROVE VaultInv'
<1>1. PICK run : run = [pc |-> "check", since |-> vaultClock, page |-> {[key |-> k, at |-> bucket[k].at] : k \in FirstPage}]
  OBVIOUS
<1>2. ASSUME NEW k \in FirstPage
      PROVE  /\ [key |-> k, at |-> bucket[k].at] \in [key : EvidenceKeys, at : Nat]
             /\ \E d \in deposits : d.key = k /\ d.at = bucket[k].at
  <2>1. k \in EvidenceKeys /\ bucket[k] # NoObject
    BY DEF FirstPage, Present
  <2>. QED
    BY <2>1 DEF VaultInv, VaultTypeOK, BucketLogged, Objects
<1>3. run \in CleanerRecords
  BY <1>1, <1>2 DEF CleanerRecords, VaultInv, VaultTypeOK
<1>4. CleanerKnows(run)
  BY <1>1, <1>2 DEF CleanerKnows, VaultInv, VaultTypeOK
<1>5. /\ UNCHANGED <<vaultClock, bucket, deposits, asked, intents, references, finalizers, storageErrors>>
      /\ cleaners' = [cleaners EXCEPT ![w] = run]
  BY <1>1 DEF cleanup
<1>6. /\ SafeStay /\ storageErrors' \in Nat /\ bucket' \in [EvidenceKeys -> Objects]
      /\ \A k \in EvidenceKeys : bucket'[k] \in {bucket[k], NoObject}
  BY <1>5 DEF SafeStay, VaultInv, VaultTypeOK
<1>. QED
  BY <1>3, <1>4, <1>5, <1>6, CleanerMoves DEF CleanerRecords

(* The object whose turn it is, is the only one that comes first.          *)
LEMMA FirstIsOne ==
  ASSUME VaultInv, NEW w \in Cleaners, NEW o \in cleaners[w].page, NEW p \in cleaners[w].page,
         ~ Before(p.key, o.key), ~ Before(o.key, p.key)
  PROVE  o = p
<1>1. /\ o.key \in EvidenceKeys /\ p.key \in EvidenceKeys
  BY DEF VaultInv, VaultTypeOK
<1>2. /\ o.key = <<o.key[1], o.key[2]>> /\ p.key = <<p.key[1], p.key[2]>>
      /\ o.key[1] \in Nat /\ o.key[2] \in Nat /\ p.key[1] \in Nat /\ p.key[2] \in Nat
  <2>1. ASSUME NEW k \in EvidenceKeys PROVE k = <<k[1], k[2]>> /\ k[1] \in Nat /\ k[2] \in Nat
    <3>1. PICK e \in Evidences, v \in Versions : k = <<e, v>>
      BY DEF EvidenceKeys
    <3>. QED
      BY <3>1, VaultAssumption
  <2>. QED
    BY <1>1, <2>1
<1>3. o.key[1] = p.key[1] /\ o.key[2] = p.key[2]
  BY <1>2 DEF Before
<1>. QED
  BY <1>2, <1>3 DEF VaultInv, CleanerKnows

LEMMA LookStays ==
  ASSUME VaultInv, NEW w \in Cleaners, isFinalized(w) PROVE VaultInv'
<1>1. PICK o \in cleaners[w].page :
        /\ FirstOf(w, o)
        /\ cleaners' = [cleaners EXCEPT ![w] =
             IF Abandoned(w, o) THEN [@ EXCEPT !.pc = "remove"]
             ELSE PastObject(@, o)]
  BY DEF isFinalized
<1>2. PICK run \in CleanerRecords : run = cleaners[w]
  BY DEF VaultInv, VaultTypeOK, CleanerRecords
<1>3. UNCHANGED <<vaultClock, bucket, deposits, asked, intents, references, finalizers, storageErrors>>
  BY DEF isFinalized
<1>4. /\ SafeStay /\ storageErrors' \in Nat /\ bucket' \in [EvidenceKeys -> Objects]
      /\ \A k \in EvidenceKeys : bucket'[k] \in {bucket[k], NoObject}
  BY <1>3 DEF SafeStay, VaultInv, VaultTypeOK
<1>5. CASE Abandoned(w, o)
  <2>1. PICK next : next = [pc |-> "remove", since |-> run.since, page |-> run.page]
    OBVIOUS
  <2>2. cleaners' = [cleaners EXCEPT ![w] = next]
    BY <1>1, <1>2, <1>5, <2>1, RunChanges
  <2>3. ASSUME NEW q \in run.page, \A p \in run.page : ~ Before(p.key, q.key) PROVE q = o
    BY <1>1, <1>2, <2>3, FirstIsOne DEF FirstOf
  <2>4. o.at + AbandonedAfter <= run.since /\ NotBefore(o.key, run.since)
    BY <1>2, <1>5 DEF Abandoned, NotBefore
  <2>5. CleanerKnows(run)
    BY <1>2 DEF VaultInv
  <2>6. CleanerKnows(next)
    BY <2>1, <2>3, <2>4, <2>5 DEF CleanerKnows
  <2>7. next \in CleanerRecords
    BY <2>1 DEF CleanerRecords
  <2>. QED
    BY <1>3, <1>4, <2>2, <2>6, <2>7, CleanerMoves DEF CleanerRecords
<1>6. CASE ~ Abandoned(w, o)
  <2>1. PICK next : next = PastObject(cleaners[w], o)
    OBVIOUS
  <2>2. cleaners' = [cleaners EXCEPT ![w] = next]
    BY <1>1, <1>6, <2>1
  <2>3. next \in CleanerRecords /\ CleanerKnows(next)
    BY <2>1, PastKnows
  <2>. QED
    BY <1>3, <1>4, <2>2, <2>3, CleanerMoves DEF CleanerRecords
<1>. QED
  BY <1>5, <1>6

(* What is removed was old when the run began, so its upload makes the key *)
(* one that is not fresh, nor was it when a row has come to refer to it.   *)
LEMMA RemoveStays ==
  ASSUME VaultInv, NEW w \in Cleaners, removeObject(w) PROVE VaultInv'
<1>1. PICK o \in cleaners[w].page :
        /\ FirstOf(w, o)
        /\ \/ /\ bucket' = [bucket EXCEPT ![o.key] = NoObject]
              /\ cleaners' = [cleaners EXCEPT ![w] = PastObject(@, o)]
              /\ UNCHANGED storageErrors
           \/ /\ cleaners' = [cleaners EXCEPT ![w] = NoCleanup]
              /\ StorageFails /\ UNCHANGED bucket
  BY DEF removeObject
<1>2. UNCHANGED <<vaultClock, deposits, asked, intents, references, finalizers>>
  BY DEF removeObject
<1>3. PICK run \in CleanerRecords : run = cleaners[w]
  BY DEF VaultInv, VaultTypeOK, CleanerRecords
<1>4. CASE /\ bucket' = [bucket EXCEPT ![o.key] = NoObject]
           /\ cleaners' = [cleaners EXCEPT ![w] = PastObject(@, o)]
           /\ UNCHANGED storageErrors
  <2>1. CleanerKnows(run) /\ run.pc = "remove"
    BY <1>3 DEF VaultInv, removeObject
  <2>2. o.at + AbandonedAfter <= run.since /\ run.since <= vaultClock /\ NotBefore(o.key, run.since)
    BY <1>1, <1>3, <2>1 DEF CleanerKnows, FirstOf
  <2>3. PICK d \in deposits : d.key = o.key /\ d.at = o.at
    BY <1>3, <2>1 DEF CleanerKnows
  <2>4. o.key \in EvidenceKeys /\ o.at \in Nat /\ run.since \in Nat /\ vaultClock \in Nat
    BY <1>3 DEF CleanerRecords, VaultInv, VaultTypeOK
  <2>5. ~ Safe(o.key)
    <3>1. ~ StillFresh(o.key)
      BY <2>2, <2>3, <2>4, VaultAssumption DEF StillFresh
    <3>2. Reference(o.key) # NoContent => ~ FinalizedYoung(o.key)
      <4>1. references[o.key[1]].at \in Nat
        BY <2>4 DEF VaultInv, VaultTypeOK, EvidenceKeys
      <4>. QED
        BY <2>2, <2>3, <2>4, <4>1, VaultAssumption DEF NotBefore, FinalizedYoung
    <3>. QED
      BY <3>1, <3>2 DEF Safe
  <2>6. /\ bucket' \in [EvidenceKeys -> Objects]
        /\ \A k \in EvidenceKeys : bucket'[k] = IF k = o.key THEN NoObject ELSE bucket[k]
    BY <1>4 DEF VaultInv, VaultTypeOK, Objects, NoObject
  <2>7. SafeStay
    BY <2>5, <2>6 DEF SafeStay
  <2>8. PICK next : next = PastObject(cleaners[w], o)
    OBVIOUS
  <2>9. next \in CleanerRecords /\ CleanerKnows(next) /\ cleaners' = [cleaners EXCEPT ![w] = next]
    BY <1>4, <2>8, PastKnows
  <2>10. storageErrors' \in Nat /\ \A k \in EvidenceKeys : bucket'[k] \in {bucket[k], NoObject}
    BY <1>4, <2>6 DEF VaultInv, VaultTypeOK
  <2>. QED
    BY <1>2, <2>6, <2>7, <2>9, <2>10, CleanerMoves DEF CleanerRecords
<1>5. CASE cleaners' = [cleaners EXCEPT ![w] = NoCleanup] /\ StorageFails /\ UNCHANGED bucket
  <2>1. PICK next : next = [pc |-> "idle", since |-> 0, page |-> {}]
    OBVIOUS
  <2>2. next \in CleanerRecords /\ CleanerKnows(next)
    BY <2>1 DEF CleanerRecords, CleanerKnows, VaultInv, VaultTypeOK
  <2>3. cleaners' = [cleaners EXCEPT ![w] = next]
    BY <1>5, <2>1 DEF NoCleanup
  <2>4. /\ SafeStay /\ storageErrors' \in Nat /\ bucket' \in [EvidenceKeys -> Objects]
        /\ \A k \in EvidenceKeys : bucket'[k] \in {bucket[k], NoObject}
    BY <1>5, VaultAssumption DEF SafeStay, VaultInv, VaultTypeOK, StorageFails
  <2>. QED
    BY <1>2, <2>2, <2>3, <2>4, CleanerMoves DEF CleanerRecords
<1>. QED
  BY <1>1, <1>4, <1>5
-----------------------------------------------------------------------------

(* A step that moves nobody.                                               *)
LEMMA WorldMoves ==
  ASSUME VaultInv, VaultTypeOK', LogGrows, SafeStay, BucketLogged',
         UNCHANGED <<references, finalizers, cleaners>>
  PROVE  VaultInv'
<1>1. EvidenceWasVerified' /\ FreshIsKept' /\ RowsDated' /\ RowsAge
  BY LogStays
<1>2. ASSUME NEW f \in Finalizers PROVE FinalizerKnows(finalizers[f])'
  BY <1>1, OthersStay
<1>3. ASSUME NEW w \in Cleaners PROVE CleanerKnows(cleaners[w])'
  BY <1>1, OthersStay
<1>. QED
  BY <1>1, <1>2, <1>3 DEF VaultInv

LEMMA UploadStays ==
  ASSUME VaultInv, upload PROVE VaultInv'
<1>1. PICK i \in intents, c \in Contents :
        /\ bucket[i.key] = NoObject
        /\ bucket' = [bucket EXCEPT ![i.key] = [content |-> c, at |-> vaultClock]]
        /\ deposits' = deposits \union {[key |-> i.key, content |-> c, at |-> vaultClock]}
        /\ UNCHANGED <<vaultClock, asked, intents, references, finalizers, cleaners, storageErrors>>
  BY DEF upload
<1>2. PICK k \in EvidenceKeys : k = i.key
  BY DEF VaultInv, VaultTypeOK, SignedIntents
<1>3. PICK d \in SignedIntents : d = [key |-> k, content |-> c, at |-> vaultClock]
  BY DEF VaultInv, VaultTypeOK, SignedIntents
<1>4. PICK o \in Objects : o = [content |-> c, at |-> vaultClock]
  BY DEF VaultInv, VaultTypeOK, Objects
<1>5. o # NoObject
  BY <1>4, VaultAssumption DEF NoObject, NoContent, Contents
<1>6. deposits' = deposits \union {d} /\ \A j \in EvidenceKeys : bucket'[j] = IF j = k THEN o ELSE bucket[j]
  BY <1>1, <1>2, <1>3, <1>4 DEF VaultInv, VaultTypeOK
<1>7. VaultTypeOK'
  BY <1>1, <1>2, <1>4, <1>6 DEF VaultInv, VaultTypeOK
<1>8. LogGrows /\ SafeStay
  BY <1>1, <1>5, <1>6 DEF LogGrows, SafeStay, VaultInv, VaultTypeOK
<1>9. BucketLogged'
  <2>1. ASSUME NEW j \in EvidenceKeys, bucket'[j] # NoObject
        PROVE  \E e \in deposits' : e.key = j /\ e.content = bucket'[j].content /\ e.at = bucket'[j].at
    <3>1. CASE j = k
      BY <1>3, <1>4, <1>6, <3>1
    <3>2. CASE j # k
      BY <1>6, <2>1, <3>2 DEF VaultInv, BucketLogged
    <3>. QED
      BY <3>1, <3>2
  <2>. QED
    BY <2>1 DEF BucketLogged
<1>. QED
  BY <1>1, <1>7, <1>8, <1>9, WorldMoves

(* Uploads asked for, intents signed and time.                             *)
LEMMA WorldStays ==
  ASSUME VaultInv, inspectAbsent \/ createUploadIntent \/ TimePasses \/ UNCHANGED vaultVars
  PROVE  VaultInv'
<1>1. UNCHANGED <<bucket, deposits, references>>
  BY DEF inspectAbsent, createUploadIntent, TimePasses, vaultVars
<1>2. SafeStay /\ BucketLogged'
  BY <1>1 DEF SafeStay, VaultInv, BucketLogged
<1>3. CASE inspectAbsent
  <2>1. VaultTypeOK'
    BY <1>3 DEF inspectAbsent, Present, VaultInv, VaultTypeOK
  <2>2. LogGrows /\ UNCHANGED <<finalizers, cleaners>>
    BY <1>3 DEF inspectAbsent, LogGrows, VaultInv, VaultTypeOK
  <2>. QED
    BY <1>1, <1>2, <2>1, <2>2, WorldMoves
<1>4. CASE createUploadIntent
  <2>1. VaultTypeOK'
    BY <1>4 DEF createUploadIntent, VaultInv, VaultTypeOK, SignedIntents
  <2>2. LogGrows /\ UNCHANGED <<finalizers, cleaners>>
    BY <1>4 DEF createUploadIntent, LogGrows, VaultInv, VaultTypeOK
  <2>. QED
    BY <1>1, <1>2, <2>1, <2>2, WorldMoves
<1>5. CASE TimePasses
  <2>1. VaultTypeOK'
    BY <1>5 DEF TimePasses, VaultInv, VaultTypeOK
  <2>2. LogGrows /\ UNCHANGED <<finalizers, cleaners>>
    BY <1>5 DEF TimePasses, LogGrows, VaultInv, VaultTypeOK
  <2>. QED
    BY <1>1, <1>2, <2>1, <2>2, WorldMoves
<1>6. CASE UNCHANGED vaultVars
  <2>1. VaultTypeOK'
    BY <1>6 DEF vaultVars, VaultInv, VaultTypeOK
  <2>2. LogGrows /\ UNCHANGED <<finalizers, cleaners>>
    BY <1>6 DEF vaultVars, LogGrows, VaultInv, VaultTypeOK
  <2>. QED
    BY <1>1, <1>2, <2>1, <2>2, WorldMoves
<1>. QED
  BY <1>3, <1>4, <1>5, <1>6

LEMMA VaultStep ==
  ASSUME VaultInv, [VaultNext]_vaultVars PROVE VaultInv'
<1>1. ASSUME NEW f \in Finalizers, FinalizerStep(f) PROVE VaultInv'
  BY <1>1, FinalizeStays, FindStays, InspectStays, ReadStays, RejectStays, AttachStays DEF FinalizerStep
<1>2. ASSUME NEW w \in Cleaners, CleanerStep(w) PROVE VaultInv'
  BY <1>2, CleanupStays, LookStays, RemoveStays DEF CleanerStep
<1>. QED
  BY <1>1, <1>2, UploadStays, WorldStays DEF VaultNext

LEMMA VaultStarts ==
  ASSUME VaultInit PROVE VaultInv
<1>1. VaultTypeOK
  BY VaultAssumption DEF VaultInit, VaultTypeOK, Objects, NoObject, NoReference, Request, NoCleanup
<1>2. \A k \in EvidenceKeys : Reference(k) = NoContent
  BY DEF VaultInit, Reference, NoReference, EvidenceKeys
<1>3. \A f \in Finalizers : FinalizerKnows(finalizers[f])
  BY DEF VaultInit, Request, FinalizerKnows
<1>4. \A w \in Cleaners : CleanerKnows(cleaners[w])
  BY DEF VaultInit, NoCleanup, CleanerKnows
<1>. QED
  BY <1>1, <1>2, <1>3, <1>4 DEF VaultInv, VaultInit, BucketLogged, EvidenceWasVerified, FreshIsKept, RowsDated, NoReference

LEMMA VaultHolds == VaultSpec => []VaultInv
<1>1. VaultInit => VaultInv
  BY VaultStarts
<1>2. VaultInv /\ [VaultNext]_vaultVars => VaultInv'
  BY VaultStep
<1>. QED
  BY <1>1, <1>2, PTL DEF VaultSpec

(* Requests, clean-ups, intents, files and rows stay well formed.          *)
THEOREM VaultTypeCorrect == VaultSpec => []VaultTypeOK
<1>1. VaultInv => VaultTypeOK
  BY DEF VaultInv
<1>. QED
  BY <1>1, VaultHolds, PTL

(* However finalizations, uploads and clean-ups overlap, a row refers to a *)
(* content that somebody announced under the key, whose bytes somebody put *)
(* there, and whose type somebody gave to something of their size there.   *)
THEOREM EvidenceIsVerified == VaultSpec => []EvidenceWasVerified
<1>1. VaultInv => EvidenceWasVerified
  BY DEF VaultInv
<1>. QED
  BY <1>1, VaultHolds, PTL

(* A file that was finalized before any upload under its key was old, and  *)
(* about whose content nobody disagreed, is in the bucket, whatever age it *)
(* reaches there: a clean-up that began later finds the row, and one that  *)
(* began earlier does not have the file on its list of old ones.           *)
THEOREM FreshStays == VaultSpec => []FreshIsKept
<1>1. VaultInv => FreshIsKept
  BY DEF VaultInv
<1>. QED
  BY <1>1, VaultHolds, PTL

=============================================================================
