----------------------------- MODULE ChainIndex -----------------------------
(***************************************************************************)
(* The API's view of the chain, for one funded claim: ChainEventIndexer    *)
(* reads the events of the contracts one contract after the other and      *)
(* projects them into chain_portfolio_positions, then compares each        *)
(* pending submission with its event and with the live contract state.     *)
(* The same cycle runs in the API's background loop and inside a           *)
(* reconciliation request, so several workers may be at it.                *)
(*                                                                         *)
(* The chain is the servicing waterfall as seen from outside: a settlement *)
(* is refused or changes the position, and leaves an entry in `ledger`     *)
(* holding the state its events describe.  Financing fees are left out:    *)
(* they only divide what would otherwise be the seller's residual.         *)
(***************************************************************************)
EXTENDS Integers, Sequences, FiniteSets

CONSTANTS
  Keys,          \* idempotency keys of executeClaimWaterfall
  Events,        \* settlement events ingested for the claim
  Amount,        \* the amount of each event, in minor units
  Principal,     \* principal the claim was funded with
  FirstLoss,     \* first loss it was funded with
  ServicingDues, \* servicing fees a command may carry
  Workers,       \* cycles of the indexer that may overlap
  None

ASSUME ChainAssumption ==
  /\ Amount \in [Events -> Nat \ {0}]
  /\ Principal \in Nat \ {0} /\ FirstLoss \in Nat /\ ServicingDues \subseteq Nat

\* Idempotency keys are strings of at most 255 characters.
ASSUME KeysAssumption == IsFiniteSet(Keys) /\ None \notin Keys

VARIABLES
  position,      \* the contracts' own state of the claim
  ledger,        \* executed settlements, oldest first
  inflight,      \* transactions sent and not yet included
  indexed,       \* per contract: how much of the ledger is in chain_events
  projection,    \* chain_portfolio_positions row of the claim
  claim,         \* claims row: state and version
  submissions,   \* chain_submissions with their expectation, by key
  workers        \* where each worker is in its cycle

chainVars == <<position, ledger, inflight>>
apiVars == <<indexed, projection, claim, submissions, workers>>

(* contractNames: the order in which a cycle visits the contracts.  Only   *)
(* the three whose events a settlement emits are kept.                     *)
ContractOrder == <<"claim_lifecycle", "facility", "servicing_waterfall">>

ContractNames == {ContractOrder[i] : i \in DOMAIN ContractOrder}

Positions == [state : {"FUNDED", "SETTLING", "REPAID", "SHORTFALL"},
              outstanding : 0..Principal, consumed : 0..FirstLoss]

Funded == [state |-> "FUNDED", outstanding |-> Principal, consumed |-> 0]

(* What a command asks for, and what canonicalHash covers: the event, the  *)
(* finality, the fee due and the position it was computed from.  Two       *)
(* commands have the same result hash exactly when they are equal.         *)
Command ==
  [event : Events, final : BOOLEAN, due : ServicingDues,
   outstanding : 0..Principal, consumed : 0..FirstLoss]

Transactions == [id : Nat, key : Keys, cmd : Command]

(* A chain_submissions row: the expectation and the transaction it names.  *)
Submission ==
  [cmd : Command, tx : Nat \ {0}, status : {"PENDING", "RECONCILED", "MISMATCH"}]

ASSUME NoSubmissionAssumption == None \notin Submission

Lesser(a, b) == IF a < b THEN a ELSE b

(* calculateWaterfall, over the position p.                                *)
calculateWaterfall(cmd, p) ==
  LET settlement == Amount[cmd.event]
      servicing  == Lesser(settlement, cmd.due)
      principal  == Lesser(settlement - servicing, p.outstanding)
      gap        == p.outstanding - principal
      firstLoss  == Lesser(gap, FirstLoss - p.consumed)
      exposure   == gap - firstLoss
  IN  [servicing  |-> servicing,
       principal  |-> principal,
       firstLoss  |-> firstLoss,
       seniorLoss |-> IF cmd.final THEN exposure ELSE 0,
       residual   |-> settlement - servicing - principal]

expectedClaimState(cmd) ==
  IF ~ cmd.final THEN "SETTLING"
  ELSE IF calculateWaterfall(cmd, cmd).seniorLoss > 0 THEN "SHORTFALL" ELSE "REPAID"

-----------------------------------------------------------------------------
(* The chain.                                                              *)

ExecutedCommands == {ledger[i].cmd : i \in DOMAIN ledger}

(* What execute answers, in a simulation and when the transaction lands.   *)
Accepts(cmd) ==
  /\ cmd \notin ExecutedCommands
  /\ position.state \in {"FUNDED", "SETTLING"}

After(cmd) ==
  LET a    == calculateWaterfall(cmd, position)
      left == position.outstanding - a.principal - a.firstLoss
  IN  [state |-> IF ~ cmd.final THEN "SETTLING" ELSE IF left > 0 THEN "SHORTFALL" ELSE "REPAID",
       outstanding |-> IF cmd.final THEN 0 ELSE left,
       consumed |-> position.consumed + a.firstLoss]

(* A transaction in flight is included, or expires.  All that are in       *)
(* flight were built by the servicer's account for its next sequence       *)
(* number, so including one, even one that fails, leaves no other valid.   *)
Land(tx) ==
  /\ tx \in inflight
  /\ inflight' = {}
  /\ IF Accepts(tx.cmd)
       THEN /\ position' = After(tx.cmd)
            /\ ledger' = Append(ledger, [id |-> tx.id, key |-> tx.key, cmd |-> tx.cmd,
                                       after |-> After(tx.cmd)])
       ELSE UNCHANGED <<position, ledger>>
  /\ UNCHANGED apiVars

Expire(tx) ==
  /\ tx \in inflight
  /\ inflight' = inflight \ {tx}
  /\ UNCHANGED <<position, ledger, apiVars>>

-----------------------------------------------------------------------------
(* Indexing.                                                               *)

IdleWorker == [pc |-> "idle", snapshot |-> 0, next |-> 1, todo |-> {},
               key |-> None, matches |-> FALSE]

(* index: the ledger observed is one the RPC node already knows, and the   *)
(* cycle keeps to it for every contract.                                   *)
BeginIndex(w, snapshot) ==
  /\ workers[w].pc = "idle"
  /\ workers' = [workers EXCEPT ![w] = [IdleWorker EXCEPT !.pc = "index", !.snapshot = snapshot]]
  /\ UNCHANGED <<chainVars, indexed, projection, claim, submissions>>

(* The position after the first n settlements, as their events tell it.    *)
Upto(n) == IF n = 0 THEN Funded ELSE ledger[n].after

\* slip: events read again in the overlap count as new
FirstNew_overlap(contract) == IF indexed[contract] = 0 THEN 0 ELSE indexed[contract] - 1

(* Events already stored are passed over.                                  *)
FirstNew(contract) == indexed[contract]

(* What the events of one contract make of the projection, after the       *)
(* from-th settlement and up to the n-th: lifecycle events carry the       *)
(* state, facility events reduce what is outstanding, and waterfall events *)
(* add to the first loss consumed.                                         *)
Projected(contract, from, n) ==
  CASE contract = "claim_lifecycle"     -> [projection EXCEPT !.state = Upto(n).state]
    [] contract = "facility"            ->
         [projection EXCEPT !.outstanding = @ - (Upto(from).outstanding - Upto(n).outstanding)]
    [] contract = "servicing_waterfall" ->
         [projection EXCEPT !.consumed = @ + (Upto(n).consumed - Upto(from).consumed)]

NextContract(w) ==
  workers' = [workers EXCEPT ![w] =
    IF workers[w].next < Len(ContractOrder) THEN [workers[w] EXCEPT !.next = @ + 1]
    ELSE [IdleWorker EXCEPT !.pc = "list"]]

\* slip: a cycle that finds nothing new goes back to sleep
commitEvents_quiet(w) ==
  LET contract == ContractOrder[workers[w].next]
      upto     == workers[w].snapshot
  IN  /\ workers[w].pc = "index"
      /\ IF upto > FirstNew(contract)
           THEN /\ indexed' = [indexed EXCEPT ![contract] = upto]
                /\ projection' = Projected(contract, FirstNew(contract), upto)
                /\ NextContract(w)
           ELSE /\ UNCHANGED <<indexed, projection>>
                /\ workers' = [workers EXCEPT ![w] = IdleWorker]
      /\ UNCHANGED <<chainVars, claim, submissions>>

(* commitEvents for the next contract: the new events are stored and       *)
(* projected in one transaction.                                           *)
commitEvents(w) ==
  LET contract == ContractOrder[workers[w].next]
      upto     == workers[w].snapshot
  IN  /\ workers[w].pc = "index"
      /\ IF upto > FirstNew(contract)
           THEN /\ indexed' = [indexed EXCEPT ![contract] = upto]
                /\ projection' = Projected(contract, FirstNew(contract), upto)
           ELSE UNCHANGED <<indexed, projection>>
      /\ NextContract(w)
      /\ UNCHANGED <<chainVars, claim, submissions>>

(* An RPC or database error ends the cycle, and so does the end of the     *)
(* process; what was committed stays.                                      *)
CycleFails(w) ==
  /\ workers[w].pc # "idle"
  /\ workers' = [workers EXCEPT ![w] = IdleWorker]
  /\ UNCHANGED <<chainVars, indexed, projection, claim, submissions>>

-----------------------------------------------------------------------------
(* Reconciliation.                                                         *)

Pending(k) == submissions[k] # None /\ submissions[k].status = "PENDING"

listPendingExpectations(w) ==
  /\ workers[w].pc = "list"
  /\ workers' = [workers EXCEPT ![w] =
       [@ EXCEPT !.pc = "next", !.todo = {k \in Keys : Pending(k)}]]
  /\ UNCHANGED <<chainVars, indexed, projection, claim, submissions>>

(* The worker takes the expectation of key k off its list, and puts it     *)
(* aside or goes on with it.                                               *)
Skipped(w, k) == workers' = [workers EXCEPT ![w].todo = @ \ {k}]

Compared(w, k, pc, matches) ==
  workers' = [workers EXCEPT ![w] =
    [workers[w] EXCEPT !.pc = pc, !.key = k, !.todo = @ \ {k}, !.matches = matches]]

EventIndexed(k) == submissions[k].tx <= indexed["servicing_waterfall"]

(* The event is not there yet: the expectation is left for a later cycle,  *)
(* or, once the submission is old enough, found to be missing its event.   *)
EventMissing(w, k) ==
  /\ workers[w].pc = "next" /\ k \in workers[w].todo
  /\ ~ EventIndexed(k)
  /\ Skipped(w, k) \/ Compared(w, k, "conclude", FALSE)
  /\ UNCHANGED <<chainVars, indexed, projection, claim, submissions>>

(* The event is there.  It is compared with what was expected, and so is   *)
(* the state the lifecycle contract answers now.                           *)
readClaimState(w, k) ==
  LET expected == submissions[k].cmd
  IN  /\ workers[w].pc = "next" /\ k \in workers[w].todo
      /\ EventIndexed(k)
      /\ Compared(w, k, "readWaterfall",
                  /\ ledger[submissions[k].tx].cmd = expected
                  /\ position.state = expectedClaimState(expected))
      /\ UNCHANGED <<chainVars, indexed, projection, claim, submissions>>

(* The waterfall contract holds one result for the claim, the last one.    *)
readWaterfallState(w) ==
  LET expected == submissions[workers[w].key].cmd
  IN  /\ workers[w].pc = "readWaterfall"
      /\ workers' = [workers EXCEPT ![w] =
           [workers[w] EXCEPT !.pc = "conclude", !.matches = @ /\ ledger[Len(ledger)].cmd = expected]]
      /\ UNCHANGED <<chainVars, indexed, projection, claim, submissions>>

(* The worker turns to its next expectation.                               *)
Concluded(w) ==
  workers' = [workers EXCEPT ![w] = [@ EXCEPT !.pc = "next", !.key = None, !.matches = FALSE]]

Conclude(k, status) == submissions' = [submissions EXCEPT ![k].status = status]

ClaimSet(state) == claim' = [state |-> state, version |-> claim.version + 1]

\* slip: the submission's status is not looked at
markReconciled_regardless(w) ==
  LET k   == workers[w].key
      cmd == submissions[k].cmd
  IN  /\ workers[w].pc = "conclude" /\ workers[w].matches
      /\ Conclude(k, "RECONCILED")
      /\ projection' = [projection EXCEPT !.fees = @ + calculateWaterfall(cmd, cmd).servicing]
      /\ IF claim.state # expectedClaimState(cmd) THEN ClaimSet(expectedClaimState(cmd))
                                                  ELSE UNCHANGED claim
      /\ Concluded(w)
      /\ UNCHANGED <<chainVars, indexed>>

(* markReconciled, for an expectation that was met.                        *)
markReconciled(w) ==
  LET k   == workers[w].key
      cmd == submissions[k].cmd
  IN  /\ workers[w].pc = "conclude" /\ workers[w].matches
      /\ submissions[k].status = "PENDING"
      /\ Conclude(k, "RECONCILED")
      /\ projection' = [projection EXCEPT !.fees = @ + calculateWaterfall(cmd, cmd).servicing]
      /\ IF claim.state # expectedClaimState(cmd) THEN ClaimSet(expectedClaimState(cmd))
                                                  ELSE UNCHANGED claim
      /\ Concluded(w)
      /\ UNCHANGED <<chainVars, indexed>>

(* A submission another cycle has reconciled is left as it is; one found   *)
(* mismatched makes markReconciled throw, which ends the cycle.            *)
markReconciledTooLate(w) ==
  LET status == submissions[workers[w].key].status
  IN  /\ workers[w].pc = "conclude" /\ workers[w].matches
      /\ status # "PENDING"
      /\ IF status = "RECONCILED" THEN Concluded(w)
         ELSE workers' = [workers EXCEPT ![w] = IdleWorker]
      /\ UNCHANGED <<chainVars, indexed, projection, claim, submissions>>

(* recordFinding: the submission is mismatched and the claim is paused.    *)
recordFinding(w) ==
  /\ workers[w].pc = "conclude" /\ ~ workers[w].matches
  /\ Conclude(workers[w].key, "MISMATCH")
  /\ IF claim.state # "PAUSED" THEN ClaimSet("PAUSED") ELSE UNCHANGED claim
  /\ Concluded(w)
  /\ UNCHANGED <<chainVars, indexed, projection>>

EndCycle(w) ==
  /\ workers[w].pc = "next" /\ workers[w].todo = {}
  /\ workers' = [workers EXCEPT ![w] = IdleWorker]
  /\ UNCHANGED <<chainVars, indexed, projection, claim, submissions>>

-----------------------------------------------------------------------------

ChainInit ==
  /\ position = Funded
  /\ ledger = <<>>
  /\ inflight = {}
  /\ indexed = [contract \in ContractNames |-> 0]
  /\ projection = [state |-> "FUNDED", outstanding |-> Principal, consumed |-> 0, fees |-> 0]
  /\ claim = [state |-> "FUNDED", version |-> 0]
  /\ submissions = [k \in Keys |-> None]
  /\ workers = [w \in Workers |-> IdleWorker]

Cycle(w) ==
  \/ \E snapshot \in 0..Len(ledger) : BeginIndex(w, snapshot)
  \/ commitEvents(w)
  \/ listPendingExpectations(w)
  \/ \E k \in Keys : EventMissing(w, k) \/ readClaimState(w, k)
  \/ readWaterfallState(w)
  \/ markReconciled(w)
  \/ markReconciledTooLate(w)
  \/ recordFinding(w)
  \/ EndCycle(w)
  \/ CycleFails(w)

=============================================================================
