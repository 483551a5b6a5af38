----------------------------- MODULE MCProgress -----------------------------
(***************************************************************************)
(* What a background cycle of the indexer must bring to an end, whatever   *)
(* fails on the way: the submissions of the settlement module and the      *)
(* intake of the contracts' events.  A behaviour is about one of the two,  *)
(* its subject; the other stays in an initial state.                       *)
(***************************************************************************)
EXTENDS SettlementExecution, ChainIntake

VARIABLE subject

progressVars == <<subject, vars, intakeVars>>

MCAmount == [e \in Events |-> 2]

(* Two contracts of which one stops the other, and each of the others.     *)
MCWatches == {<<"claim_lifecycle", "facility">>} \union
  {<<c>> : c \in Range(contractNames) \ {"claim_lifecycle", "facility"}}

ProgressInit ==
  /\ subject \in {"settlement", "intake"}
  /\ Init /\ IntakeInit
  /\ subject # "intake" => Len(watch) = 2

(* A step of one subject, beside which the other rests.                    *)
Settling(A) == subject = "settlement" /\ A /\ UNCHANGED <<subject, intakeVars>>
Taking(A) == subject = "intake" /\ A /\ UNCHANGED <<subject, vars>>

ProgressNext == Settling(Next) \/ Taking(IntakeNext)

(* Fairness and IntakeFairness, for the steps of the subject.              *)
FairSettling(w) ==
  /\ WF_progressVars(Settling(Alone(Cycle(w))))
  /\ SF_progressVars(Settling(Alone(BeginIndex(w, Len(ledger)))))
  /\ \A i \in DOMAIN ContractOrder :
       SF_progressVars(Settling(Alone(commitEvents(w) /\ workers[w].next = i /\ Current(w))))
  /\ SF_progressVars(Settling(Alone(listPendingExpectations(w))))
  /\ SF_progressVars(Settling(Alone(\E k \in Keys : readClaimState(w, k))))
  /\ SF_progressVars(Settling(Alone(readWaterfallState(w))))
  /\ SF_progressVars(Settling(Alone(markReconciled(w) \/ recordFinding(w))))

FairProgress ==
  /\ ProgressInit /\ [][ProgressNext]_progressVars
  /\ \A w \in Workers : FairSettling(w)
  /\ WF_progressVars(Taking(CloseLedger))
  /\ \A y \in Cyclers : WF_progressVars(Taking(CycleStep(y)))
=============================================================================
