----------------------------- MODULE MCWorkers -----------------------------
(***************************************************************************)
(* The two workers that carry a claim on by themselves, the RISK worker at *)
(* the beginning of its life and the finalizer at the end, in one instance *)
(* for TLC.  A behaviour is about one of them, its subject; the other is   *)
(* at rest, in a state in which it has nothing to do.                      *)
(***************************************************************************)
EXTENDS RiskEvaluation, ClaimClosing

VARIABLE subject

workerVars == <<subject, riskVars, closingVars>>

WorkersInit ==
  /\ subject \in {"risk", "closing"}
  /\ RiskInit /\ ClosingInit
  /\ subject # "risk" => analysis.state = "DRAFT" /\ ~ blocked
  /\ subject # "closing" => closingRow.state = "SHORTFALL"

WorkersNext ==
  /\ UNCHANGED subject
  /\ \/ subject = "risk" /\ RiskNext /\ UNCHANGED closingVars
     \/ subject = "closing" /\ ClosingNext /\ UNCHANGED riskVars

(* The one at rest has no fair step: no analysis is queued, no claim is    *)
(* repaid and nothing waits for the indexer.                               *)
FairWorkers == WorkersInit /\ [][WorkersNext]_workerVars /\ RiskFairness /\ ClosingFairness
=============================================================================
