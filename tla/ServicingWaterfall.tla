------------------------- MODULE ServicingWaterfall -------------------------
(***************************************************************************)
(* JejakServicingWaterfall: splits one settlement into servicing fee,      *)
(* principal, financing fee and seller residual, covers what principal is  *)
(* still missing from the first-loss escrow, and moves the claim.  One     *)
(* execute call makes several calls to the facility and to the lifecycle;  *)
(* all of them commit together or not at all.                              *)
(***************************************************************************)
EXTENDS Facility

CONSTANTS
  Dues             \* fee amounts an execute call may carry

ASSUME DuesAssumption == Dues \subseteq Int

VARIABLES
  processed,       \* DataKey::Processed(_)
  wfServicers,     \* DataKey::Servicer(_) entries that are true
  wfPaused         \* DataKey::GlobalPause

waterfallVars == <<processed, wfServicers, wfPaused>>

WaterfallTypeOK ==
  /\ processed \subseteq Hashes
  /\ wfServicers \subseteq Actors
  /\ wfPaused \in BOOLEAN

WaterfallInit ==
  /\ processed = {}
  /\ wfServicers = {actor \in Actors : <<"Servicer", actor>> \in Wiring}
  /\ wfPaused = FALSE

Least(a, b) == IF a <= b THEN a ELSE b

\* slip: the first loss is kept for later
allocation_without_first_loss(p, settlement, servicing_due, financing_due) ==
  LET servicing       == Least(settlement, servicing_due)
      principal       == Least(settlement - servicing, p.outstanding)
      financing       == Least(settlement - servicing - principal, financing_due)
  IN  [servicing_fee |-> servicing, principal |-> principal, financing_fee |-> financing,
       first_loss |-> 0, senior_loss |-> p.outstanding - principal,
       residual |-> settlement - servicing - principal - financing]

\* slip: principal is taken from the settlement before the servicing fee
allocation_gross(p, settlement, servicing_due, financing_due) ==
  LET servicing       == Least(settlement, servicing_due)
      principal       == Least(settlement, p.outstanding)
      financing       == Least(settlement - servicing - principal, financing_due)
      gap             == p.outstanding - principal
      firstLoss       == Least(gap, FirstLossAvailable(p))
  IN  [servicing_fee |-> servicing, principal |-> principal, financing_fee |-> financing,
       first_loss |-> firstLoss, senior_loss |-> gap - firstLoss,
       residual |-> settlement - servicing - principal - financing]

(* The split of one settlement over a position, in the order the contract  *)
(* pays: servicing fee, principal, financing fee, seller; then first loss  *)
(* towards the principal the cash did not cover.                           *)
allocation(p, settlement, servicing_due, financing_due) ==
  LET servicing       == Least(settlement, servicing_due)
      afterServicing  == settlement - servicing
      principal       == Least(afterServicing, p.outstanding)
      afterPrincipal  == afterServicing - principal
      financing       == Least(afterPrincipal, financing_due)
      gap             == p.outstanding - principal
      firstLoss       == Least(gap, FirstLossAvailable(p))
  IN  [servicing_fee |-> servicing, principal |-> principal, financing_fee |-> financing,
       first_loss |-> firstLoss, senior_loss |-> gap - firstLoss,
       residual |-> afterPrincipal - financing]

(* A token transfer is made only for a positive amount.                    *)
Paid(amount) == IF amount > 0 THEN amount ELSE 0

-----------------------------------------------------------------------------

authorize_servicer(actor, enabled) ==
  /\ wfServicers' = IF enabled THEN wfServicers \cup {actor} ELSE wfServicers \ {actor}
  /\ UNCHANGED <<claims, facilityVars, processed, wfPaused>>

set_waterfall_pause(paused) ==
  /\ wfPaused' = paused
  /\ UNCHANGED <<claims, facilityVars, processed, wfServicers>>

execute(servicer, c, settlement, servicing_due, financing_due, h, final) ==
  LET p          == positions[c]
      a          == allocation(p, settlement, servicing_due, financing_due)
      toTreasury == Paid(a.principal + a.financing_fee)
      outflow    == Paid(a.servicing_fee) + toTreasury + Paid(a.residual)
      credited   == a.principal + a.first_loss
      shortfall  == p.outstanding - credited
      settling   == [claims[c] EXCEPT !.state = "Settling"]
      outcome    == IF shortfall = 0 THEN "Repaid" ELSE "Shortfall"
  IN
  /\ servicer \in wfServicers
  /\ ~ wfPaused
  /\ settlement > 0
  /\ h \notin processed
  /\ p.exists
  \* the settlement comes in, the allocated cash goes out
  /\ settlement <= cash["servicer"]
  /\ outflow <= cash["waterfall"] + settlement
  \* consume_first_loss
  /\ a.first_loss > 0 => /\ wired
                         /\ servicer \in servicers
                         /\ h \notin firstLossKeys
                         /\ a.first_loss <= FirstLossAvailable(p)
                         /\ a.first_loss <= cash["facility"]
  /\ firstLossKeys' = firstLossKeys \cup (IF a.first_loss > 0 THEN {h} ELSE {})
  /\ cash' = [cash EXCEPT
       !["servicer"]  = @ - settlement + Paid(a.servicing_fee),
       !["waterfall"] = @ + settlement - outflow,
       !["treasury"]  = @ + toTreasury + Paid(a.first_loss),
       !["facility"]  = @ - Paid(a.first_loss),
       !["seller"]    = @ + Paid(a.residual)]
  \* apply_repayment, and finalize_shortfall on a final settlement that leaves a loss
  /\ RepaymentAllowed(servicer, c, credited, h)
  /\ repaymentKeys' = repaymentKeys \cup {h}
  /\ LET consumed == [p EXCEPT !.first_loss_consumed = @ + Paid(a.first_loss)]
         updated  == CreditedPosition(consumed, credited)
         loss     == final /\ shortfall > 0
     IN  /\ loss => wired /\ h \notin lossKeys /\ WriteOffAllowed(updated)
         /\ lossKeys' = lossKeys \cup (IF loss THEN {h} ELSE {})
         /\ positions' = [positions EXCEPT ![c] = IF loss THEN WrittenOff(updated) ELSE updated]
         /\ facilities' = Reduced(c, credited + (IF loss THEN shortfall ELSE 0))
  \* the lifecycle: start settling if need be, then finish on a final settlement
  /\ \/ TransitionAllowed(servicer, claims[c], "Funded", "Settling")
     \/ claims[c].state = "Settling"
  /\ final => TransitionAllowed(servicer, settling, "Settling", outcome)
  /\ claims' = Moved(c, IF final THEN outcome ELSE "Settling")
  /\ processed' = processed \cup {h}
  /\ UNCHANGED <<servicers, wired, wfServicers, wfPaused>>

-----------------------------------------------------------------------------

WaterfallCall ==
  \E actor \in Actors, c \in Claims, s \in Settlements, sd, fd \in Dues, h \in Hashes,
     final \in BOOLEAN : execute(actor, c, s, sd, fd, h, final)

WaterfallBreaker == \E paused \in BOOLEAN : set_waterfall_pause(paused)

WaterfallServicerChange ==
  \E actor \in Actors, enabled \in BOOLEAN : authorize_servicer(actor, enabled)

=============================================================================
