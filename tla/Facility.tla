------------------------------ MODULE Facility ------------------------------
(***************************************************************************)
(* JejakFacility: funds an issued claim out of a facility's treasury,      *)
(* holds the first-loss escrow, and keeps one position per claim and one   *)
(* aggregate (outstanding) per facility.                                   *)
(*                                                                         *)
(* The funding asset (JUSD) is an external token; `cash` is its balance on *)
(* the five accounts the protocol moves it between.  Every facility of an  *)
(* instance pays from the same treasury account and every seller is paid   *)
(* on the same account: the properties tell the sides apart, not the names.*)
(* A position's facility_id is copied from its claim, whose facility never *)
(* changes, so it is read from the claim.                                  *)
(***************************************************************************)
EXTENDS AssetController

CONSTANTS
  FirstLosses,     \* first-loss amounts a funding call may carry
  Settlements,     \* settlement and repayment amounts
  Limits,          \* FacilityLimits an admin may configure
  Hashes,          \* result hashes
  ZeroHash,        \* the all-zero hash record_repayment uses
  TreasuryCash,    \* JUSD the treasury starts with
  ServicerCash     \* JUSD the servicer collects off-chain and starts with

FacilityLimits ==
  [max_total_principal : Nat \ {0}, max_position_principal : Nat \ {0},
   max_first_loss : Nat, servicing_fee_cap : Int, financing_fee_cap : Int]

ASSUME FacilityAssumption ==
  /\ FirstLosses \subseteq Nat
  /\ Settlements \subseteq Nat \ {0}
  /\ Limits \subseteq FacilityLimits
  /\ ZeroHash \notin Hashes
  /\ TreasuryCash \in Nat
  /\ ServicerCash \in Nat

VARIABLES
  facilities,      \* DataKey::Facility(_)
  positions,       \* DataKey::Position(_)
  servicers,       \* DataKey::Servicer(_) entries that are true
  wired,           \* DataKey::Waterfall is the waterfall contract modelled here
  repaymentKeys,   \* DataKey::Repayment(_)
  firstLossKeys,   \* DataKey::FirstLoss(_)
  lossKeys,        \* DataKey::Loss(_)
  cash             \* external: JUSD balances

facilityVars ==
  <<facilities, positions, servicers, wired, repaymentKeys, firstLossKeys, lossKeys, cash>>

Accounts == {"treasury", "seller", "servicer", "facility", "waterfall"}

FacilityConfig ==
  [configured : BOOLEAN, operator : Actors \cup {None}, limits : Limits \cup {None},
   outstanding : Int, paused : BOOLEAN]

Position ==
  [exists : BOOLEAN, principal : Nat, outstanding : Nat, first_loss_funded : Nat,
   first_loss_consumed : Nat, repaid : Nat, active : BOOLEAN]

NoPosition ==
  [exists |-> FALSE, principal |-> 0, outstanding |-> 0, first_loss_funded |-> 0,
   first_loss_consumed |-> 0, repaid |-> 0, active |-> FALSE]

FacilityTypeOK ==
  /\ facilities \in [Facilities -> FacilityConfig]
  /\ positions \in [Claims -> Position]
  /\ servicers \subseteq Actors
  /\ wired \in BOOLEAN
  /\ repaymentKeys \subseteq Hashes \cup {ZeroHash}
  /\ firstLossKeys \subseteq Hashes
  /\ lossKeys \subseteq Hashes
  /\ cash \in [Accounts -> Nat]

FacilityInit ==
  /\ facilities = [f \in Facilities |->
       [configured |-> FALSE, operator |-> None, limits |-> None,
        outstanding |-> 0, paused |-> FALSE]]
  /\ positions = [c \in Claims |-> NoPosition]
  /\ servicers = {actor \in Actors : <<"Servicer", actor>> \in Wiring}
  /\ wired = TRUE
  /\ repaymentKeys = {}
  /\ firstLossKeys = {}
  /\ lossKeys = {}
  /\ cash = [a \in Accounts |-> CASE a = "treasury" -> TreasuryCash
                                  [] a = "servicer" -> ServicerCash
                                  [] OTHER -> 0]

FirstLossAvailable(p) == p.first_loss_funded - p.first_loss_consumed

Transferred(from, to, amount) ==
  [cash EXCEPT ![from] = @ - amount, ![to] = @ + amount]

-----------------------------------------------------------------------------

(* Writes the configuration afresh: also on a facility that has positions. *)
configure_facility(f, operator, limits) ==
  /\ facilities' = [facilities EXCEPT ![f] =
       [configured |-> TRUE, operator |-> operator, limits |-> limits,
        outstanding |-> 0, paused |-> FALSE]]
  /\ UNCHANGED <<claims, positions, servicers, wired, repaymentKeys, firstLossKeys, lossKeys, cash>>

configure_servicing(actor, enabled) ==
  /\ servicers' = IF enabled THEN servicers \cup {actor} ELSE servicers \ {actor}
  /\ UNCHANGED <<claims, facilities, positions, wired, repaymentKeys, firstLossKeys, lossKeys, cash>>

set_waterfall(this) ==
  /\ wired' = this
  /\ UNCHANGED <<claims, facilities, positions, servicers, repaymentKeys, firstLossKeys, lossKeys, cash>>

pause_facility(f, paused) ==
  /\ facilities[f].configured
  /\ facilities' = [facilities EXCEPT ![f].paused = paused]
  /\ UNCHANGED <<claims, positions, servicers, wired, repaymentKeys, firstLossKeys, lossKeys, cash>>

OpenPosition(principal, first_loss) ==
  [exists |-> TRUE, principal |-> principal, outstanding |-> principal,
   first_loss_funded |-> first_loss, first_loss_consumed |-> 0,
   repaid |-> 0, active |-> TRUE]

(* Principal to the seller, first loss into the facility's escrow.         *)
Disbursed(principal, first_loss) ==
  [cash EXCEPT !["treasury"] = @ - principal - first_loss,
               !["seller"] = @ + principal, !["facility"] = @ + first_loss]

\* slip: the total limit is compared with the new principal alone
WithinLimits_each(facility, principal, first_loss) ==
  /\ principal <= facility.limits.max_position_principal
  /\ first_loss <= facility.limits.max_first_loss
  /\ principal <= facility.limits.max_total_principal

WithinLimits(facility, principal, first_loss) ==
  /\ principal <= facility.limits.max_position_principal
  /\ first_loss <= facility.limits.max_first_loss
  /\ facility.outstanding + principal <= facility.limits.max_total_principal

(* Pay the seller, escrow the first loss, open the position and move the   *)
(* claim to Funded.                                                        *)
fund(operator, c, principal, first_loss) ==
  LET f == claims[c].facility IN
  /\ principal > 0
  /\ claims[c].state = "Issued"
  /\ attestation_active(c)
  /\ f \in Facilities /\ facilities[f].configured
  /\ operator = facilities[f].operator
  /\ ~ facilities[f].paused
  /\ WithinLimits(facilities[f], principal, first_loss)
  /\ principal = claims[c].approved
  /\ principal = issued[c]
  /\ ~ positions[c].exists
  /\ principal + first_loss <= cash["treasury"]
  /\ cash' = Disbursed(principal, first_loss)
  /\ positions' = [positions EXCEPT ![c] = OpenPosition(principal, first_loss)]
  /\ facilities' = [facilities EXCEPT ![f].outstanding = @ + principal]
  /\ TransitionAllowed(operator, claims[c], "Issued", "Funded")
  /\ claims' = Moved(c, "Funded")
  /\ UNCHANGED <<servicers, wired, repaymentKeys, firstLossKeys, lossKeys>>

\* slip: a position paid in full stays active
CreditedPosition_active(p, amount) ==
  [p EXCEPT !.outstanding = @ - amount, !.repaid = @ + amount]

(* What apply_repayment makes of a position, and its guards.               *)
CreditedPosition(p, amount) ==
  [p EXCEPT !.outstanding = @ - amount, !.repaid = @ + amount,
            !.active = @ /\ p.outstanding # amount]

\* slip: more may be credited than is outstanding
RepaymentAllowed_beyond(servicer, c, amount, h) ==
  /\ servicer \in servicers
  /\ amount >= 0
  /\ h \notin repaymentKeys
  /\ positions[c].exists

RepaymentAllowed(servicer, c, amount, h) ==
  /\ servicer \in servicers
  /\ amount >= 0
  /\ h \notin repaymentKeys
  /\ positions[c].exists
  /\ amount <= positions[c].outstanding

Reduced(c, amount) ==
  [facilities EXCEPT ![claims[c].facility].outstanding = @ - amount]

(* apply_repayment called directly by a servicer: the position is credited *)
(* and no cash moves.                                                      *)
apply_repayment(servicer, c, amount, h) ==
  /\ RepaymentAllowed(servicer, c, amount, h)
  /\ positions' = [positions EXCEPT ![c] = CreditedPosition(@, amount)]
  /\ repaymentKeys' = repaymentKeys \cup {h}
  /\ facilities' = Reduced(c, amount)
  /\ UNCHANGED <<claims, servicers, wired, firstLossKeys, lossKeys, cash>>

record_repayment(servicer, c, amount) == apply_repayment(servicer, c, amount, ZeroHash)

\* slip: the balance of the contract goes back, other positions' escrow with it
release_unused_first_loss_balance(operator, c) ==
  /\ positions[c].exists
  /\ operator = facilities[claims[c].facility].operator
  /\ positions[c].outstanding = 0
  /\ cash' = Transferred("facility", "treasury", cash["facility"])
  /\ positions' = [positions EXCEPT ![c].first_loss_funded = positions[c].first_loss_consumed]
  /\ UNCHANGED <<claims, facilities, servicers, wired, repaymentKeys, firstLossKeys, lossKeys>>

release_unused_first_loss(operator, c) ==
  LET unused == FirstLossAvailable(positions[c]) IN
  /\ positions[c].exists
  /\ operator = facilities[claims[c].facility].operator
  /\ positions[c].outstanding = 0
  /\ IF unused > 0
       THEN /\ unused <= cash["facility"]
            /\ cash' = Transferred("facility", "treasury", unused)
            /\ positions' = [positions EXCEPT ![c].first_loss_funded =
                                                positions[c].first_loss_consumed]
       ELSE UNCHANGED <<cash, positions>>
  /\ UNCHANGED <<claims, facilities, servicers, wired, repaymentKeys, firstLossKeys, lossKeys>>

(* write_off_position: the loss is what was outstanding.                   *)
WriteOffAllowed(p) == p.exists /\ p.outstanding > 0 /\ p.active

\* slip: a written-off position still owes
WrittenOff_owing(p) == [p EXCEPT !.active = FALSE]

WrittenOff(p) == [p EXCEPT !.outstanding = 0, !.active = FALSE]

reconcile_closed_loss(c) ==
  /\ claims[c].state = "ClosedWithLoss"
  /\ WriteOffAllowed(positions[c])
  /\ positions' = [positions EXCEPT ![c] = WrittenOff(@)]
  /\ facilities' = Reduced(c, positions[c].outstanding)
  /\ UNCHANGED <<claims, servicers, wired, repaymentKeys, firstLossKeys, lossKeys, cash>>

-----------------------------------------------------------------------------

FacilityCall ==
  \/ \E actor \in Actors, c \in Claims, p \in Principals, l \in FirstLosses :
       fund(actor, c, p, l)
  \/ \E actor \in Actors, c \in Claims : release_unused_first_loss(actor, c)
  \/ \E c \in Claims : reconcile_closed_loss(c)

FacilityBreaker ==
  \E f \in Facilities, paused \in BOOLEAN : pause_facility(f, paused)

DirectRepayment ==
  \E actor \in Actors, c \in Claims, n \in Settlements :
    \/ record_repayment(actor, c, n)
    \/ \E h \in Hashes : apply_repayment(actor, c, n, h)

FirstConfiguration ==
  \E f \in Facilities, operator \in Actors, limits \in Limits :
    ~ facilities[f].configured /\ configure_facility(f, operator, limits)

Reconfiguration ==
  \E f \in Facilities, operator \in Actors, limits \in Limits :
    facilities[f].configured /\ configure_facility(f, operator, limits)

ServicingChange ==
  \/ \E actor \in Actors, enabled \in BOOLEAN : configure_servicing(actor, enabled)
  \/ \E this \in BOOLEAN : set_waterfall(this)

=============================================================================
