---------------------------- MODULE JejakProtocol ----------------------------
(***************************************************************************)
(* The six Soroban contracts together.  A step is one contract call: a     *)
(* Soroban transaction commits everything its call changes, also in the    *)
(* contracts it calls, or nothing.  Calls of different actors interleave   *)
(* freely, and the ledger clock runs between them.                         *)
(*                                                                         *)
(* EntryPoints names the groups of public calls the holders of the keys    *)
(* use in an instance.  The guards are the contracts' own in every         *)
(* instance; an instance without a group asks what the protocol does when  *)
(* nobody makes those calls:                                               *)
(*   "pause"       pause and resume of a claim                             *)
(*   "holder"      freeze, de-authorisation and clawback_claim             *)
(*   "breaker"     the circuit breakers of controller, facility, waterfall *)
(*   "transition"  lifecycle.transition called by a role holder directly   *)
(*   "repayment"   record_repayment, apply_repayment called directly       *)
(*   "clawback"    the generic clawback, which leaves Issued alone         *)
(*   "reconfigure" configure_facility on a configured facility             *)
(*   "roles"       lifecycle.set_role                                      *)
(*   "grants"      changes of servicer, resolver, pauser and oracle        *)
(***************************************************************************)
EXTENDS ServicingWaterfall, ResolutionManager, FiniteSets, Functions

CONSTANTS
  EntryPoints

AllEntryPoints ==
  {"pause", "holder", "breaker", "transition", "repayment", "clawback",
   "reconfigure", "roles", "grants"}

ASSUME EntryPointAssumption == EntryPoints \subseteq AllEntryPoints

\* claim keys are strings of 32 bytes
ASSUME ClaimsAssumption == IsFiniteSet(Claims)

vars == <<registryVars, lifecycleVars, assetVars, facilityVars, waterfallVars, resolutionVars>>

TypeOK ==
  /\ RegistryTypeOK
  /\ LifecycleTypeOK
  /\ AssetTypeOK
  /\ FacilityTypeOK
  /\ WaterfallTypeOK
  /\ ResolutionTypeOK

Init ==
  /\ RegistryInit
  /\ LifecycleInit
  /\ AssetInit
  /\ FacilityInit
  /\ WaterfallInit
  /\ ResolutionInit

-----------------------------------------------------------------------------
(* What each contract's calls leave alone.                                 *)

BeyondRegistry   == <<lifecycleVars, assetVars, facilityVars, waterfallVars, resolutionVars>>
BeyondLifecycle  == <<registryVars, assetVars, facilityVars, waterfallVars, resolutionVars>>
BeyondAsset      == <<registryVars, roles, facilityVars, waterfallVars, resolutionVars>>
BeyondFacility   == <<registryVars, roles, assetVars, waterfallVars, resolutionVars>>
BeyondWaterfall  == <<registryVars, roles, assetVars, resolutionVars>>
BeyondResolution == <<registryVars, roles, assetVars, facilityVars, waterfallVars>>

RegistryStep ==
  /\ \/ RegistryCall
     \/ "grants" \in EntryPoints /\ OracleChange
  /\ UNCHANGED BeyondRegistry

LifecycleStep ==
  /\ \/ LifecycleCall
     \/ "pause" \in EntryPoints /\ PauseResume
     \/ "transition" \in EntryPoints /\ DirectTransition
     \/ "roles" \in EntryPoints /\ RoleChange
  /\ UNCHANGED BeyondLifecycle

AssetStep ==
  /\ \/ AssetCall
     \/ "holder" \in EntryPoints /\ HolderIncident
     \/ "breaker" \in EntryPoints /\ AssetBreaker
     \/ "clawback" \in EntryPoints /\ GenericClawback
     \/ "grants" \in EntryPoints /\ AssetPauserChange
  /\ UNCHANGED BeyondAsset

FacilityStep ==
  /\ \/ FacilityCall
     \/ FirstConfiguration
     \/ "breaker" \in EntryPoints /\ FacilityBreaker
     \/ "reconfigure" \in EntryPoints /\ Reconfiguration
     \/ "repayment" \in EntryPoints /\ DirectRepayment
     \/ "grants" \in EntryPoints /\ ServicingChange
  /\ UNCHANGED BeyondFacility

WaterfallStep ==
  /\ \/ WaterfallCall
     \/ "breaker" \in EntryPoints /\ WaterfallBreaker
     \/ "grants" \in EntryPoints /\ WaterfallServicerChange
  /\ UNCHANGED BeyondWaterfall

ResolutionStep ==
  /\ \/ ResolutionCall
     \/ "grants" \in EntryPoints /\ ResolverChange
  /\ UNCHANGED BeyondResolution

Next ==
  \/ RegistryStep
  \/ LifecycleStep
  \/ AssetStep
  \/ FacilityStep
  \/ WaterfallStep
  \/ ResolutionStep

Spec == Init /\ [][Next]_vars

-----------------------------------------------------------------------------
(* Safety of the protocol whichever entry points are used.                 *)

(* Position accounting: what is outstanding, repaid and written off never  *)
(* exceeds the principal funded; a position is active exactly while it has *)
(* principal outstanding, and until then every unit of principal is either *)
(* outstanding or repaid; first loss is consumed only from what was funded *)
(* and only to credit principal.                                           *)
PositionAccounting ==
  \A c \in Claims : LET p == positions[c] IN
    /\ p.outstanding + p.repaid <= p.principal
    /\ p.active <=> p.outstanding > 0
    /\ p.active => p.outstanding + p.repaid = p.principal
    /\ p.first_loss_consumed <= p.first_loss_funded
    /\ p.first_loss_consumed <= p.repaid

(* The facility contract holds exactly the first loss its positions can    *)
(* still draw or get back: no position draws on another one's escrow and   *)
(* nothing is stranded in the contract.                                    *)
EscrowBacksFirstLoss ==
  cash["facility"] = SumFunction([c \in Claims |-> FirstLossAvailable(positions[c])])

(* Double financing: once a claim has a position its stage is past Issued, *)
(* whatever pauses and resumes happened since, so it can never be issued   *)
(* against or funded again.                                                *)
FundedIsNeverFundable ==
  \A c \in Claims : positions[c].exists =>
    Stage(c) \notin {"Absent", "Eligible", "Controlled", "Issued"}

(* A closed claim keeps everything the lifecycle stores of it: no pause,   *)
(* resume, compensation or late settlement call changes it.                *)
TerminalIsFinal ==
  [][\A c \in Claims : claims[c].state \in TerminalStates => claims'[c] = claims[c]]_vars

-----------------------------------------------------------------------------
(* Coherence of the contracts with each other.  Each of these needs the    *)
(* callers to leave some entry points alone, named with it.                *)

(* A claim's stage and its position tell the same story, without direct    *)
(* transitions and direct repayments: a funded claim owes all of its       *)
(* principal, a repaid one owes nothing and lost nothing, and a claim in   *)
(* shortfall is written off with principal missing.                        *)
LifecycleMatchesPosition ==
  \A c \in Claims : LET p == positions[c] IN
    /\ p.exists <=> Stage(c) \notin {"Absent", "Eligible", "Controlled", "Issued"}
    /\ Stage(c) = "Funded" => p.outstanding = p.principal
    /\ Stage(c) \in {"Repaid", "Redeemed"} => p.repaid = p.principal
    /\ Stage(c) \in {"Shortfall", "Resolution", "ClosedWithLoss"} =>
         ~ p.active /\ p.repaid < p.principal

(* First loss stands before the senior position, without direct            *)
(* transitions: principal is written off only when the claim's escrow has  *)
(* nothing left to apply.                                                  *)
FirstLossBeforeSeniorLoss ==
  \A c \in Claims : LET p == positions[c] IN
    p.exists /\ ~ p.active /\ p.repaid < p.principal => FirstLossAvailable(p) = 0

(* The resolution record and the claim agree, without direct transitions:  *)
(* a resolution is undecided exactly while the claim is in Resolution, and *)
(* its verdict is the terminal state the claim reached.                    *)
ResolutionMatchesLifecycle ==
  \A c \in Claims :
    /\ Undecided(c) <=> Stage(c) = "Resolution"
    /\ resolutions[c].status = "WrittenOff" <=> Stage(c) = "ClosedWithLoss"
    /\ resolutions[c].status = "Settled" => Stage(c) = "Closed"

(* Every unit of principal credited to a position reached the treasury in  *)
(* cash, without direct repayments: from a settlement, or from the escrow. *)
CreditIsCash ==
  LET funded  == [c \in Claims |-> positions[c].principal]
      settled == [c \in Claims |-> positions[c].repaid - positions[c].first_loss_consumed]
  IN  cash["treasury"] + cash["facility"] + SumFunction(funded)
        >= TreasuryCash + SumFunction(settled)

(* Issuance stays within the approved principal through any sequence of    *)
(* issue, redeem, clawback and compensation, and the token supply is what  *)
(* the claims account for, holder by holder, without the generic clawback. *)
SupplyMatchesIssuance ==
  /\ \A c \in Claims : issued[c] <= claims[c].approved
  /\ \A h \in Holders :
       jclaim[h] = SumFunction([c \in Claims |-> IF holder[c] = h THEN issued[c] ELSE 0])

(* What the claims of a facility still owe it.                             *)
AtRisk(f) ==
  [c \in Claims |-> IF claims[c].facility = f THEN positions[c].outstanding ELSE 0]

(* A facility's aggregate is the sum over its positions, and the principal *)
(* at risk stays within the configured limit, without a reconfiguration of *)
(* a facility that has open positions.                                     *)
AggregateMatchesPositions ==
  \A f \in Facilities : LET total == SumFunction(AtRisk(f)) IN
    /\ facilities[f].outstanding = total
    /\ facilities[f].configured => total <= facilities[f].limits.max_total_principal

-----------------------------------------------------------------------------
(* The abstract life of a claim that the contracts implement.              *)

Written(p) == p.principal - p.outstanding - p.repaid

Financing == INSTANCE ClaimFinancing WITH
  phase    <- [c \in Claims |-> Stage(c)],
  owed     <- [c \in Claims |-> positions[c].outstanding],
  credited <- [c \in Claims |-> positions[c].repaid],
  lost     <- [c \in Claims |-> Written(positions[c])]

(* Without direct transitions and direct repayments, the six contracts     *)
(* give every claim the life ClaimFinancing describes: one financing, each *)
(* unit of principal owed, credited or lost, and the loss booked in the    *)
(* transaction that moves the claim to Shortfall.                          *)
ImplementsClaimFinancing == Financing!Spec

=============================================================================
