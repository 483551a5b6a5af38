------------------------ MODULE JejakProtocol_proofs ------------------------
(***************************************************************************)
(* Theorems about JejakProtocol, for every set of claims, actors, amounts, *)
(* limits and entry points, and every bound on the ledger clock.           *)
(***************************************************************************)
EXTENDS JejakProtocol, TLAPS

-----------------------------------------------------------------------------
(* The registry on its own, for every set of claims, attestations and      *)
(* oracles and every bound on the ledger clock.                            *)

LEMMA RegistryInitType == RegistryInit => RegistryTypeOK
BY ClockAssumption DEF RegistryInit, RegistryTypeOK

LEMMA RegistryNextType == RegistryTypeOK /\ [RegistryNext]_registryVars => RegistryTypeOK'
<1> SUFFICES ASSUME RegistryTypeOK, [RegistryNext]_registryVars PROVE RegistryTypeOK'
  OBVIOUS
<1> USE DEF RegistryTypeOK
<1>1. CASE Tick
  BY <1>1, ClockAssumption DEF Tick
<1>2. ASSUME NEW o \in Oracles, NEW a \in Attestations, NEW c \in Claims, NEW t \in Times,
             register_attestation(o, a, c, t)
      PROVE  RegistryTypeOK'
  BY <1>2 DEF register_attestation, Attestation
<1>3. ASSUME NEW actor \in Oracles \cup {Admin}, NEW a \in Attestations,
             revoke_attestation(actor, a)
      PROVE  RegistryTypeOK'
  BY <1>3 DEF revoke_attestation
<1>4. ASSUME NEW o \in Oracles, NEW enabled \in BOOLEAN, set_oracle(o, enabled)
      PROVE  RegistryTypeOK'
  BY <1>4 DEF set_oracle
<1>5. CASE UNCHANGED registryVars
  BY <1>5 DEF registryVars
<1>6. QED
  BY <1>1, <1>2, <1>3, <1>4, <1>5 DEF RegistryNext, RegistryCall, OracleChange

(* The registry's variables keep their types.                              *)
THEOREM RegistryTypeCorrect == RegistrySpec => []RegistryTypeOK
BY RegistryInitType, RegistryNextType, PTL DEF RegistrySpec

-----------------------------------------------------------------------------

LEMMA KeysStep == KeysAreUnique /\ [RegistryNext]_registryVars => KeysAreUnique'
<1> SUFFICES ASSUME KeysAreUnique, [RegistryNext]_registryVars PROVE KeysAreUnique'
  OBVIOUS
<1> USE DEF KeysAreUnique
<1>1. ASSUME NEW o \in Oracles, NEW a \in Attestations, NEW c \in Claims, NEW t \in Times,
             register_attestation(o, a, c, t)
      PROVE  KeysAreUnique'
  BY <1>1 DEF register_attestation, Registered
<1>2. CASE UNCHANGED attestations
  BY <1>2
<1>3. QED
  BY <1>1, <1>2
  DEF RegistryNext, RegistryCall, OracleChange, Tick, revoke_attestation, set_oracle,
      registryVars

(* An attestation key stands for one attestation for ever.                 *)
THEOREM OneAttestationPerKey == RegistrySpec => []KeysAreUnique
<1>1. RegistryInit => KeysAreUnique
  BY DEF RegistryInit, KeysAreUnique
<1>2. QED
  BY <1>1, KeysStep, PTL DEF RegistrySpec

-----------------------------------------------------------------------------

(* The clock never runs back.                                              *)
LEMMA ClockStep ==
  RegistryTypeOK /\ [RegistryNext]_registryVars => now' \in Nat /\ now' >= now
BY ClockAssumption
DEF RegistryTypeOK, RegistryNext, RegistryCall, OracleChange, Tick, register_attestation,
    revoke_attestation, set_oracle, registryVars

LEMMA InactiveStep ==
  ASSUME RegistryTypeOK, KeysAreUnique, [RegistryNext]_registryVars, NEW a \in Attestations,
         Registered(a), ~ is_active(a, now)
  PROVE  ~ is_active(a, now)'
<1>1. now \in Nat /\ now' \in Nat /\ now' >= now
  BY ClockStep, ClockAssumption DEF RegistryTypeOK
<1>2. revoked \subseteq revoked'
  BY DEF RegistryNext, RegistryCall, OracleChange, Tick, register_attestation,
         revoke_attestation, set_oracle, registryVars
<1>3. \A r \in attestations' : r.key = a => r \in attestations
  <2>1. ASSUME NEW o \in Oracles, NEW b \in Attestations, NEW c \in Claims, NEW t \in Times,
               register_attestation(o, b, c, t), NEW r \in attestations', r.key = a
        PROVE  r \in attestations
    BY <2>1 DEF register_attestation, Registered
  <2>2. CASE UNCHANGED attestations
    BY <2>2
  <2>3. QED
    BY <2>1, <2>2
    DEF RegistryNext, RegistryCall, OracleChange, Tick, revoke_attestation, set_oracle,
        registryVars
<1>4. CASE a \in revoked
  BY <1>2, <1>4 DEF is_active
<1>5. CASE \A r \in attestations : r.key = a => ~ (now < r.expires_at)
  <2>1. ASSUME NEW r \in attestations', r.key = a
        PROVE  ~ (now' < r.expires_at)
    <3>1. r \in attestations /\ ~ (now < r.expires_at)
      BY <1>3, <1>5, <2>1
    <3>2. r.expires_at \in Int
      BY <3>1, ClockAssumption DEF RegistryTypeOK, Attestation, Times
    <3>3. QED
      BY <1>1, <3>1, <3>2
  <2>2. QED
    BY <2>1 DEF is_active
<1>6. QED
  BY <1>4, <1>5 DEF is_active

(* What has been revoked or has expired stays inactive, for the claims     *)
(* that were created on it and for those that may be created later.        *)
THEOREM InactiveForEver == RegistrySpec => NeverReactivated
<1>1. RegistryTypeOK /\ KeysAreUnique /\ [RegistryNext]_registryVars =>
        [\A a \in Attestations :
           Registered(a) /\ ~ is_active(a, now) => ~ is_active(a, now)']_registryVars
  BY InactiveStep
<1>2. RegistrySpec => []RegistryTypeOK /\ []KeysAreUnique
  BY RegistryTypeCorrect, OneAttestationPerKey
<1>3. QED
  BY <1>1, <1>2, PTL DEF RegistrySpec, NeverReactivated

-----------------------------------------------------------------------------
(* The contracts together.                                                 *)

(* A transition the lifecycle allows starts in a live state and ends in a  *)
(* state of the table.                                                     *)
LEMMA TransitionTarget ==
  ASSUME NEW actor, NEW cl, NEW expected, NEW next,
         TransitionAllowed(actor, cl, expected, next)
  PROVE  /\ cl.state = expected
         /\ expected \notin TerminalStates \cup {"Absent", "Paused"}
         /\ next \in ClaimStates \ {"Paused"}
         /\ next # "Eligible" /\ next # "Controlled"
BY DEF TransitionAllowed, validate_transition, ClaimStates, TerminalStates

LEMMA AbsentClaimType == AbsentClaim \in OnchainClaim
BY ClockAssumption DEF AbsentClaim, OnchainClaim, Times, ClaimStates

(* Moving a claim keeps the claims well-formed.                            *)
LEMMA MovedType ==
  ASSUME claims \in [Claims -> OnchainClaim], NEW c \in Claims,
         NEW next \in ClaimStates
  PROVE  Moved(c, next) \in [Claims -> OnchainClaim]
BY DEF Moved, OnchainClaim

-----------------------------------------------------------------------------
(* Type correctness: one lemma per contract.                               *)

LEMMA InitType == Init => TypeOK
<1> SUFFICES ASSUME Init PROVE TypeOK
  OBVIOUS
<1>1. RegistryTypeOK
  BY ClockAssumption DEF Init, RegistryInit, RegistryTypeOK
<1>2. LifecycleTypeOK
  BY WiringAssumption, AbsentClaimType DEF Init, LifecycleInit, LifecycleTypeOK
<1>3. AssetTypeOK
  BY DEF Init, AssetInit, AssetTypeOK
<1>4. FacilityTypeOK
  BY FacilityAssumption
  DEF Init, FacilityInit, FacilityTypeOK, FacilityConfig, Position, NoPosition, Accounts
<1>5. WaterfallTypeOK
  BY DEF Init, WaterfallInit, WaterfallTypeOK
<1>6. ResolutionTypeOK
  BY DEF Init, ResolutionInit, ResolutionTypeOK, Resolution, NoResolution, ResolutionStatus
<1>7. QED
  BY <1>1, <1>2, <1>3, <1>4, <1>5, <1>6 DEF TypeOK

LEMMA RegistryStepType == TypeOK /\ RegistryStep => TypeOK'
<1> SUFFICES ASSUME TypeOK, RegistryStep PROVE TypeOK'
  OBVIOUS
<1> USE DEF TypeOK, RegistryTypeOK
<1>1. UNCHANGED BeyondRegistry
  BY DEF RegistryStep
<1>2. RegistryTypeOK'
  <2>1. CASE Tick
    BY <2>1, ClockAssumption DEF Tick
  <2>2. ASSUME NEW o \in Oracles, NEW a \in Attestations, NEW c \in Claims, NEW t \in Times,
               register_attestation(o, a, c, t)
        PROVE  RegistryTypeOK'
    BY <2>2 DEF register_attestation, Attestation
  <2>3. ASSUME NEW actor, NEW a \in Attestations, revoke_attestation(actor, a)
        PROVE  RegistryTypeOK'
    BY <2>3 DEF revoke_attestation
  <2>4. ASSUME NEW o \in Oracles, NEW enabled \in BOOLEAN, set_oracle(o, enabled)
        PROVE  RegistryTypeOK'
    BY <2>4 DEF set_oracle
  <2>5. QED
    BY <2>1, <2>2, <2>3, <2>4 DEF RegistryStep, RegistryCall, OracleChange
<1>3. LifecycleTypeOK'
  BY <1>1 DEF LifecycleTypeOK, BeyondRegistry, lifecycleVars
<1>4. AssetTypeOK'
  BY <1>1 DEF AssetTypeOK, BeyondRegistry, assetVars
<1>5. FacilityTypeOK'
  BY <1>1 DEF FacilityTypeOK, BeyondRegistry, facilityVars
<1>6. WaterfallTypeOK' /\ ResolutionTypeOK'
  BY <1>1 DEF WaterfallTypeOK, ResolutionTypeOK, BeyondRegistry, waterfallVars, resolutionVars
<1>7. QED
  BY <1>2, <1>3, <1>4, <1>5, <1>6

LEMMA LifecycleStepType == TypeOK /\ LifecycleStep => TypeOK'
<1> SUFFICES ASSUME TypeOK, LifecycleStep PROVE TypeOK'
  OBVIOUS
<1> USE DEF TypeOK, LifecycleTypeOK
<1>1. UNCHANGED BeyondLifecycle
  BY DEF LifecycleStep
<1>2. LifecycleTypeOK'
  <2>1. ASSUME NEW actor \in Actors, NEW c \in Claims, NEW f \in Facilities,
               NEW p \in Principals, NEW a \in Attestations, create_claim(actor, c, f, p, a)
        PROVE  LifecycleTypeOK'
    <3> DEFINE cl == [AbsentClaim EXCEPT !.state = "Eligible", !.facility = f,
                                         !.approved = p, !.attestation = a]
    <3>1. AbsentClaim \in OnchainClaim
      BY AbsentClaimType
    <3>2. cl \in OnchainClaim
      BY <3>1 DEF OnchainClaim, ClaimStates
    <3>3. QED
      BY <2>1, <3>2 DEF create_claim
  <2>2. ASSUME NEW actor \in Actors, NEW c \in Claims, NEW t \in Times,
               confirm_control(actor, c, t)
        PROVE  LifecycleTypeOK'
    <3>1. [claims[c] EXCEPT !.state = "Controlled", !.control_expires_at = t] \in OnchainClaim
      BY DEF OnchainClaim, ClaimStates
    <3>2. QED
      BY <2>2, <3>1 DEF confirm_control
  <2>3. ASSUME NEW actor \in Actors, NEW c \in Claims, pause(actor, c)
        PROVE  LifecycleTypeOK'
    <3> DEFINE cl == [claims[c] EXCEPT !.state = "Paused", !.paused_from = claims[c].state,
                                      !.has_paused_from = TRUE]
    <3>1. claims[c].state \in ClaimStates
      BY <2>3 DEF pause, OnchainClaim
    <3>2. cl \in OnchainClaim
      BY <3>1 DEF OnchainClaim, ClaimStates
    <3>3. QED
      BY <2>3, <3>2 DEF pause
  <2>4. ASSUME NEW c \in Claims, NEW target \in ClaimStates, resume(c, target)
        PROVE  LifecycleTypeOK'
    <3> DEFINE cl == [claims[c] EXCEPT !.state = target, !.has_paused_from = FALSE]
    <3>1. cl \in OnchainClaim
      BY DEF OnchainClaim
    <3>2. QED
      BY <2>4, <3>1 DEF resume
  <2>5. ASSUME NEW actor \in Actors, NEW c \in Claims, NEW next \in ClaimStates,
               transition(actor, c, claims[c].state, next)
        PROVE  LifecycleTypeOK'
    BY <2>5, MovedType DEF transition
  <2>6. ASSUME NEW role \in RoleNames, NEW actor \in Actors, NEW enabled \in BOOLEAN,
               set_role(role, actor, enabled)
        PROVE  LifecycleTypeOK'
    BY <2>6 DEF set_role
  <2>7. QED
    BY <2>1, <2>2, <2>3, <2>4, <2>5, <2>6
    DEF LifecycleStep, LifecycleCall, PauseResume, DirectTransition, RoleChange
<1>3. RegistryTypeOK'
  BY <1>1 DEF RegistryTypeOK, BeyondLifecycle, registryVars
<1>4. AssetTypeOK'
  BY <1>1 DEF AssetTypeOK, BeyondLifecycle, assetVars
<1>5. FacilityTypeOK'
  BY <1>1 DEF FacilityTypeOK, BeyondLifecycle, facilityVars
<1>6. WaterfallTypeOK' /\ ResolutionTypeOK'
  BY <1>1 DEF WaterfallTypeOK, ResolutionTypeOK, BeyondLifecycle, waterfallVars, resolutionVars
<1>7. QED
  BY <1>2, <1>3, <1>4, <1>5, <1>6

(* What the contracts other than the lifecycle do to the claims.           *)
LEMMA AmountsAreNatural == \A n \in Amounts : n \in Nat \ {0}
BY PrincipalAssumption DEF Amounts

LEMMA AssetStepType == TypeOK /\ AssetStep => TypeOK'
<1> SUFFICES ASSUME TypeOK, AssetStep PROVE TypeOK'
  OBVIOUS
<1> USE DEF TypeOK
<1>1. UNCHANGED BeyondAsset
  BY DEF AssetStep
<1>2. claims' \in [Claims -> OnchainClaim] /\ AssetTypeOK'
  <2> DEFINE Goal == claims' \in [Claims -> OnchainClaim] /\ AssetTypeOK'
  <2> USE DEF AssetTypeOK, LifecycleTypeOK
  <2>1. ASSUME NEW c \in Claims, NEW h \in Holders, NEW n \in Amounts,
               issue(IssuerOperator, c, h, n)
        PROVE  Goal
    <3>1. "Issued" \in ClaimStates
      BY DEF ClaimStates
    <3>2. QED
      BY <2>1, <3>1, MovedType, AmountsAreNatural DEF issue
  <2>2. ASSUME NEW c \in Claims, NEW h \in Holders, NEW n \in Amounts,
               redeem(IssuerOperator, c, h, n)
        PROVE  Goal
    <3>1. "Redeemed" \in ClaimStates
      BY DEF ClaimStates
    <3>2. QED
      BY <2>2, <3>1, MovedType, AmountsAreNatural DEF redeem
  <2>3. ASSUME NEW c \in Claims, close_claim(IssuerOperator, c)
        PROVE  Goal
    <3>1. "Closed" \in ClaimStates
      BY DEF ClaimStates, TerminalStates
    <3>2. QED
      BY <2>3, <3>1, MovedType DEF close_claim, assetVars
  <2>4. ASSUME NEW h \in Holders, NEW enabled \in BOOLEAN,
               authorize_holder(IssuerOperator, h, enabled)
        PROVE  Goal
    BY <2>4 DEF authorize_holder
  <2>5. ASSUME NEW actor \in Actors, NEW h \in Holders, freeze(actor, h)
        PROVE  Goal
    BY <2>5 DEF freeze
  <2>6. ASSUME NEW c \in Claims, NEW h \in Holders, NEW n \in Amounts,
               clawback_claim(IssuerOperator, c, h, n)
        PROVE  Goal
    BY <2>6, AmountsAreNatural DEF clawback_claim
  <2>7. ASSUME NEW h \in Holders, NEW n \in Amounts, clawback(IssuerOperator, h, n)
        PROVE  Goal
    BY <2>7, AmountsAreNatural DEF clawback
  <2>8. ASSUME NEW actor \in Actors, NEW paused \in BOOLEAN, set_global_pause(actor, paused)
        PROVE  Goal
    BY <2>8 DEF set_global_pause
  <2>9. ASSUME NEW actor \in Actors, NEW enabled \in BOOLEAN, set_pauser(actor, enabled)
        PROVE  Goal
    BY <2>9 DEF set_pauser
  <2>10. QED
    BY <2>1, <2>2, <2>3, <2>4, <2>5, <2>6, <2>7, <2>8, <2>9
    DEF AssetStep, AssetCall, HolderIncident, AssetBreaker, GenericClawback, AssetPauserChange
<1>3. LifecycleTypeOK'
  BY <1>1, <1>2 DEF LifecycleTypeOK, BeyondAsset
<1>4. RegistryTypeOK'
  BY <1>1 DEF RegistryTypeOK, BeyondAsset, registryVars
<1>5. FacilityTypeOK'
  BY <1>1 DEF FacilityTypeOK, BeyondAsset, facilityVars
<1>6. WaterfallTypeOK' /\ ResolutionTypeOK'
  BY <1>1 DEF WaterfallTypeOK, ResolutionTypeOK, BeyondAsset, waterfallVars, resolutionVars
<1>7. QED
  BY <1>2, <1>3, <1>4, <1>5, <1>6

LEMMA ReducedType ==
  ASSUME facilities \in [Facilities -> FacilityConfig], NEW c \in Claims, NEW n \in Int
  PROVE  Reduced(c, n) \in [Facilities -> FacilityConfig]
<1> DEFINE f == claims[c].facility
<1>1. f \in Facilities => [facilities[f] EXCEPT !.outstanding = @ - n] \in FacilityConfig
  BY DEF FacilityConfig
<1>2. QED
  BY <1>1 DEF Reduced

LEMMA CreditedType ==
  ASSUME NEW p \in Position, NEW n \in Nat, n <= p.outstanding
  PROVE  CreditedPosition(p, n) \in Position
<1>1. p.outstanding - n \in Nat /\ p.repaid + n \in Nat
  BY DEF Position
<1>2. QED
  BY <1>1 DEF CreditedPosition, Position

LEMMA WrittenOffType ==
  ASSUME NEW p \in Position PROVE WrittenOff(p) \in Position
BY DEF WrittenOff, Position

LEMMA FacilityStepType == TypeOK /\ FacilityStep => TypeOK'
<1> SUFFICES ASSUME TypeOK, FacilityStep PROVE TypeOK'
  OBVIOUS
<1> USE DEF TypeOK
<1>1. UNCHANGED BeyondFacility
  BY DEF FacilityStep
<1>2. claims' \in [Claims -> OnchainClaim] /\ FacilityTypeOK'
  <2> DEFINE Goal == claims' \in [Claims -> OnchainClaim] /\ FacilityTypeOK'
  <2> USE DEF FacilityTypeOK, LifecycleTypeOK
  <2>1. ASSUME NEW actor \in Actors, NEW c \in Claims, NEW n \in Principals,
               NEW l \in FirstLosses, fund(actor, c, n, l)
        PROVE  Goal
    <3>1. n \in Nat /\ l \in Nat
      BY PrincipalAssumption, FacilityAssumption
    <3>2. claims' \in [Claims -> OnchainClaim]
      BY <2>1, MovedType DEF fund, ClaimStates
    <3>3. positions' \in [Claims -> Position]
      BY <2>1, <3>1 DEF fund, OpenPosition, Position
    <3>4. facilities' \in [Facilities -> FacilityConfig]
      BY <2>1, <3>1 DEF fund, FacilityConfig
    <3>5. cash' \in [Accounts -> Nat]
      BY <2>1, <3>1 DEF fund, Disbursed, Accounts
    <3>6. QED
      BY <2>1, <3>2, <3>3, <3>4, <3>5 DEF fund
  <2>2. ASSUME NEW actor \in Actors, NEW c \in Claims, release_unused_first_loss(actor, c)
        PROVE  Goal
    <3>1. positions' \in [Claims -> Position]
      BY <2>2 DEF release_unused_first_loss, Position
    <3>2. cash' \in [Accounts -> Nat]
      <4>1. FirstLossAvailable(positions[c]) \in Int
        BY DEF FirstLossAvailable, Position
      <4>2. QED
        BY <2>2, <4>1 DEF release_unused_first_loss, Transferred, Accounts
    <3>3. QED
      BY <2>2, <3>1, <3>2 DEF release_unused_first_loss
  <2>3. ASSUME NEW c \in Claims, reconcile_closed_loss(c)
        PROVE  Goal
    <3>1. positions[c].outstanding \in Int
      BY DEF Position
    <3>2. QED
      BY <2>3, <3>1, ReducedType, WrittenOffType DEF reconcile_closed_loss
  <2>4. ASSUME NEW f \in Facilities, NEW operator \in Actors, NEW limits \in Limits,
               configure_facility(f, operator, limits)
        PROVE  Goal
    BY <2>4 DEF configure_facility, FacilityConfig
  <2>5. ASSUME NEW f \in Facilities, NEW paused \in BOOLEAN, pause_facility(f, paused)
        PROVE  Goal
    BY <2>5 DEF pause_facility, FacilityConfig
  <2>6. ASSUME NEW actor \in Actors, NEW c \in Claims, NEW n \in Settlements,
               NEW h \in Hashes \cup {ZeroHash}, apply_repayment(actor, c, n, h)
        PROVE  Goal
    <3>1. n \in Nat /\ n <= positions[c].outstanding
      BY <2>6, FacilityAssumption DEF apply_repayment, RepaymentAllowed
    <3>2. positions' \in [Claims -> Position]
      BY <2>6, <3>1, CreditedType DEF apply_repayment
    <3>3. facilities' \in [Facilities -> FacilityConfig]
      BY <2>6, <3>1, ReducedType DEF apply_repayment
    <3>4. QED
      BY <2>6, <3>2, <3>3 DEF apply_repayment
  <2>7. ASSUME NEW actor \in Actors, NEW enabled \in BOOLEAN,
               configure_servicing(actor, enabled)
        PROVE  Goal
    BY <2>7 DEF configure_servicing
  <2>8. ASSUME NEW this \in BOOLEAN, set_waterfall(this)
        PROVE  Goal
    BY <2>8 DEF set_waterfall
  <2>9. QED
    BY <2>1, <2>2, <2>3, <2>4, <2>5, <2>6, <2>7, <2>8
    DEF FacilityStep, FacilityCall, FirstConfiguration, FacilityBreaker, Reconfiguration,
        DirectRepayment, ServicingChange, record_repayment
<1>3. LifecycleTypeOK'
  BY <1>1, <1>2 DEF LifecycleTypeOK, BeyondFacility
<1>4. RegistryTypeOK'
  BY <1>1 DEF RegistryTypeOK, BeyondFacility, registryVars
<1>5. AssetTypeOK'
  BY <1>1 DEF AssetTypeOK, BeyondFacility, assetVars
<1>6. WaterfallTypeOK' /\ ResolutionTypeOK'
  BY <1>1 DEF WaterfallTypeOK, ResolutionTypeOK, BeyondFacility, waterfallVars, resolutionVars
<1>7. QED
  BY <1>2, <1>3, <1>4, <1>5, <1>6

-----------------------------------------------------------------------------
(* The split of a settlement: whatever the dues are, it gives away exactly *)
(* the cash that came in; the principal it credits, cash and first loss    *)
(* together, is between zero and what is outstanding; and the first loss   *)
(* is drawn only from what the position has left.                          *)
THEOREM AllocationConserves ==
  ASSUME NEW p \in Position, p.first_loss_consumed <= p.first_loss_funded,
         NEW s \in Nat, NEW sd \in Int, NEW fd \in Int
  PROVE  LET a == allocation(p, s, sd, fd) IN
         /\ a.servicing_fee + a.principal + a.financing_fee + a.residual = s
         /\ a.principal >= 0
         /\ a.first_loss \in 0 .. FirstLossAvailable(p)
         /\ a.senior_loss >= 0
         /\ a.principal + a.first_loss + a.senior_loss = p.outstanding
<1>1. /\ p.outstanding \in Nat /\ p.first_loss_funded \in Nat
      /\ p.first_loss_consumed \in Nat
  BY DEF Position
<1>2. QED
  BY <1>1 DEF allocation, Least, FirstLossAvailable

LEMMA AllocationType ==
  ASSUME NEW p \in Position, NEW s \in Int, NEW sd \in Int, NEW fd \in Int
  PROVE  allocation(p, s, sd, fd) \in
           [servicing_fee : Int, principal : Int, financing_fee : Int,
            first_loss : Int, senior_loss : Int, residual : Int]
<1>1. /\ p.outstanding \in Int /\ p.first_loss_funded \in Int
      /\ p.first_loss_consumed \in Int
  BY DEF Position
<1>2. QED
  BY <1>1 DEF allocation, Least, FirstLossAvailable

LEMMA PaidType == ASSUME NEW n \in Int PROVE Paid(n) \in Nat /\ (n >= 0 => Paid(n) = n)
BY DEF Paid

LEMMA WaterfallStepType == TypeOK /\ WaterfallStep => TypeOK'
<1> SUFFICES ASSUME TypeOK, WaterfallStep PROVE TypeOK'
  OBVIOUS
<1> USE DEF TypeOK
<1>1. UNCHANGED BeyondWaterfall
  BY DEF WaterfallStep
<1>2. claims' \in [Claims -> OnchainClaim] /\ FacilityTypeOK' /\ WaterfallTypeOK'
  <2> DEFINE Goal == claims' \in [Claims -> OnchainClaim] /\ FacilityTypeOK' /\ WaterfallTypeOK'
  <2> USE DEF FacilityTypeOK, LifecycleTypeOK, WaterfallTypeOK
  <2>1. ASSUME NEW actor \in Actors, NEW c \in Claims, NEW s \in Settlements,
               NEW sd \in Dues, NEW fd \in Dues, NEW h \in Hashes, NEW final \in BOOLEAN,
               execute(actor, c, s, sd, fd, h, final)
        PROVE  Goal
    <3> DEFINE p == positions[c]
               a == allocation(p, s, sd, fd)
               credited == a.principal + a.first_loss
               consumed == [p EXCEPT !.first_loss_consumed = @ + Paid(a.first_loss)]
               updated == CreditedPosition(consumed, credited)
               loss == final /\ p.outstanding - credited > 0
    <3>1. s \in Int /\ sd \in Int /\ fd \in Int /\ p \in Position
      BY FacilityAssumption, DuesAssumption
    <3>2. a \in [servicing_fee : Int, principal : Int, financing_fee : Int,
                 first_loss : Int, senior_loss : Int, residual : Int]
      BY <3>1, AllocationType
    <3>3. credited \in Nat /\ credited <= p.outstanding
      <4>1. credited \in Int
        BY <3>2
      <4>2. RepaymentAllowed(actor, c, credited, h)
        BY <2>1 DEF execute
      <4>3. QED
        BY <4>1, <4>2 DEF RepaymentAllowed
    <3>4. consumed \in Position /\ consumed.outstanding = p.outstanding
      <4>1. Paid(a.first_loss) \in Nat
        BY <3>2, PaidType
      <4>2. QED
        BY <3>1, <4>1 DEF Position
    <3>5. updated \in Position
      <4> HIDE DEF credited, consumed
      <4>1. QED
        BY <3>3, <3>4, CreditedType
    <3>6. positions' \in [Claims -> Position]
      <4>1. positions' = [positions EXCEPT ![c] = IF loss THEN WrittenOff(updated) ELSE updated]
        BY <2>1 DEF execute
      <4> HIDE DEF updated, loss
      <4>2. QED
        BY <3>5, <4>1, WrittenOffType
    <3>7. facilities' \in [Facilities -> FacilityConfig]
      <4> DEFINE n == credited + (IF loss THEN p.outstanding - credited ELSE 0)
      <4>1. facilities' = Reduced(c, n)
        BY <2>1 DEF execute
      <4>2. p.outstanding \in Int
        BY <3>1 DEF Position
      <4>3. n \in Int
        BY <3>3, <4>2
      <4> HIDE DEF n
      <4>4. QED
        BY <4>1, <4>3, ReducedType
    <3>8. cash' \in [Accounts -> Nat]
      <4> DEFINE fee == Paid(a.servicing_fee)
                 toTreasury == Paid(a.principal + a.financing_fee)
                 first == Paid(a.first_loss)
                 residual == Paid(a.residual)
      <4>1. fee \in Nat /\ toTreasury \in Nat /\ first \in Nat /\ residual \in Nat
        BY <3>2, PaidType
      <4>2. first <= cash["facility"]
        <5>1. cash["facility"] \in Nat
          BY DEF Accounts
        <5>2. a.first_loss > 0 => a.first_loss <= cash["facility"]
          BY <2>1 DEF execute
        <5>3. QED
          BY <3>2, <5>1, <5>2 DEF Paid
      <4>3. /\ s <= cash["servicer"]
            /\ fee + toTreasury + residual <= cash["waterfall"] + s
            /\ cash' = [cash EXCEPT
                 !["servicer"]  = @ - s + fee,
                 !["waterfall"] = @ + s - (fee + toTreasury + residual),
                 !["treasury"]  = @ + toTreasury + first,
                 !["facility"]  = @ - first,
                 !["seller"]    = @ + residual]
        BY <2>1 DEF execute
      <4> HIDE DEF fee, toTreasury, first, residual
      <4>4. QED
        BY <3>1, <4>1, <4>2, <4>3 DEF Accounts
    <3>9. claims' \in [Claims -> OnchainClaim]
      <4>1. \E next \in ClaimStates : claims' = Moved(c, next)
        BY <2>1 DEF execute, ClaimStates
      <4>2. QED
        BY <4>1, MovedType
    <3>10. /\ firstLossKeys' \subseteq Hashes /\ lossKeys' \subseteq Hashes
           /\ repaymentKeys' \subseteq Hashes \cup {ZeroHash} /\ processed' \subseteq Hashes
           /\ UNCHANGED <<servicers, wired, wfServicers, wfPaused>>
      BY <2>1 DEF execute
    <3>11. QED
      BY <3>6, <3>7, <3>8, <3>9, <3>10
  <2>2. ASSUME NEW paused \in BOOLEAN, set_waterfall_pause(paused)
        PROVE  Goal
    BY <2>2 DEF set_waterfall_pause, facilityVars
  <2>3. ASSUME NEW actor \in Actors, NEW enabled \in BOOLEAN, authorize_servicer(actor, enabled)
        PROVE  Goal
    BY <2>3 DEF authorize_servicer, facilityVars
  <2>4. QED
    BY <2>1, <2>2, <2>3
    DEF WaterfallStep, WaterfallCall, WaterfallBreaker, WaterfallServicerChange
<1>3. LifecycleTypeOK'
  BY <1>1, <1>2 DEF LifecycleTypeOK, BeyondWaterfall
<1>4. RegistryTypeOK'
  BY <1>1 DEF RegistryTypeOK, BeyondWaterfall, registryVars
<1>5. AssetTypeOK'
  BY <1>1 DEF AssetTypeOK, BeyondWaterfall, assetVars
<1>6. ResolutionTypeOK'
  BY <1>1 DEF ResolutionTypeOK, BeyondWaterfall, resolutionVars
<1>7. QED
  BY <1>2, <1>3, <1>4, <1>5, <1>6

LEMMA ResolutionStepType == TypeOK /\ ResolutionStep => TypeOK'
<1> SUFFICES ASSUME TypeOK, ResolutionStep PROVE TypeOK'
  OBVIOUS
<1> USE DEF TypeOK
<1>1. UNCHANGED BeyondResolution
  BY DEF ResolutionStep
<1>2. claims' \in [Claims -> OnchainClaim] /\ ResolutionTypeOK'
  <2> DEFINE Goal == claims' \in [Claims -> OnchainClaim] /\ ResolutionTypeOK'
  <2> USE DEF LifecycleTypeOK, ResolutionTypeOK
  <2>1. ASSUME NEW actor \in Actors, NEW c \in Claims, NEW e \in Evidence, open(actor, c, e)
        PROVE  Goal
    <3>1. claims' \in [Claims -> OnchainClaim]
      BY <2>1, MovedType DEF open, ClaimStates
    <3>2. resolutions' \in [Claims -> Resolution]
      BY <2>1 DEF open, NoResolution, Resolution, ResolutionStatus
    <3>3. QED
      BY <2>1, <3>1, <3>2 DEF open
  <2>2. ASSUME NEW actor \in Actors, NEW c \in Claims, NEW e \in Evidence,
               NEW n \in Recoveries, record_recovery(actor, c, n, e)
        PROVE  Goal
    <3> DEFINE recovering == [resolutions[c] EXCEPT !.recovered = @ + n, !.status = "Recovering"]
    <3>1. resolutions[c] \in Resolution /\ n \in Nat
      BY RecoveryAssumption
    <3>2. resolutions[c].recovered + n \in Nat
      BY <3>1 DEF Resolution
    <3>3. recovering \in Resolution
      BY <3>1, <3>2 DEF Resolution, ResolutionStatus
    <3>4. resolutions' = [resolutions EXCEPT ![c] = recovering]
      BY <2>2 DEF record_recovery
    <3> HIDE DEF recovering
    <3>5. QED
      BY <2>2, <3>3, <3>4 DEF record_recovery
  <2>3. ASSUME NEW actor \in Actors, NEW c \in Claims, NEW e \in Evidence,
               NEW n \in Recoveries, NEW loss \in Recoveries, close(actor, c, n, loss, e)
        PROVE  Goal
    <3>1. claims' \in [Claims -> OnchainClaim]
      BY <2>3, MovedType DEF close, ClaimStates, TerminalStates
    <3>2. [resolutions[c] EXCEPT !.recovered = n, !.final_loss = loss,
              !.status = IF loss = 0 THEN "Settled" ELSE "WrittenOff"] \in Resolution
      BY RecoveryAssumption DEF Resolution, ResolutionStatus
    <3>3. QED
      BY <2>3, <3>1, <3>2 DEF close
  <2>4. ASSUME NEW actor \in Actors, NEW enabled \in BOOLEAN, authorize_resolver(actor, enabled)
        PROVE  Goal
    BY <2>4 DEF authorize_resolver
  <2>5. QED
    BY <2>1, <2>2, <2>3, <2>4 DEF ResolutionStep, ResolutionCall, ResolverChange
<1>3. LifecycleTypeOK'
  BY <1>1, <1>2 DEF LifecycleTypeOK, BeyondResolution
<1>4. RegistryTypeOK' /\ AssetTypeOK'
  BY <1>1 DEF RegistryTypeOK, AssetTypeOK, BeyondResolution, registryVars, assetVars
<1>5. FacilityTypeOK' /\ WaterfallTypeOK'
  BY <1>1 DEF FacilityTypeOK, WaterfallTypeOK, BeyondResolution, facilityVars, waterfallVars
<1>6. QED
  BY <1>2, <1>3, <1>4, <1>5

LEMMA StutterType == TypeOK /\ UNCHANGED vars => TypeOK'
BY DEF TypeOK, RegistryTypeOK, LifecycleTypeOK, AssetTypeOK, FacilityTypeOK, WaterfallTypeOK,
       ResolutionTypeOK, vars, registryVars, lifecycleVars, assetVars, facilityVars,
       waterfallVars, resolutionVars

LEMMA NextType == TypeOK /\ [Next]_vars => TypeOK'
BY RegistryStepType, LifecycleStepType, AssetStepType, FacilityStepType, WaterfallStepType,
   ResolutionStepType, StutterType DEF Next

(* Every variable of the six contracts keeps its type; in particular no    *)
(* cash account, position or token balance is ever overdrawn.              *)
THEOREM TypeCorrect == Spec => []TypeOK
BY InitType, NextType, PTL DEF Spec

-----------------------------------------------------------------------------
(* Position accounting.  With the types it is inductive: the only calls    *)
(* that write a position are fund, apply_repayment, release, write-off and *)
(* execute, and execute credits what AllocationConserves says it may.      *)

Accounted(p) ==
  /\ p.outstanding + p.repaid <= p.principal
  /\ p.active <=> p.outstanding > 0
  /\ p.active => p.outstanding + p.repaid = p.principal
  /\ p.first_loss_consumed <= p.first_loss_funded
  /\ p.first_loss_consumed <= p.repaid

LEMMA AccountedPositions == PositionAccounting <=> \A c \in Claims : Accounted(positions[c])
BY DEF PositionAccounting, Accounted

(* Crediting n units of principal to p, after at most n units of its first *)
(* loss were consumed to make r of it.                                     *)
LEMMA CreditedAccounted ==
  ASSUME NEW p \in Position, NEW r \in Position, Accounted(p),
         NEW n \in Nat, n <= p.outstanding,
         /\ r.principal = p.principal /\ r.outstanding = p.outstanding
         /\ r.repaid = p.repaid /\ r.active = p.active
         /\ r.first_loss_funded = p.first_loss_funded,
         r.first_loss_consumed <= p.first_loss_consumed + n,
         r.first_loss_consumed <= r.first_loss_funded
  PROVE  Accounted(CreditedPosition(r, n))
<1> DEFINE q == CreditedPosition(r, n)
<1>1. /\ p.principal \in Nat /\ p.outstanding \in Nat /\ p.repaid \in Nat
      /\ p.first_loss_funded \in Nat /\ p.first_loss_consumed \in Nat
      /\ p.active \in BOOLEAN /\ r.first_loss_consumed \in Nat
  BY DEF Position
<1>2. /\ q.principal = p.principal /\ q.outstanding = p.outstanding - n
      /\ q.repaid = p.repaid + n /\ q.first_loss_funded = p.first_loss_funded
      /\ q.first_loss_consumed = r.first_loss_consumed
  BY DEF CreditedPosition, Position
<1>3. q.active = (p.active /\ p.outstanding # n)
  BY DEF CreditedPosition, Position
<1> HIDE DEF q
<1>4. q.active <=> q.outstanding > 0
  <2>1. p.active <=> p.outstanding > 0
    BY DEF Accounted
  <2>2. q.outstanding > 0 <=> (p.outstanding > 0 /\ p.outstanding # n)
    BY <1>1, <1>2
  <2>3. QED
    BY <1>3, <2>1, <2>2, Zenon
<1>5. q.active => q.outstanding + q.repaid = q.principal
  <2>1. p.active => p.outstanding + p.repaid = p.principal
    BY DEF Accounted
  <2>2. p.outstanding + p.repaid = p.principal => q.outstanding + q.repaid = q.principal
    BY <1>1, <1>2
  <2>3. QED
    BY <1>3, <2>1, <2>2, Zenon
<1>6. /\ q.outstanding + q.repaid <= q.principal
      /\ q.first_loss_consumed <= q.first_loss_funded
      /\ q.first_loss_consumed <= q.repaid
  BY <1>1, <1>2 DEF Accounted
<1>7. QED
  BY <1>4, <1>5, <1>6 DEF Accounted, q

LEMMA RepaymentAccounted ==
  ASSUME NEW p \in Position, Accounted(p), NEW n \in Nat, n <= p.outstanding
  PROVE  Accounted(CreditedPosition(p, n))
<1>1. /\ p.first_loss_consumed <= p.first_loss_consumed + n
      /\ p.first_loss_consumed <= p.first_loss_funded
  BY DEF Accounted, Position
<1>2. QED
  BY <1>1, CreditedAccounted

LEMMA WrittenOffAccounted ==
  ASSUME NEW p \in Position, Accounted(p) PROVE Accounted(WrittenOff(p))
BY DEF WrittenOff, Accounted, Position

LEMMA FacilityStepAccounting ==
  TypeOK /\ PositionAccounting /\ FacilityStep => PositionAccounting'
<1> SUFFICES ASSUME TypeOK, PositionAccounting, FacilityStep, NEW d \in Claims
             PROVE  Accounted(positions'[d])
  BY DEF PositionAccounting, Accounted
<1>1. /\ positions \in [Claims -> Position] /\ Accounted(positions[d])
      /\ \A c \in Claims : Accounted(positions[c])
  BY AccountedPositions DEF TypeOK, FacilityTypeOK
<1>2. ASSUME NEW actor \in Actors, NEW c \in Claims, NEW n \in Principals,
             NEW l \in FirstLosses, fund(actor, c, n, l)
      PROVE  Accounted(positions'[d])
  <2>1. Accounted(OpenPosition(n, l))
    BY PrincipalAssumption, FacilityAssumption DEF OpenPosition, Accounted
  <2>2. QED
    BY <1>1, <1>2, <2>1 DEF fund
<1>3. ASSUME NEW actor \in Actors, NEW c \in Claims, release_unused_first_loss(actor, c)
      PROVE  Accounted(positions'[d])
  <2>1. Accounted([positions[c] EXCEPT !.first_loss_funded = positions[c].first_loss_consumed])
    BY <1>1 DEF Accounted, Position
  <2>2. QED
    BY <1>1, <1>3, <2>1 DEF release_unused_first_loss
<1>4. ASSUME NEW c \in Claims, reconcile_closed_loss(c)
      PROVE  Accounted(positions'[d])
  BY <1>1, <1>4, WrittenOffAccounted DEF reconcile_closed_loss
<1>5. ASSUME NEW actor \in Actors, NEW c \in Claims, NEW n \in Settlements,
             NEW h \in Hashes \cup {ZeroHash}, apply_repayment(actor, c, n, h)
      PROVE  Accounted(positions'[d])
  <2>1. n \in Nat /\ n <= positions[c].outstanding
    BY <1>5, FacilityAssumption DEF apply_repayment, RepaymentAllowed
  <2>2. QED
    BY <1>1, <1>5, <2>1, RepaymentAccounted DEF apply_repayment
<1>6. CASE UNCHANGED positions
  BY <1>1, <1>6
<1>7. QED
  BY <1>2, <1>3, <1>4, <1>5, <1>6
  DEF FacilityStep, FacilityCall, FirstConfiguration, FacilityBreaker, Reconfiguration,
      DirectRepayment, ServicingChange, record_repayment, configure_facility,
      pause_facility, configure_servicing, set_waterfall

LEMMA WaterfallStepAccounting ==
  TypeOK /\ PositionAccounting /\ WaterfallStep => PositionAccounting'
<1> SUFFICES ASSUME TypeOK, PositionAccounting, WaterfallStep, NEW d \in Claims
             PROVE  Accounted(positions'[d])
  BY DEF PositionAccounting, Accounted
<1>1. /\ positions \in [Claims -> Position] /\ Accounted(positions[d])
      /\ \A c \in Claims : Accounted(positions[c])
  BY AccountedPositions DEF TypeOK, FacilityTypeOK
<1>2. ASSUME NEW actor \in Actors, NEW c \in Claims, NEW s \in Settlements,
             NEW sd \in Dues, NEW fd \in Dues, NEW h \in Hashes, NEW final \in BOOLEAN,
             execute(actor, c, s, sd, fd, h, final)
      PROVE  Accounted(positions'[d])
  <2> DEFINE p == positions[c]
             a == allocation(p, s, sd, fd)
             credited == a.principal + a.first_loss
             consumed == [p EXCEPT !.first_loss_consumed = @ + Paid(a.first_loss)]
             updated == CreditedPosition(consumed, credited)
             loss == final /\ p.outstanding - credited > 0
  <2>1. /\ s \in Nat /\ sd \in Int /\ fd \in Int /\ p \in Position /\ Accounted(p)
        /\ p.first_loss_consumed <= p.first_loss_funded
    BY <1>1, FacilityAssumption, DuesAssumption DEF Accounted
  <2>2. /\ a.principal \in Nat /\ a.first_loss \in 0 .. FirstLossAvailable(p)
        /\ credited <= p.outstanding
    <3>1. /\ a \in [servicing_fee : Int, principal : Int, financing_fee : Int,
                    first_loss : Int, senior_loss : Int, residual : Int]
          /\ p.outstanding \in Int
      BY <2>1, AllocationType DEF Position
    <3>2. /\ a.principal >= 0 /\ a.first_loss \in 0 .. FirstLossAvailable(p)
          /\ a.senior_loss >= 0 /\ a.principal + a.first_loss + a.senior_loss = p.outstanding
      BY <2>1, AllocationConserves
    <3>3. QED
      BY <3>1, <3>2
  <2>3. Paid(a.first_loss) = a.first_loss /\ a.first_loss \in Nat
    BY <2>2 DEF Paid
  <2>4. consumed \in Position /\ consumed.outstanding = p.outstanding /\ credited \in Nat
    <3> HIDE DEF a
    <3>1. QED
      BY <2>1, <2>2, <2>3 DEF Position
  <2>5. updated \in Position
    <3> HIDE DEF consumed, credited
    <3>1. QED
      BY <2>2, <2>4, CreditedType
  <2>6. Accounted(updated)
    <3>1. /\ consumed.first_loss_consumed <= p.first_loss_consumed + credited
          /\ consumed.first_loss_consumed <= consumed.first_loss_funded
      <4>1. consumed.first_loss_consumed = p.first_loss_consumed + a.first_loss
        BY <2>1, <2>3 DEF Position
      <4>2. /\ consumed.first_loss_funded = p.first_loss_funded
            /\ p.first_loss_consumed \in Nat /\ p.first_loss_funded \in Nat
        BY <2>1 DEF Position
      <4> HIDE DEF a
      <4>3. QED
        BY <2>2, <2>3, <4>1, <4>2 DEF FirstLossAvailable
    <3>2. /\ consumed.principal = p.principal /\ consumed.outstanding = p.outstanding
          /\ consumed.repaid = p.repaid /\ consumed.active = p.active
          /\ consumed.first_loss_funded = p.first_loss_funded
      BY <2>1 DEF Position
    <3> HIDE DEF consumed, credited
    <3>3. QED
      BY <2>1, <2>2, <2>4, <3>1, <3>2, CreditedAccounted
  <2>7. positions' = [positions EXCEPT ![c] = IF loss THEN WrittenOff(updated) ELSE updated]
    BY <1>2 DEF execute
  <2> HIDE DEF updated, loss
  <2>8. QED
    BY <1>1, <2>5, <2>6, <2>7, WrittenOffAccounted
<1>3. CASE UNCHANGED positions
  BY <1>1, <1>3
<1>4. QED
  BY <1>2, <1>3
  DEF WaterfallStep, WaterfallCall, WaterfallBreaker, WaterfallServicerChange,
      set_waterfall_pause, authorize_servicer, facilityVars

LEMMA AccountingStep == TypeOK /\ PositionAccounting /\ [Next]_vars => PositionAccounting'
<1> SUFFICES ASSUME TypeOK, PositionAccounting, [Next]_vars PROVE PositionAccounting'
  OBVIOUS
<1>1. CASE UNCHANGED facilityVars
  BY <1>1 DEF PositionAccounting, facilityVars
<1>2. CASE FacilityStep
  BY <1>2, FacilityStepAccounting
<1>3. CASE WaterfallStep
  BY <1>3, WaterfallStepAccounting
<1>4. QED
  BY <1>1, <1>2, <1>3
  DEF Next, RegistryStep, LifecycleStep, AssetStep, ResolutionStep, BeyondRegistry,
      BeyondLifecycle, BeyondAsset, BeyondResolution, vars

(* The principal of every position is accounted for in every reachable     *)
(* state, whichever entry points are used.                                 *)
THEOREM PositionsAccounted == Spec => []PositionAccounting
<1>1. Init => PositionAccounting
  <2>1. Accounted(NoPosition)
    BY DEF Accounted, NoPosition
  <2>2. QED
    BY <2>1 DEF Init, FacilityInit, PositionAccounting, Accounted
<1>2. Spec => []TypeOK
  BY TypeCorrect
<1>3. QED
  BY <1>1, <1>2, AccountingStep, PTL DEF Spec

-----------------------------------------------------------------------------
(* A financed claim can never be issued against or funded again.           *)

Fundable == {"Absent", "Eligible", "Controlled", "Issued"}

LEMMA MovedStage ==
  ASSUME TypeOK, NEW c \in Claims, NEW d \in Claims,
         NEW next \in ClaimStates \ {"Paused"}, claims' = Moved(c, next)
  PROVE  Stage(d)' = IF d = c THEN next ELSE Stage(d)
BY DEF TypeOK, LifecycleTypeOK, OnchainClaim, Moved, Stage

LEMMA TransitionLeavesFundable ==
  ASSUME NEW actor, NEW cl, NEW expected, NEW next,
         TransitionAllowed(actor, cl, expected, next), cl.state \notin Fundable
  PROVE  next \notin Fundable
BY DEF TransitionAllowed, validate_transition, Fundable

(* A call that goes through the lifecycle's transition keeps the claim it  *)
(* moves out of the fundable stages, if it was out of them.                *)
LEMMA MovedPastFundable ==
  ASSUME TypeOK, NEW c \in Claims, NEW d \in Claims, NEW actor, NEW expected,
         NEW next \in ClaimStates,
         TransitionAllowed(actor, claims[c], expected, next), claims' = Moved(c, next),
         Stage(d) \notin Fundable
  PROVE  Stage(d)' \notin Fundable
<1>1. next # "Paused" /\ claims[c].state # "Paused"
  BY TransitionTarget
<1>2. Stage(d)' = IF d = c THEN next ELSE Stage(d)
  BY <1>1, MovedStage
<1>3. CASE d = c
  <2>1. Stage(c) = claims[c].state
    BY <1>1 DEF Stage
  <2>2. QED
    BY <1>2, <1>3, <2>1, TransitionLeavesFundable
<1>4. QED
  BY <1>2, <1>3

LEMMA LifecycleStepStage ==
  ASSUME TypeOK, LifecycleStep, NEW d \in Claims, Stage(d) \notin Fundable
  PROVE  Stage(d)' \notin Fundable
<1>1. claims \in [Claims -> OnchainClaim]
  BY DEF TypeOK, LifecycleTypeOK
<1>2. ASSUME NEW actor \in Actors, NEW c \in Claims, NEW f \in Facilities,
             NEW p \in Principals, NEW a \in Attestations, create_claim(actor, c, f, p, a)
      PROVE  Stage(d)' \notin Fundable
  <2>1. d # c
    BY <1>2 DEF create_claim, Exists, Stage, Fundable
  <2>2. QED
    BY <1>1, <1>2, <2>1 DEF create_claim, Stage
<1>3. ASSUME NEW actor \in Actors, NEW c \in Claims, NEW t \in Times,
             confirm_control(actor, c, t)
      PROVE  Stage(d)' \notin Fundable
  <2>1. d # c
    BY <1>3 DEF confirm_control, Stage, Fundable
  <2>2. QED
    BY <1>1, <1>3, <2>1 DEF confirm_control, Stage
<1>4. ASSUME NEW actor \in Actors, NEW c \in Claims, pause(actor, c)
      PROVE  Stage(d)' \notin Fundable
  <2>1. CASE d = c
    <3>1. claims'[c].state = "Paused" /\ claims'[c].paused_from = claims[c].state
      BY <1>1, <1>4 DEF pause, OnchainClaim
    <3>2. claims[c].state # "Paused"
      BY <1>4 DEF pause
    <3>3. QED
      BY <2>1, <3>1, <3>2 DEF Stage
  <2>2. CASE d # c
    BY <1>1, <1>4, <2>2 DEF pause, Stage
  <2>3. QED
    BY <2>1, <2>2
<1>5. ASSUME NEW c \in Claims, NEW target \in ClaimStates, resume(c, target)
      PROVE  Stage(d)' \notin Fundable
  <2>1. CASE d = c
    <3>1. /\ claims'[c].state = target
          /\ claims'[c].paused_from = claims[c].paused_from
      BY <1>1, <1>5 DEF resume, OnchainClaim
    <3>2. Stage(c) = claims[c].paused_from
      BY <1>5 DEF resume, Stage
    <3>3. target = claims[c].paused_from
      BY <1>5, <2>1, <3>2 DEF resume, Fundable
    <3>4. QED
      BY <2>1, <3>1, <3>2, <3>3 DEF Stage
  <2>2. CASE d # c
    BY <1>1, <1>5, <2>2 DEF resume, Stage
  <2>3. QED
    BY <2>1, <2>2
<1>6. ASSUME NEW actor \in Actors, NEW c \in Claims, NEW next \in ClaimStates,
             transition(actor, c, claims[c].state, next)
      PROVE  Stage(d)' \notin Fundable
  BY <1>6, MovedPastFundable DEF transition
<1>7. CASE UNCHANGED claims
  BY <1>7 DEF Stage
<1>8. QED
  BY <1>2, <1>3, <1>4, <1>5, <1>6, <1>7
  DEF LifecycleStep, LifecycleCall, PauseResume, DirectTransition, RoleChange, set_role

LEMMA AssetStepStage ==
  ASSUME TypeOK, AssetStep, NEW d \in Claims, Stage(d) \notin Fundable
  PROVE  Stage(d)' \notin Fundable
<1>1. CASE UNCHANGED claims
  BY <1>1 DEF Stage
<1>2. CASE \E c \in Claims, expected, next \in ClaimStates :
             /\ TransitionAllowed(IssuerOperator, claims[c], expected, next)
             /\ claims' = Moved(c, next)
  BY <1>2, MovedPastFundable
<1>3. QED
  BY <1>1, <1>2
  DEF AssetStep, AssetCall, HolderIncident, AssetBreaker, GenericClawback, AssetPauserChange,
      issue, redeem, close_claim, authorize_holder, freeze, clawback_claim, clawback,
      set_global_pause, set_pauser, ClaimStates, TerminalStates

LEMMA FacilityStepStage ==
  ASSUME TypeOK, FundedIsNeverFundable, FacilityStep, NEW d \in Claims
  PROVE  positions'[d].exists => Stage(d)' \notin Fundable
<1>1. /\ positions \in [Claims -> Position]
      /\ positions[d].exists => Stage(d) \notin Fundable
  BY DEF TypeOK, FacilityTypeOK, FundedIsNeverFundable, Fundable
<1>2. ASSUME NEW actor \in Actors, NEW c \in Claims, NEW n \in Principals,
             NEW l \in FirstLosses, fund(actor, c, n, l)
      PROVE  positions'[d].exists => Stage(d)' \notin Fundable
  <2>1. Stage(d)' = IF d = c THEN "Funded" ELSE Stage(d)
    BY <1>2, MovedStage DEF fund, ClaimStates
  <2>2. d # c => positions'[d] = positions[d]
    BY <1>1, <1>2 DEF fund
  <2>3. QED
    BY <1>1, <2>1, <2>2 DEF Fundable
<1>3. CASE UNCHANGED claims /\ positions'[d].exists = positions[d].exists
  BY <1>1, <1>3 DEF Stage
<1>4. ASSUME NEW actor \in Actors, NEW c \in Claims, release_unused_first_loss(actor, c)
      PROVE  UNCHANGED claims /\ positions'[d].exists = positions[d].exists
  BY <1>1, <1>4 DEF release_unused_first_loss, Position
<1>5. ASSUME NEW c \in Claims, reconcile_closed_loss(c)
      PROVE  UNCHANGED claims /\ positions'[d].exists = positions[d].exists
  BY <1>1, <1>5 DEF reconcile_closed_loss, WrittenOff, Position
<1>6. ASSUME NEW actor \in Actors, NEW c \in Claims, NEW n \in Settlements,
             NEW h \in Hashes \cup {ZeroHash}, apply_repayment(actor, c, n, h)
      PROVE  UNCHANGED claims /\ positions'[d].exists = positions[d].exists
  BY <1>1, <1>6 DEF apply_repayment, CreditedPosition, Position
<1>7. QED
  BY <1>2, <1>3, <1>4, <1>5, <1>6
  DEF FacilityStep, FacilityCall, FirstConfiguration, FacilityBreaker, Reconfiguration,
      DirectRepayment, ServicingChange, record_repayment, configure_facility,
      pause_facility, configure_servicing, set_waterfall

LEMMA WaterfallStepStage ==
  ASSUME TypeOK, FundedIsNeverFundable, WaterfallStep, NEW d \in Claims
  PROVE  positions'[d].exists => Stage(d)' \notin Fundable
<1>1. /\ positions \in [Claims -> Position]
      /\ positions[d].exists => Stage(d) \notin Fundable
  BY DEF TypeOK, FacilityTypeOK, FundedIsNeverFundable, Fundable
<1>2. ASSUME NEW actor \in Actors, NEW c \in Claims, NEW s \in Settlements,
             NEW sd \in Dues, NEW fd \in Dues, NEW h \in Hashes, NEW final \in BOOLEAN,
             execute(actor, c, s, sd, fd, h, final)
      PROVE  positions'[d].exists => Stage(d)' \notin Fundable
  <2>1. PICK next \in {"Repaid", "Shortfall", "Settling"} : claims' = Moved(c, next)
    BY <1>2 DEF execute
  <2>2. Stage(d)' = IF d = c THEN next ELSE Stage(d)
    BY <2>1, MovedStage DEF ClaimStates
  <2>3. d # c => positions'[d] = positions[d]
    BY <1>1, <1>2 DEF execute
  <2>4. QED
    BY <1>1, <2>2, <2>3 DEF Fundable
<1>3. CASE UNCHANGED <<claims, positions>>
  BY <1>1, <1>3 DEF Stage
<1>4. QED
  BY <1>2, <1>3
  DEF WaterfallStep, WaterfallCall, WaterfallBreaker, WaterfallServicerChange,
      set_waterfall_pause, authorize_servicer, facilityVars

LEMMA ResolutionStepStage ==
  ASSUME TypeOK, ResolutionStep, NEW d \in Claims, Stage(d) \notin Fundable
  PROVE  Stage(d)' \notin Fundable
<1>1. ASSUME NEW actor \in Actors, NEW c \in Claims, NEW e \in Evidence, open(actor, c, e)
      PROVE  Stage(d)' \notin Fundable
  BY <1>1, MovedPastFundable DEF open, ClaimStates
<1>2. ASSUME NEW actor \in Actors, NEW c \in Claims, NEW e \in Evidence,
             NEW n \in Recoveries, NEW loss \in Recoveries, close(actor, c, n, loss, e)
      PROVE  Stage(d)' \notin Fundable
  BY <1>2, MovedPastFundable DEF close, ClaimStates, TerminalStates
<1>3. CASE UNCHANGED claims
  BY <1>3 DEF Stage
<1>4. QED
  BY <1>1, <1>2, <1>3
  DEF ResolutionStep, ResolutionCall, ResolverChange, record_recovery, authorize_resolver

LEMMA FundedStep == TypeOK /\ FundedIsNeverFundable /\ [Next]_vars => FundedIsNeverFundable'
<1> SUFFICES ASSUME TypeOK, FundedIsNeverFundable, [Next]_vars, NEW d \in Claims
             PROVE  positions'[d].exists => Stage(d)' \notin Fundable
  BY DEF FundedIsNeverFundable, Fundable
<1>1. positions[d].exists => Stage(d) \notin Fundable
  BY DEF FundedIsNeverFundable, Fundable
<1>2. CASE RegistryStep \/ UNCHANGED vars
  BY <1>1, <1>2 DEF RegistryStep, BeyondRegistry, vars, lifecycleVars, facilityVars, Stage
<1>3. CASE LifecycleStep
  <2>1. UNCHANGED positions
    BY <1>3 DEF LifecycleStep, BeyondLifecycle, facilityVars
  <2>2. QED
    BY <1>1, <1>3, <2>1, LifecycleStepStage
<1>4. CASE AssetStep
  <2>1. UNCHANGED positions
    BY <1>4 DEF AssetStep, BeyondAsset, facilityVars
  <2>2. QED
    BY <1>1, <1>4, <2>1, AssetStepStage
<1>5. CASE FacilityStep
  BY <1>5, FacilityStepStage
<1>6. CASE WaterfallStep
  BY <1>6, WaterfallStepStage
<1>7. CASE ResolutionStep
  <2>1. UNCHANGED positions
    BY <1>7 DEF ResolutionStep, BeyondResolution, facilityVars
  <2>2. QED
    BY <1>1, <1>7, <2>1, ResolutionStepStage
<1>8. QED
  BY <1>2, <1>3, <1>4, <1>5, <1>6, <1>7 DEF Next

(* Once a claim has a position, no sequence of calls of any role holder    *)
(* brings it back to a stage in which issue or fund accepts it.            *)
THEOREM NoDoubleFinancing == Spec => []FundedIsNeverFundable
<1>1. Init => FundedIsNeverFundable
  BY DEF Init, FacilityInit, FundedIsNeverFundable, NoPosition
<1>2. Spec => []TypeOK
  BY TypeCorrect
<1>3. QED
  BY <1>1, <1>2, FundedStep, PTL DEF Spec

-----------------------------------------------------------------------------
(* A terminal claim keeps its record.                                      *)

LEMMA MovedLeavesTerminal ==
  ASSUME TypeOK, NEW c \in Claims, NEW d \in Claims, NEW actor, NEW expected, NEW next,
         TransitionAllowed(actor, claims[c], expected, next), claims' = Moved(c, next),
         claims[d].state \in TerminalStates
  PROVE  claims'[d] = claims[d]
<1>1. d # c
  BY DEF TransitionAllowed
<1>2. QED
  BY <1>1 DEF TypeOK, LifecycleTypeOK, Moved

LEMMA TerminalStep ==
  ASSUME TypeOK, [Next]_vars, NEW d \in Claims, claims[d].state \in TerminalStates
  PROVE  claims'[d] = claims[d]
<1>1. claims \in [Claims -> OnchainClaim]
  BY DEF TypeOK, LifecycleTypeOK
<1>2. CASE UNCHANGED claims
  BY <1>2
<1>3. ASSUME NEW c \in Claims, NEW r, claims' = [claims EXCEPT ![c] = r],
             claims[c].state \notin TerminalStates
      PROVE  claims'[d] = claims[d]
  BY <1>1, <1>3
<1>4. CASE RegistryStep \/ UNCHANGED vars
  BY <1>2, <1>4 DEF RegistryStep, BeyondRegistry, vars, lifecycleVars
<1>5. CASE LifecycleStep
  <2>1. ASSUME NEW actor \in Actors, NEW c \in Claims, NEW f \in Facilities,
               NEW p \in Principals, NEW a \in Attestations, create_claim(actor, c, f, p, a)
        PROVE  claims'[d] = claims[d]
    BY <2>1, <1>3 DEF create_claim, Exists, TerminalStates
  <2>2. ASSUME NEW actor \in Actors, NEW c \in Claims, NEW t \in Times,
               confirm_control(actor, c, t)
        PROVE  claims'[d] = claims[d]
    BY <2>2, <1>3 DEF confirm_control, TerminalStates
  <2>3. ASSUME NEW actor \in Actors, NEW c \in Claims, pause(actor, c)
        PROVE  claims'[d] = claims[d]
    BY <2>3, <1>3 DEF pause
  <2>4. ASSUME NEW c \in Claims, NEW target \in ClaimStates, resume(c, target)
        PROVE  claims'[d] = claims[d]
    BY <2>4, <1>3 DEF resume, TerminalStates
  <2>5. ASSUME NEW actor \in Actors, NEW c \in Claims, NEW next \in ClaimStates,
               transition(actor, c, claims[c].state, next)
        PROVE  claims'[d] = claims[d]
    BY <2>5, MovedLeavesTerminal DEF transition
  <2>6. QED
    BY <1>2, <1>5, <2>1, <2>2, <2>3, <2>4, <2>5
    DEF LifecycleStep, LifecycleCall, PauseResume, DirectTransition, RoleChange, set_role
<1>6. CASE AssetStep
  <2>1. ASSUME NEW c \in Claims, NEW h \in Holders, NEW n \in Amounts,
               issue(IssuerOperator, c, h, n)
        PROVE  claims'[d] = claims[d]
    BY <2>1, MovedLeavesTerminal DEF issue
  <2>2. ASSUME NEW c \in Claims, NEW h \in Holders, NEW n \in Amounts,
               redeem(IssuerOperator, c, h, n)
        PROVE  claims'[d] = claims[d]
    <3>1. CASE UNCHANGED claims
      BY <3>1
    <3>2. CASE /\ TransitionAllowed(IssuerOperator, claims[c], "Repaid", "Redeemed")
               /\ claims' = Moved(c, "Redeemed")
      BY <3>2, MovedLeavesTerminal
    <3>3. QED
      BY <2>2, <3>1, <3>2 DEF redeem
  <2>3. ASSUME NEW c \in Claims, close_claim(IssuerOperator, c)
        PROVE  claims'[d] = claims[d]
    BY <2>3, MovedLeavesTerminal DEF close_claim
  <2>4. CASE HolderIncident \/ AssetBreaker \/ GenericClawback \/ AssetPauserChange
    BY <1>2, <2>4
    DEF HolderIncident, AssetBreaker, GenericClawback, AssetPauserChange, authorize_holder,
        freeze, clawback_claim, clawback, set_global_pause, set_pauser
  <2>5. ASSUME NEW h \in Holders, authorize_holder(IssuerOperator, h, TRUE)
        PROVE  claims'[d] = claims[d]
    BY <1>2, <2>5 DEF authorize_holder
  <2>6. QED
    BY <1>6, <2>1, <2>2, <2>3, <2>4, <2>5 DEF AssetStep, AssetCall
<1>7. CASE FacilityStep
  <2>1. ASSUME NEW actor \in Actors, NEW c \in Claims, NEW n \in Principals,
               NEW l \in FirstLosses, fund(actor, c, n, l)
        PROVE  claims'[d] = claims[d]
    BY <2>1, MovedLeavesTerminal DEF fund
  <2>2. QED
    BY <1>2, <1>7, <2>1
    DEF FacilityStep, FacilityCall, FirstConfiguration, FacilityBreaker, Reconfiguration,
        DirectRepayment, ServicingChange, release_unused_first_loss, reconcile_closed_loss,
        apply_repayment, record_repayment, configure_facility, pause_facility,
        configure_servicing, set_waterfall
<1>8. CASE WaterfallStep
  <2>1. ASSUME NEW actor \in Actors, NEW c \in Claims, NEW s \in Settlements,
               NEW sd \in Dues, NEW fd \in Dues, NEW h \in Hashes, NEW final \in BOOLEAN,
               execute(actor, c, s, sd, fd, h, final)
        PROVE  claims'[d] = claims[d]
    <3>1. claims[c].state \in {"Funded", "Settling"} /\ \E next : claims' = Moved(c, next)
      BY <2>1 DEF execute, TransitionAllowed
    <3>2. d # c
      BY <3>1 DEF TerminalStates
    <3>3. QED
      BY <1>1, <3>1, <3>2 DEF Moved
  <2>2. QED
    BY <1>2, <1>8, <2>1
    DEF WaterfallStep, WaterfallCall, WaterfallBreaker, WaterfallServicerChange,
        set_waterfall_pause, authorize_servicer
<1>9. CASE ResolutionStep
  <2>1. ASSUME NEW actor \in Actors, NEW c \in Claims, NEW e \in Evidence, open(actor, c, e)
        PROVE  claims'[d] = claims[d]
    BY <2>1, MovedLeavesTerminal DEF open
  <2>2. ASSUME NEW actor \in Actors, NEW c \in Claims, NEW e \in Evidence,
               NEW n \in Recoveries, NEW loss \in Recoveries, close(actor, c, n, loss, e)
        PROVE  claims'[d] = claims[d]
    BY <2>2, MovedLeavesTerminal DEF close
  <2>3. QED
    BY <1>2, <1>9, <2>1, <2>2
    DEF ResolutionStep, ResolutionCall, ResolverChange, record_recovery, authorize_resolver
<1>10. QED
  BY <1>4, <1>5, <1>6, <1>7, <1>8, <1>9 DEF Next

(* No call of any contract changes the record of a closed claim.           *)
THEOREM ClosedClaimsStay == Spec => TerminalIsFinal
<1>1. TypeOK /\ [Next]_vars =>
        [\A c \in Claims : claims[c].state \in TerminalStates => claims'[c] = claims[c]]_vars
  BY TerminalStep
<1>2. Spec => []TypeOK
  BY TypeCorrect
<1>3. QED
  BY <1>1, <1>2, PTL DEF Spec, TerminalIsFinal

=============================================================================
