----------------------- MODULE JejakCoherence_proofs -----------------------
(***************************************************************************)
(* The contracts agree with each other when nobody calls the lifecycle's   *)
(* transition entry point directly: every move of a claim's stage is then  *)
(* an edge of the life ClaimFinancing describes, made in the transaction   *)
(* that does what the edge stands for.  The proofs go over those edges;    *)
(* the last section proves that the contracts implement ClaimFinancing.    *)
(***************************************************************************)
EXTENDS JejakAccounts_proofs

StageMoves(c, from, to) ==
  /\ Stage(c) = from
  /\ \A d \in Claims : Stage(d)' = IF d = c THEN to ELSE Stage(d)

SameStages == \A d \in Claims : Stage(d)' = Stage(d)

(* The moves that touch neither a position nor a resolution.               *)
OwnEdges ==
  {<<"Absent", "Eligible">>, <<"Eligible", "Controlled">>, <<"Controlled", "Issued">>,
   <<"Issued", "Controlled">>, <<"Repaid", "Redeemed">>, <<"Redeemed", "Closed">>}

OwnMove == \E c \in Claims, e \in OwnEdges : StageMoves(c, e[1], e[2])

(* A transition another contract calls moves the stage as it moves the     *)
(* state: a paused claim is refused.                                       *)
LEMMA TransitionMoves ==
  ASSUME TypeOK, NEW c \in Claims, NEW actor, NEW expected, NEW next \in ClaimStates,
         TransitionAllowed(actor, claims[c], expected, next), claims' = Moved(c, next)
  PROVE  StageMoves(c, expected, next)
<1>1. next # "Paused" /\ claims[c].state # "Paused" /\ claims[c].state = expected
  BY TransitionTarget DEF TransitionAllowed
<1>2. \A d \in Claims : Stage(d)' = IF d = c THEN next ELSE Stage(d)
  BY <1>1, MovedStage
<1>. QED BY <1>1, <1>2 DEF StageMoves, Stage

(* The lifecycle's own entry points move a claim along an edge of its own, *)
(* or not at all.                                                          *)
LEMMA LifecycleMoves ==
  ASSUME "transition" \notin EntryPoints, TypeOK, LifecycleStep
  PROVE  SameStages \/ OwnMove
<1>1. claims \in [Claims -> OnchainClaim]
  BY DEF TypeOK, LifecycleTypeOK
<1>2. ASSUME NEW actor \in Actors, NEW c \in Claims, NEW f \in Facilities,
             NEW p \in Principals, NEW a \in Attestations, create_claim(actor, c, f, p, a)
      PROVE  StageMoves(c, "Absent", "Eligible")
  <2>1. /\ claims[c].state = "Absent" /\ claims'[c].state = "Eligible"
        /\ \A d \in Claims : d # c => claims'[d] = claims[d]
    BY <1>1, <1>2 DEF create_claim, Exists, AbsentClaim
  <2>. QED BY <2>1 DEF StageMoves, Stage
<1>3. ASSUME NEW actor \in Actors, NEW c \in Claims, NEW t \in Times,
             confirm_control(actor, c, t)
      PROVE  StageMoves(c, "Eligible", "Controlled")
  <2>1. /\ claims[c].state = "Eligible" /\ claims'[c].state = "Controlled"
        /\ \A d \in Claims : d # c => claims'[d] = claims[d]
    BY <1>1, <1>3 DEF confirm_control, OnchainClaim
  <2>. QED BY <2>1 DEF StageMoves, Stage
<1>4. ASSUME NEW actor \in Actors, NEW c \in Claims, pause(actor, c)
      PROVE  SameStages
  <2>1. /\ claims'[c].state = "Paused" /\ claims'[c].paused_from = claims[c].state
        /\ claims[c].state # "Paused"
        /\ \A d \in Claims : d # c => claims'[d] = claims[d]
    BY <1>1, <1>4 DEF pause, OnchainClaim
  <2>. QED BY <2>1 DEF SameStages, Stage
<1>5. ASSUME NEW c \in Claims, NEW target \in ClaimStates, resume(c, target)
      PROVE  SameStages \/ StageMoves(c, "Issued", "Controlled")
  <2>1. /\ claims'[c].state = target /\ claims'[c].paused_from = claims[c].paused_from
        /\ claims[c].state = "Paused"
        /\ \/ target = claims[c].paused_from
           \/ claims[c].paused_from = "Issued" /\ target = "Controlled"
        /\ \A d \in Claims : d # c => claims'[d] = claims[d]
    BY <1>1, <1>5 DEF resume, OnchainClaim
  <2>. QED BY <2>1 DEF SameStages, StageMoves, Stage
<1>6. CASE UNCHANGED claims
  BY <1>6 DEF SameStages, Stage
<1>7. /\ \A c \in Claims : StageMoves(c, "Absent", "Eligible") => OwnMove
      /\ \A c \in Claims : StageMoves(c, "Eligible", "Controlled") => OwnMove
      /\ \A c \in Claims : StageMoves(c, "Issued", "Controlled") => OwnMove
  <2>1. /\ \A c \in Claims : StageMoves(c, <<"Absent", "Eligible">>[1], <<"Absent", "Eligible">>[2]) => OwnMove
        /\ \A c \in Claims : StageMoves(c, <<"Eligible", "Controlled">>[1], <<"Eligible", "Controlled">>[2]) => OwnMove
        /\ \A c \in Claims : StageMoves(c, <<"Issued", "Controlled">>[1], <<"Issued", "Controlled">>[2]) => OwnMove
    BY DEF OwnMove, OwnEdges
  <2>. QED BY <2>1
<1>. QED
  BY <1>2, <1>3, <1>4, <1>5, <1>6, <1>7
  DEF LifecycleStep, LifecycleCall, PauseResume, RoleChange, set_role

(* So do those of the asset controller.                                    *)
LEMMA AssetMoves ==
  ASSUME TypeOK, AssetStep
  PROVE  SameStages \/ OwnMove
<1>1. CASE UNCHANGED claims
  BY <1>1 DEF SameStages, Stage
<1>2. ASSUME NEW c \in Claims, NEW h \in Holders, NEW n \in Amounts, issue(IssuerOperator, c, h, n)
      PROVE  StageMoves(c, "Controlled", "Issued")
  BY <1>2, TransitionMoves DEF issue, ClaimStates
<1>3. ASSUME NEW c \in Claims, NEW h \in Holders, NEW n \in Amounts, redeem(IssuerOperator, c, h, n)
      PROVE  UNCHANGED claims \/ StageMoves(c, "Repaid", "Redeemed")
  BY <1>3, TransitionMoves DEF redeem, ClaimStates
<1>4. ASSUME NEW c \in Claims, close_claim(IssuerOperator, c)
      PROVE  StageMoves(c, "Redeemed", "Closed")
  BY <1>4, TransitionMoves DEF close_claim, ClaimStates, TerminalStates
<1>5. /\ \A c \in Claims : StageMoves(c, "Controlled", "Issued") => OwnMove
      /\ \A c \in Claims : StageMoves(c, "Repaid", "Redeemed") => OwnMove
      /\ \A c \in Claims : StageMoves(c, "Redeemed", "Closed") => OwnMove
  <2>1. /\ \A c \in Claims : StageMoves(c, <<"Controlled", "Issued">>[1], <<"Controlled", "Issued">>[2]) => OwnMove
        /\ \A c \in Claims : StageMoves(c, <<"Repaid", "Redeemed">>[1], <<"Repaid", "Redeemed">>[2]) => OwnMove
        /\ \A c \in Claims : StageMoves(c, <<"Redeemed", "Closed">>[1], <<"Redeemed", "Closed">>[2]) => OwnMove
    BY DEF OwnMove, OwnEdges
  <2>. QED BY <2>1
<1>. QED
  BY <1>1, <1>2, <1>3, <1>4, <1>5
  DEF AssetStep, AssetCall, HolderIncident, AssetBreaker, GenericClawback, AssetPauserChange,
      authorize_holder, freeze, clawback_claim, clawback, set_global_pause, set_pauser

(* Every step, by what it does to the stages, positions and resolutions.   *)
LEMMA StageSteps ==
  ASSUME "transition" \notin EntryPoints, TypeOK, [Next]_vars
  PROVE  \/ (SameStages \/ OwnMove) /\ UNCHANGED <<positions, resolutions>>
         \/ /\ UNCHANGED resolutions
            /\ \/ \E actor \in Actors, c \in Claims, n \in Principals, l \in FirstLosses :
                    fund(actor, c, n, l)
               \/ \E actor \in Actors, c \in Claims : release_unused_first_loss(actor, c)
               \/ \E c \in Claims : reconcile_closed_loss(c)
               \/ /\ "repayment" \in EntryPoints
                  /\ \E c \in Claims, n \in Settlements, h \in Hashes \cup {ZeroHash} :
                       Repayment(c, n, h)
               \/ \E actor \in Actors, c \in Claims, s \in Settlements, sd, fd \in Dues,
                     h \in Hashes, final \in BOOLEAN : execute(actor, c, s, sd, fd, h, final)
         \/ /\ UNCHANGED positions
            /\ \E actor \in Actors, c \in Claims, e \in Evidence :
                 \/ open(actor, c, e)
                 \/ \E n \in Recoveries : record_recovery(actor, c, n, e)
                 \/ \E n, loss \in Recoveries : close(actor, c, n, loss, e)
<1>1. CASE RegistryStep \/ UNCHANGED vars
  BY <1>1 DEF RegistryStep, BeyondRegistry, vars, lifecycleVars, facilityVars, resolutionVars,
     SameStages, Stage
<1>2. CASE LifecycleStep
  BY <1>2, LifecycleMoves DEF LifecycleStep, BeyondLifecycle, facilityVars, resolutionVars
<1>3. CASE AssetStep
  BY <1>3, AssetMoves DEF AssetStep, BeyondAsset, facilityVars, resolutionVars
<1>4. CASE FacilityStep
  <2>1. UNCHANGED resolutions
    BY <1>4 DEF FacilityStep, BeyondFacility, resolutionVars
  <2>2. ASSUME NEW f, NEW x, NEW y, \/ configure_facility(f, x, y)
                                    \/ pause_facility(f, x)
                                    \/ configure_servicing(f, x)
                                    \/ set_waterfall(x)
        PROVE  SameStages /\ UNCHANGED positions
    BY <2>2 DEF configure_facility, pause_facility, configure_servicing, set_waterfall,
       SameStages, Stage
  <2>. QED
    BY <1>4, <2>1, <2>2 DEF FacilityStep, FacilityCall, FirstConfiguration, FacilityBreaker,
       Reconfiguration, DirectRepayment, ServicingChange, record_repayment, Repayment
<1>5. CASE WaterfallStep
  <2>1. UNCHANGED resolutions
    BY <1>5 DEF WaterfallStep, BeyondWaterfall, resolutionVars
  <2>2. ASSUME NEW x, NEW y, authorize_servicer(x, y) \/ set_waterfall_pause(y)
        PROVE  SameStages /\ UNCHANGED positions
    BY <2>2 DEF authorize_servicer, set_waterfall_pause, facilityVars, SameStages, Stage
  <2>. QED
    BY <1>5, <2>1, <2>2 DEF WaterfallStep, WaterfallCall, WaterfallBreaker, WaterfallServicerChange
<1>6. CASE ResolutionStep
  <2>1. UNCHANGED positions
    BY <1>6 DEF ResolutionStep, BeyondResolution, facilityVars
  <2>2. ASSUME NEW x, NEW y, authorize_resolver(x, y)
        PROVE  SameStages /\ UNCHANGED resolutions
    BY <2>2 DEF authorize_resolver, SameStages, Stage
  <2>. QED
    BY <1>6, <2>1, <2>2 DEF ResolutionStep, ResolutionCall, ResolverChange
<1>. QED
  BY <1>1, <1>2, <1>3, <1>4, <1>5, <1>6 DEF Next

(* fund moves the claim from Issued to Funded.                             *)
LEMMA FundStage ==
  ASSUME TypeOK, NEW actor \in Actors, NEW c \in Claims, NEW n \in Principals,
         NEW l \in FirstLosses, fund(actor, c, n, l)
  PROVE  StageMoves(c, "Issued", "Funded")
BY TransitionMoves DEF fund, ClaimStates

(* execute moves the claim to Settling, or, when it is the final           *)
(* settlement, to Repaid or Shortfall by what is left owing.               *)
LEMMA ExecuteStage ==
  ASSUME TypeOK, NEW c \in Claims, NEW k, NEW l, NEW income, NEW final \in BOOLEAN,
         Settled(c, k, l, income, final)
  PROVE  /\ Stage(c) \in {"Funded", "Settling"}
         /\ StageMoves(c, Stage(c), IF ~ final THEN "Settling"
                                    ELSE IF positions[c].outstanding - (k + l) = 0
                                      THEN "Repaid" ELSE "Shortfall")
<1> DEFINE next == IF ~ final THEN "Settling"
                   ELSE IF positions[c].outstanding - (k + l) = 0 THEN "Repaid" ELSE "Shortfall"
<1>1. claims[c].state \in {"Funded", "Settling"} /\ claims' = Moved(c, next)
  BY DEF Settled
<1>2. next \in ClaimStates \ {"Paused"}
  BY DEF ClaimStates
<1> HIDE DEF next
<1>3. \A d \in Claims : Stage(d)' = IF d = c THEN next ELSE Stage(d)
  BY <1>1, <1>2, MovedStage
<1>4. Stage(c) = claims[c].state
  BY <1>1 DEF Stage
<1>. QED BY <1>1, <1>3, <1>4 DEF StageMoves, next

(* The resolution manager's calls either leave the stages alone or make    *)
(* one of its moves.                                                       *)
ResolutionEdges ==
  {<<"Shortfall", "Resolution">>, <<"Resolution", "Closed">>, <<"Resolution", "ClosedWithLoss">>}

(* A step of the resolution manager moves the claim along an edge of a     *)
(* resolution.                                                             *)
LEMMA ResolutionMoves ==
  ASSUME TypeOK, NEW actor \in Actors, NEW c \in Claims, NEW ev \in Evidence,
         \/ open(actor, c, ev)
         \/ \E n \in Recoveries : record_recovery(actor, c, n, ev)
         \/ \E n, loss \in Recoveries : close(actor, c, n, loss, ev)
  PROVE  SameStages \/ \E e \in ResolutionEdges : StageMoves(c, e[1], e[2])
<1>1. CASE open(actor, c, ev)
  <2>1. StageMoves(c, "Shortfall", "Resolution")
    BY <1>1, TransitionMoves DEF open, ClaimStates
  <2>2. StageMoves(c, <<"Shortfall", "Resolution">>[1], <<"Shortfall", "Resolution">>[2])
    BY <2>1
  <2>. QED BY <2>2 DEF ResolutionEdges
<1>2. CASE \E n \in Recoveries : record_recovery(actor, c, n, ev)
  BY <1>2 DEF record_recovery, SameStages, Stage
<1>3. CASE \E n, loss \in Recoveries : close(actor, c, n, loss, ev)
  <2>1. PICK next \in {"Closed", "ClosedWithLoss"} :
          /\ TransitionAllowed(actor, claims[c], "Resolution", next)
          /\ claims' = Moved(c, next)
    BY <1>3 DEF close
  <2>2. StageMoves(c, "Resolution", next)
    BY <2>1, TransitionMoves DEF ClaimStates, TerminalStates
  <2>3. StageMoves(c, <<"Resolution", next>>[1], <<"Resolution", next>>[2])
    BY <2>2
  <2>. QED BY <2>3 DEF ResolutionEdges
<1>. QED BY <1>1, <1>2, <1>3

-----------------------------------------------------------------------------
(* The resolution record and the claim agree.                              *)

LEMMA ResolutionStepAgrees ==
  ASSUME "transition" \notin EntryPoints, TypeOK, ResolutionMatchesLifecycle, [Next]_vars
  PROVE  ResolutionMatchesLifecycle'
<1> DEFINE Agrees(c) == /\ Undecided(c) <=> Stage(c) = "Resolution"
                        /\ resolutions[c].status = "WrittenOff" <=> Stage(c) = "ClosedWithLoss"
                        /\ resolutions[c].status = "Settled" => Stage(c) = "Closed"
<1>1. /\ resolutions \in [Claims -> Resolution]
      /\ \A c \in Claims : Agrees(c)
  BY DEF TypeOK, ResolutionTypeOK, ResolutionMatchesLifecycle
<1> SUFFICES ASSUME NEW d \in Claims PROVE Agrees(d)'
  BY DEF ResolutionMatchesLifecycle
<1>2. CASE SameStages /\ UNCHANGED resolutions
  BY <1>1, <1>2 DEF SameStages, Undecided
<1>3. ASSUME NEW c \in Claims, NEW from, NEW to, StageMoves(c, from, to), UNCHANGED resolutions,
             from \notin {"Resolution", "ClosedWithLoss", "Closed"},
             to \notin {"Resolution", "ClosedWithLoss"}
      PROVE  Agrees(d)'
  BY <1>1, <1>3 DEF StageMoves, Undecided
<1>4. CASE OwnMove /\ UNCHANGED resolutions
  <2>1. PICK c \in Claims, e \in OwnEdges : StageMoves(c, e[1], e[2])
    BY <1>4 DEF OwnMove
  <2>2. /\ e[1] \notin {"Resolution", "ClosedWithLoss", "Closed"}
        /\ e[2] \notin {"Resolution", "ClosedWithLoss"}
    BY DEF OwnEdges
  <2>. QED BY <1>3, <1>4, <2>1, <2>2
<1>5. ASSUME NEW actor \in Actors, NEW c \in Claims, NEW n \in Principals, NEW l \in FirstLosses,
             fund(actor, c, n, l), UNCHANGED resolutions
      PROVE  Agrees(d)'
  BY <1>3, <1>5, FundStage
<1>6. ASSUME UNCHANGED <<claims, resolutions>>
      PROVE  Agrees(d)'
  BY <1>2, <1>6 DEF SameStages, Stage
<1>7. ASSUME NEW actor \in Actors, NEW c \in Claims, NEW s \in Settlements, NEW sd \in Dues,
             NEW fd \in Dues, NEW h \in Hashes, NEW final \in BOOLEAN,
             execute(actor, c, s, sd, fd, h, final), UNCHANGED resolutions
      PROVE  Agrees(d)'
  <2>1. PICK next \in {"Settling", "Repaid", "Shortfall"} : claims' = Moved(c, next)
    BY <1>7 DEF execute
  <2>2. claims[c].state \in {"Funded", "Settling"}
    BY <1>7 DEF execute, TransitionAllowed
  <2>3. StageMoves(c, claims[c].state, next)
    BY <2>1, <2>2, MovedStage DEF StageMoves, Stage, ClaimStates
  <2>. QED BY <1>3, <1>7, <2>2, <2>3
<1>8. ASSUME NEW actor \in Actors, NEW c \in Claims, NEW e \in Evidence, open(actor, c, e)
      PROVE  Agrees(d)'
  <2>1. StageMoves(c, "Shortfall", "Resolution")
    BY <1>8, TransitionMoves DEF open, ClaimStates
  <2>2. resolutions'[c].status = "Open" /\ \A x \in Claims : x # c => resolutions'[x] = resolutions[x]
    BY <1>1, <1>8 DEF open, NoResolution
  <2>. QED BY <1>1, <2>1, <2>2 DEF StageMoves, Undecided
<1>9. ASSUME NEW actor \in Actors, NEW c \in Claims, NEW e \in Evidence, NEW n \in Recoveries,
             record_recovery(actor, c, n, e)
      PROVE  Agrees(d)'
  <2>1. SameStages
    BY <1>9 DEF record_recovery, SameStages, Stage
  <2>2. /\ resolutions'[c].status = "Recovering" /\ Undecided(c)
        /\ \A x \in Claims : x # c => resolutions'[x] = resolutions[x]
    BY <1>1, <1>9 DEF record_recovery, Resolution
  <2>. QED BY <1>1, <2>1, <2>2 DEF SameStages, Undecided
<1>10. ASSUME NEW actor \in Actors, NEW c \in Claims, NEW e \in Evidence, NEW n \in Recoveries,
              NEW loss \in Recoveries, close(actor, c, n, loss, e)
       PROVE  Agrees(d)'
  <2>1. StageMoves(c, "Resolution", IF loss = 0 THEN "Closed" ELSE "ClosedWithLoss")
    BY <1>10, TransitionMoves DEF close, ClaimStates, TerminalStates
  <2>2. /\ resolutions'[c].status = IF loss = 0 THEN "Settled" ELSE "WrittenOff"
        /\ \A x \in Claims : x # c => resolutions'[x] = resolutions[x]
    BY <1>1, <1>10 DEF close, Resolution
  <2>. QED BY <1>1, <2>1, <2>2 DEF StageMoves, Undecided
<1>11. UNCHANGED resolutions =>
         \A x, y, z : \/ release_unused_first_loss(x, y)
                      \/ reconcile_closed_loss(x)
                      \/ Repayment(x, y, z)
                      => Agrees(d)'
  BY <1>6 DEF release_unused_first_loss, reconcile_closed_loss, Repayment, apply_repayment
<1> HIDE DEF Agrees
<1>. QED
  BY <1>2, <1>4, <1>5, <1>7, <1>8, <1>9, <1>10, <1>11, StageSteps

(* Without direct transitions, a resolution is undecided exactly while its *)
(* claim is in Resolution, and its verdict is where the claim ended.       *)
THEOREM ResolutionAgrees ==
  ASSUME "transition" \notin EntryPoints
  PROVE  Spec => []ResolutionMatchesLifecycle
<1>1. Init => ResolutionMatchesLifecycle
  <2> SUFFICES ASSUME Init PROVE ResolutionMatchesLifecycle
    OBVIOUS
  <2>1. \A c \in Claims : resolutions[c].status = "None" /\ Stage(c) = "Absent"
    BY DEF Init, ResolutionInit, LifecycleInit, NoResolution, Stage, AbsentClaim
  <2>. QED BY <2>1 DEF ResolutionMatchesLifecycle, Undecided
<1>2. TypeOK /\ ResolutionMatchesLifecycle /\ [Next]_vars => ResolutionMatchesLifecycle'
  BY ResolutionStepAgrees
<1>. QED
  BY <1>1, <1>2, TypeCorrect, PTL DEF Spec

-----------------------------------------------------------------------------
(* First loss stands before senior loss.                                   *)

(* A position can be credited only while its claim is being settled.       *)
ActiveWhileSettling ==
  \A c \in Claims : positions[c].active => Stage(c) \in {"Funded", "Settling"}

(* What crediting a position changes, field by field.                      *)
LEMMA CreditedFields ==
  ASSUME NEW p \in Position, NEW n \in Nat
  PROVE  LET q == CreditedPosition(p, n) IN
         /\ q.exists = p.exists /\ q.principal = p.principal
         /\ q.outstanding = p.outstanding - n /\ q.repaid = p.repaid + n
         /\ q.active = (p.active /\ p.outstanding # n)
         /\ q.first_loss_funded = p.first_loss_funded
         /\ q.first_loss_consumed = p.first_loss_consumed
BY DEF CreditedPosition, Position

(* Every step keeps settling positions active and takes the first loss     *)
(* before the senior one.                                                  *)
LEMMA FirstLossStep ==
  ASSUME "transition" \notin EntryPoints, TypeOK, PositionAccounting, Unopened,
         ActiveWhileSettling, FirstLossBeforeSeniorLoss, [Next]_vars
  PROVE  ActiveWhileSettling' /\ FirstLossBeforeSeniorLoss'
<1> DEFINE Stands(p) == p.exists /\ ~ p.active /\ p.repaid < p.principal
                          => FirstLossAvailable(p) = 0
           Open(c) == positions[c].active => Stage(c) \in {"Funded", "Settling"}
<1>1. /\ positions \in [Claims -> Position]
      /\ \A c \in Claims : Stands(positions[c]) /\ Open(c)
  BY DEF TypeOK, FacilityTypeOK, ActiveWhileSettling, FirstLossBeforeSeniorLoss
<1> SUFFICES ASSUME NEW d \in Claims PROVE Stands(positions'[d]) /\ Open(d)'
  BY DEF ActiveWhileSettling, FirstLossBeforeSeniorLoss
<1>2. CASE SameStages /\ UNCHANGED positions
  BY <1>1, <1>2 DEF SameStages
<1>3. ASSUME NEW c \in Claims, NEW from, NEW to, StageMoves(c, from, to), UNCHANGED positions,
             from \notin {"Funded", "Settling"}
      PROVE  Stands(positions'[d]) /\ Open(d)'
  BY <1>1, <1>3 DEF StageMoves
<1>4. CASE OwnMove /\ UNCHANGED positions
  <2>1. PICK c \in Claims, e \in OwnEdges : StageMoves(c, e[1], e[2])
    BY <1>4 DEF OwnMove
  <2>2. e[1] \notin {"Funded", "Settling"}
    BY DEF OwnEdges
  <2>. QED BY <1>3, <1>4, <2>1, <2>2
<1>5. ASSUME NEW c \in Claims, OnlyPosition(c), SameStages, Stands(positions'[c]),
             positions'[c].active => positions[c].active
      PROVE  Stands(positions'[d]) /\ Open(d)'
  BY <1>1, <1>5 DEF OnlyPosition, SameStages
<1>6. ASSUME NEW c \in Claims
      PROVE  /\ positions[c] \in Position /\ positions[c].principal \in Nat
             /\ positions[c].outstanding \in Nat /\ positions[c].repaid \in Nat
             /\ positions[c].first_loss_funded \in Nat /\ positions[c].first_loss_consumed \in Nat
             /\ positions[c].active <=> positions[c].outstanding > 0
             /\ positions[c].active
                  => positions[c].outstanding + positions[c].repaid = positions[c].principal
  BY <1>1 DEF PositionAccounting, Position
<1>7. ASSUME NEW actor \in Actors, NEW c \in Claims, NEW n \in Principals, NEW l \in FirstLosses,
             fund(actor, c, n, l)
      PROVE  Stands(positions'[d]) /\ Open(d)'
  <2>1. positions'[c].active /\ OnlyPosition(c)
    <3>1. OpenPosition(n, l).active = TRUE
      BY DEF OpenPosition
    <3>. QED BY <1>7, <3>1, FundOpens
  <2>2. StageMoves(c, "Issued", "Funded")
    BY <1>7, FundStage
  <2>. QED BY <1>1, <2>1, <2>2 DEF OnlyPosition, StageMoves
<1>8. ASSUME NEW actor \in Actors, NEW c \in Claims, release_unused_first_loss(actor, c)
      PROVE  Stands(positions'[d]) /\ Open(d)'
  <2>1. SameStages
    BY <1>8, ReleaseReturns DEF SameStages, Stage
  <2>2. CASE positions' = positions
    BY <1>2, <2>1, <2>2
  <2>3. CASE positions' # positions
    <3> DEFINE unused == FirstLossAvailable(positions[c])
    <3>1. /\ OnlyPosition(c)
          /\ positions'[c] = [positions[c] EXCEPT !.first_loss_funded = @ - unused]
      BY <1>8, <2>3, ReleaseReturns
    <3>2. FirstLossAvailable(positions'[c]) = 0 /\ positions'[c].active = positions[c].active
      <4>1. /\ positions'[c].first_loss_funded = positions[c].first_loss_funded - unused
            /\ positions'[c].first_loss_consumed = positions[c].first_loss_consumed
            /\ positions'[c].active = positions[c].active
        BY <1>6, <3>1 DEF Position
      <4>. QED BY <1>6, <4>1 DEF FirstLossAvailable
    <3>. QED BY <1>5, <2>1, <3>1, <3>2
  <2>. QED BY <2>2, <2>3
<1>9. ASSUME NEW c \in Claims, reconcile_closed_loss(c)
      PROVE  Stands(positions'[d]) /\ Open(d)'
  <2>1. positions[c].active /\ claims[c].state = "ClosedWithLoss"
    BY <1>9, ReconcileWritesOff
  <2>. QED BY <1>1, <2>1 DEF Stage
<1>10. ASSUME NEW c \in Claims, NEW n \in Settlements, NEW h \in Hashes \cup {ZeroHash},
              Repayment(c, n, h)
       PROVE  Stands(positions'[d]) /\ Open(d)'
  <2> DEFINE p == positions[c]
             q == positions'[c]
  <2>1. /\ n \in Nat /\ n <= p.outstanding /\ p.exists
        /\ q = CreditedPosition(p, n) /\ OnlyPosition(c) /\ UNCHANGED claims
    BY <1>10, RepaymentCredits
  <2>2. SameStages
    BY <2>1 DEF SameStages, Stage
  <2>3. /\ q.exists = p.exists /\ q.principal = p.principal /\ q.repaid = p.repaid + n
        /\ q.active = (p.active /\ p.outstanding # n)
        /\ q.first_loss_funded = p.first_loss_funded
        /\ q.first_loss_consumed = p.first_loss_consumed
    <3>1. p \in Position /\ n \in Nat /\ q = CreditedPosition(p, n)
      BY <1>6, <2>1
    <3> HIDE DEF p, q
    <3>. QED BY <3>1, CreditedFields
  <2>4. /\ p.principal \in Nat /\ p.outstanding \in Nat /\ p.repaid \in Nat
        /\ p.active <=> p.outstanding > 0
        /\ p.active => p.outstanding + p.repaid = p.principal
        /\ Stands(p)
    BY <1>1, <1>6
  <2>5. FirstLossAvailable(q) = FirstLossAvailable(p)
    BY <2>3 DEF FirstLossAvailable
  <2>6. q.repaid < q.principal /\ ~ q.active => ~ p.active /\ p.repaid < p.principal
    <3> HIDE DEF p, q
    <3>1. CASE p.active
      <4>1. p.outstanding = n => q.repaid = q.principal
        BY <2>1, <2>3, <2>4, <3>1
      <4>2. q.repaid < q.principal => q.repaid # q.principal
        BY <2>1, <2>3, <2>4
      <4>. QED BY <2>3, <3>1, <4>1, <4>2
    <3>2. CASE ~ p.active
      <4>1. n = 0
        BY <2>1, <2>4, <3>2
      <4>. QED BY <2>3, <2>4, <3>2, <4>1
    <3>. QED BY <3>1, <3>2
  <2>7. Stands(q) /\ (q.active => p.active)
    BY <2>3, <2>4, <2>5, <2>6
  <2>. QED BY <1>5, <2>1, <2>2, <2>7
<1>11. ASSUME NEW actor \in Actors, NEW c \in Claims, NEW s \in Settlements, NEW sd \in Dues,
              NEW fd \in Dues, NEW h \in Hashes, NEW final \in BOOLEAN,
              execute(actor, c, s, sd, fd, h, final)
       PROVE  Stands(positions'[d]) /\ Open(d)'
  <2>1. PICK k, l, income : Settled(c, k, l, income, final)
    BY <1>11, ExecuteSettles
  <2> DEFINE p == positions[c]
             q == positions'[c]
             rest == p.outstanding - (k + l)
  <2>2. /\ k \in Nat /\ l \in Nat /\ rest \in Nat
        /\ l <= FirstLossAvailable(p) /\ (rest > 0 => l = FirstLossAvailable(p))
        /\ p.exists /\ q.exists /\ OnlyPosition(c) /\ q.principal = p.principal
        /\ q.first_loss_funded = p.first_loss_funded
        /\ q.first_loss_consumed = p.first_loss_consumed + l
        /\ q.repaid = p.repaid + (k + l)
        /\ q.active = (p.active /\ rest # 0 /\ ~ final)
    BY <2>1 DEF Settled, OnlyPosition
  <2>3. /\ p.principal \in Nat /\ p.outstanding \in Nat /\ p.repaid \in Nat
        /\ p.first_loss_funded \in Nat /\ p.first_loss_consumed \in Nat
        /\ p.active <=> p.outstanding > 0
        /\ p.active => p.outstanding + p.repaid = p.principal
        /\ Stands(p)
    BY <1>1, <1>6
  <2>4. FirstLossAvailable(q) = FirstLossAvailable(p) - l /\ FirstLossAvailable(p) \in Int
    <3>1. \A f, u, m \in Nat : f - (u + m) = (f - u) - m /\ f - u \in Int
      OBVIOUS
    <3> HIDE DEF p, q, rest, Stands
    <3>. QED BY <2>2, <2>3, <3>1 DEF FirstLossAvailable
  <2>5. Stands(q)
    <3> SUFFICES ASSUME ~ q.active, q.repaid < q.principal
                 PROVE  FirstLossAvailable(p) - l = 0
      BY <2>4
    <3>1. CASE rest > 0
      BY <2>2, <2>4, <3>1
    <3>2. CASE rest = 0
      <4>1. ~ p.active /\ p.repaid < p.principal
        <5>1. p.outstanding = k + l
          BY <2>2, <2>3, <3>2
        <5> HIDE DEF p, q, rest
        <5>. QED BY <2>2, <2>3, <5>1
      <4>2. FirstLossAvailable(p) = 0
        BY <2>2, <2>3, <4>1
      <4> HIDE DEF p, rest
      <4>. QED BY <2>2, <2>4, <4>2
    <3>. QED BY <2>2, <3>1, <3>2
  <2>6. Open(c)' /\ \A x \in Claims : x # c => Stage(x)' = Stage(x)
    <3>1. StageMoves(c, Stage(c), IF ~ final THEN "Settling"
                                  ELSE IF rest = 0 THEN "Repaid" ELSE "Shortfall")
      BY <2>1, ExecuteStage
    <3>2. q.active => ~ final
      BY <2>2
    <3>. QED BY <3>1, <3>2 DEF StageMoves
  <2>. QED BY <1>1, <2>2, <2>5, <2>6 DEF OnlyPosition
<1>12. ASSUME NEW actor \in Actors, NEW c \in Claims, NEW e \in Evidence, UNCHANGED positions,
              \/ open(actor, c, e)
              \/ \E n \in Recoveries : record_recovery(actor, c, n, e)
              \/ \E n, loss \in Recoveries : close(actor, c, n, loss, e)
       PROVE  Stands(positions'[d]) /\ Open(d)'
  <2>1. CASE SameStages
    BY <1>2, <1>12, <2>1
  <2>2. CASE \E x \in ResolutionEdges : StageMoves(c, x[1], x[2])
    <3>1. PICK x \in ResolutionEdges : StageMoves(c, x[1], x[2])
      BY <2>2
    <3>2. x[1] \notin {"Funded", "Settling"}
      BY DEF ResolutionEdges
    <3>. QED BY <1>3, <1>12, <3>1, <3>2
  <2>. QED BY <1>12, <2>1, <2>2, ResolutionMoves
<1> HIDE DEF Stands, Open
<1>. QED
  BY <1>2, <1>4, <1>7, <1>8, <1>9, <1>10, <1>11, <1>12, StageSteps

(* Without direct transitions, a position that was written off with        *)
(* principal missing has no first loss left that could have covered it.    *)
THEOREM FirstLossStandsFirst ==
  ASSUME "transition" \notin EntryPoints
  PROVE  Spec => []FirstLossBeforeSeniorLoss
<1>1. Init => ActiveWhileSettling /\ FirstLossBeforeSeniorLoss
  BY DEF Init, FacilityInit, ActiveWhileSettling, FirstLossBeforeSeniorLoss, NoPosition
<1>2. TypeOK /\ PositionAccounting /\ Unopened /\ ActiveWhileSettling
        /\ FirstLossBeforeSeniorLoss /\ [Next]_vars
        => ActiveWhileSettling' /\ FirstLossBeforeSeniorLoss'
  BY FirstLossStep
<1>. QED
  BY <1>1, <1>2, TypeCorrect, PositionsAccounted, UnopenedStay, PTL DEF Spec

-----------------------------------------------------------------------------
(* A claim's stage and its position tell the same story.                   *)

(* While a claim is being settled, every unit of its principal is still    *)
(* owed or was credited.                                                   *)
SettlingOwesRest ==
  \A c \in Claims : Stage(c) \in {"Funded", "Settling"} =>
    positions[c].outstanding + positions[c].repaid = positions[c].principal

(* What the two invariants say of one claim with stage st and position p.  *)
Story(st, p) ==
  /\ p.exists <=> st \notin Fundable
  /\ st = "Funded" => p.outstanding = p.principal
  /\ st \in {"Repaid", "Redeemed"} => p.repaid = p.principal
  /\ st \in {"Shortfall", "Resolution", "ClosedWithLoss"} => ~ p.active /\ p.repaid < p.principal
  /\ st \in {"Funded", "Settling"} => p.outstanding + p.repaid = p.principal

(* The two invariants, as one story per claim.                             *)
LEMMA StoryIsBoth ==
  LifecycleMatchesPosition /\ SettlingOwesRest <=> \A c \in Claims : Story(Stage(c), positions[c])
BY DEF LifecycleMatchesPosition, SettlingOwesRest, Story, Fundable

(* A move of a stage that needs nothing of the position.                   *)
LEMMA StoryMoves ==
  ASSUME NEW p, NEW e \in OwnEdges \cup ResolutionEdges,
         Story(e[1], p)
  PROVE  Story(e[2], p)
BY DEF Story, OwnEdges, ResolutionEdges, Fundable

(* Every step keeps the stage of each claim in accord with its position.   *)
LEMMA StoryStep ==
  ASSUME "transition" \notin EntryPoints, "repayment" \notin EntryPoints, TypeOK,
         PositionAccounting, Unopened, LifecycleMatchesPosition, SettlingOwesRest, [Next]_vars
  PROVE  LifecycleMatchesPosition' /\ SettlingOwesRest'
<1>1. /\ positions \in [Claims -> Position]
      /\ \A c \in Claims : Story(Stage(c), positions[c])
  BY StoryIsBoth DEF TypeOK, FacilityTypeOK
<1>a. (\A c \in Claims : Story(Stage(c)', positions'[c]))
        => LifecycleMatchesPosition' /\ SettlingOwesRest'
  BY DEF LifecycleMatchesPosition, SettlingOwesRest, Story, Fundable
<1> SUFFICES ASSUME NEW d \in Claims PROVE Story(Stage(d)', positions'[d])
  BY <1>a
<1>2. CASE SameStages /\ UNCHANGED positions
  BY <1>1, <1>2 DEF SameStages
<1>3. ASSUME NEW c \in Claims, NEW from, NEW to, StageMoves(c, from, to), OnlyPosition(c),
             Story(from, positions[c]) => Story(to, positions'[c])
      PROVE  Story(Stage(d)', positions'[d])
  BY <1>1, <1>3 DEF StageMoves, OnlyPosition
<1>4. ASSUME NEW c \in Claims, UNCHANGED positions,
             NEW e \in OwnEdges \cup ResolutionEdges,
             StageMoves(c, e[1], e[2])
      PROVE  Story(Stage(d)', positions'[d])
  <2>1. Story(e[1], positions[c]) => Story(e[2], positions'[c])
    BY <1>4, StoryMoves
  <2>. QED BY <1>3, <1>4, <2>1 DEF OnlyPosition
<1>5. CASE OwnMove /\ UNCHANGED positions
  BY <1>4, <1>5 DEF OwnMove
<1>6. ASSUME NEW c \in Claims
      PROVE  /\ positions[c] \in Position /\ positions[c].principal \in Nat
             /\ positions[c].outstanding \in Nat /\ positions[c].repaid \in Nat
             /\ positions[c].active <=> positions[c].outstanding > 0
             /\ positions[c].active
                  => positions[c].outstanding + positions[c].repaid = positions[c].principal
  BY <1>1 DEF PositionAccounting, Position
<1>7. ASSUME NEW actor \in Actors, NEW c \in Claims, NEW n \in Principals, NEW l \in FirstLosses,
             fund(actor, c, n, l)
      PROVE  Story(Stage(d)', positions'[d])
  <2>1. n \in Nat /\ positions'[c] = OpenPosition(n, l) /\ OnlyPosition(c)
    BY <1>7, FundOpens
  <2>2. Story("Funded", OpenPosition(n, l))
    BY <2>1 DEF Story, OpenPosition, Fundable
  <2>. QED BY <1>3, <1>7, <2>1, <2>2, FundStage
<1>8. ASSUME NEW actor \in Actors, NEW c \in Claims, release_unused_first_loss(actor, c)
      PROVE  Story(Stage(d)', positions'[d])
  <2>1. SameStages
    BY <1>8, ReleaseReturns DEF SameStages, Stage
  <2>2. CASE positions' = positions
    BY <1>2, <2>1, <2>2
  <2>3. CASE positions' # positions
    <3> DEFINE unused == FirstLossAvailable(positions[c])
    <3>1. /\ OnlyPosition(c)
          /\ positions'[c] = [positions[c] EXCEPT !.first_loss_funded = @ - unused]
      BY <1>8, <2>3, ReleaseReturns
    <3>2. /\ positions'[c].exists = positions[c].exists
          /\ positions'[c].active = positions[c].active
          /\ positions'[c].principal = positions[c].principal
          /\ positions'[c].outstanding = positions[c].outstanding
          /\ positions'[c].repaid = positions[c].repaid
      BY <1>6, <3>1 DEF Position
    <3>3. Story(Stage(c), positions'[c])
      BY <1>1, <3>2 DEF Story
    <3>4. StageMoves(c, Stage(c), Stage(c))
      BY <2>1 DEF SameStages, StageMoves
    <3>. QED BY <1>3, <3>1, <3>3, <3>4
  <2>. QED BY <2>2, <2>3
<1>9. ASSUME NEW c \in Claims, reconcile_closed_loss(c)
      PROVE  Story(Stage(d)', positions'[d])
  <2>1. positions[c].active /\ Stage(c) = "ClosedWithLoss"
    BY <1>9, ReconcileWritesOff DEF Stage
  <2>. QED BY <1>1, <2>1 DEF Story
<1>10. ASSUME NEW actor \in Actors, NEW c \in Claims, NEW s \in Settlements, NEW sd \in Dues,
              NEW fd \in Dues, NEW h \in Hashes, NEW final \in BOOLEAN,
              execute(actor, c, s, sd, fd, h, final)
       PROVE  Story(Stage(d)', positions'[d])
  <2>1. PICK k, l, income : Settled(c, k, l, income, final)
    BY <1>10, ExecuteSettles
  <2> DEFINE p == positions[c]
             q == positions'[c]
             rest == p.outstanding - (k + l)
             next == IF ~ final THEN "Settling" ELSE IF rest = 0 THEN "Repaid" ELSE "Shortfall"
  <2>2. /\ k \in Nat /\ l \in Nat /\ rest \in Nat
        /\ q.exists /\ OnlyPosition(c) /\ q.principal = p.principal
        /\ q.repaid = p.repaid + (k + l)
        /\ q.outstanding = IF final THEN 0 ELSE rest
        /\ q.active = (p.active /\ rest # 0 /\ ~ final)
    BY <2>1 DEF Settled, OnlyPosition
  <2>3. /\ p.principal \in Nat /\ p.outstanding \in Nat /\ p.repaid \in Nat
    BY <1>6
  <2>4. Stage(c) \in {"Funded", "Settling"} /\ StageMoves(c, Stage(c), next)
    BY <2>1, ExecuteStage
  <2>5. p.outstanding + p.repaid = p.principal
    BY <1>1, <2>4 DEF Story
  <2>6. /\ rest + q.repaid = q.principal
        /\ rest = 0 => q.repaid = q.principal
        /\ rest # 0 => q.repaid < q.principal
    <3>1. rest = p.outstanding - (k + l)
      OBVIOUS
    <3> HIDE DEF p, q, rest
    <3>. QED BY <2>2, <2>3, <2>5, <3>1
  <2>7. Story(next, q)
    <3>1. CASE ~ final
      BY <2>2, <2>6, <3>1 DEF Story, Fundable
    <3>2. CASE final /\ rest = 0
      BY <2>2, <2>6, <3>2 DEF Story, Fundable
    <3>3. CASE final /\ rest # 0
      <4> HIDE DEF q, rest
      <4>. QED BY <2>2, <2>6, <3>3 DEF Story, Fundable
    <3>. QED BY <3>1, <3>2, <3>3
  <2>. QED BY <1>3, <2>2, <2>4, <2>7
<1>11. ASSUME NEW actor \in Actors, NEW c \in Claims, NEW e \in Evidence, UNCHANGED positions,
              \/ open(actor, c, e)
              \/ \E n \in Recoveries : record_recovery(actor, c, n, e)
              \/ \E n, loss \in Recoveries : close(actor, c, n, loss, e)
       PROVE  Story(Stage(d)', positions'[d])
  BY <1>2, <1>4, <1>11, ResolutionMoves
<1>. QED
  BY <1>2, <1>5, <1>7, <1>8, <1>9, <1>10, <1>11, StageSteps

(* The stage of a claim and its position tell the same story.              *)
LEMMA StoryHolds ==
  ASSUME "transition" \notin EntryPoints, "repayment" \notin EntryPoints
  PROVE  Spec => [](LifecycleMatchesPosition /\ SettlingOwesRest)
<1>1. Init => LifecycleMatchesPosition /\ SettlingOwesRest
  <2> SUFFICES ASSUME Init, NEW c \in Claims PROVE Story(Stage(c), positions[c])
    BY StoryIsBoth
  <2>1. Stage(c) = "Absent" /\ positions[c] = NoPosition
    BY DEF Init, FacilityInit, LifecycleInit, Stage, AbsentClaim
  <2>. QED BY <2>1 DEF Story, NoPosition, Fundable
<1>2. TypeOK /\ PositionAccounting /\ Unopened /\ LifecycleMatchesPosition /\ SettlingOwesRest
        /\ [Next]_vars => LifecycleMatchesPosition' /\ SettlingOwesRest'
  BY StoryStep
<1>. QED
  BY <1>1, <1>2, TypeCorrect, PositionsAccounted, UnopenedStay, PTL DEF Spec

(* Without direct transitions and direct repayments, a claim's stage and   *)
(* its position tell the same story.                                       *)
THEOREM LifecycleAgrees ==
  ASSUME "transition" \notin EntryPoints, "repayment" \notin EntryPoints
  PROVE  Spec => []LifecycleMatchesPosition
BY StoryHolds, PTL

-----------------------------------------------------------------------------
(* The contracts implement ClaimFinancing.  Under the refinement mapping,  *)
(* an own move and a resolution move are an Advance, fund is Finance, a    *)
(* call of execute is Credit, Settle or DeclareShort, and every other call *)
(* is a stutter.                                                           *)

Phase    == [c \in Claims |-> Stage(c)]
Owed     == [c \in Claims |-> positions[c].outstanding]
Credited == [c \in Claims |-> positions[c].repaid]
Lost     == [c \in Claims |-> Written(positions[c])]

(* A move of the stage is a move of the abstract phase.                    *)
LEMMA PhaseMoves ==
  ASSUME NEW c \in Claims, NEW from, NEW to, StageMoves(c, from, to)
  PROVE  Phase[c] = from /\ Phase' = [Phase EXCEPT ![c] = to]
BY DEF Phase, StageMoves

(* The contracts start where the abstract life starts.                     *)
LEMMA InitRefines == Init => Financing!Init
<1> SUFFICES ASSUME Init PROVE Financing!Init
  OBVIOUS
<1>1. ASSUME NEW c \in Claims
      PROVE  /\ Stage(c) = "Absent" /\ positions[c].outstanding = 0 /\ positions[c].repaid = 0
             /\ Written(positions[c]) = 0
  BY DEF Init, FacilityInit, LifecycleInit, Stage, AbsentClaim, NoPosition, Written
<1>. QED BY <1>1 DEF Financing!Init

(* Every step of the contracts is a step of the abstract life, or a        *)
(* stutter.                                                                *)
LEMMA StepRefines ==
  ASSUME "transition" \notin EntryPoints, "repayment" \notin EntryPoints, TypeOK,
         PositionAccounting, Unopened, LifecycleMatchesPosition, SettlingOwesRest, [Next]_vars
  PROVE  [Financing!Next]_(Financing!financingVars)
<1>1. /\ positions \in [Claims -> Position]
      /\ \A c \in Claims : Story(Stage(c), positions[c])
  BY StoryIsBoth DEF TypeOK, FacilityTypeOK
<1>2. CASE SameStages /\ UNCHANGED positions
  <2>1. UNCHANGED <<Phase, Owed, Credited, Lost>>
    BY <1>2 DEF SameStages, Phase, Owed, Credited, Lost
  <2>. QED BY <2>1 DEF Financing!financingVars, Phase, Owed, Credited, Lost
<1>3. ASSUME NEW c \in Claims, NEW e \in OwnEdges \cup ResolutionEdges, UNCHANGED positions,
             StageMoves(c, e[1], e[2])
      PROVE  Financing!Next
  <2>1. e \in Financing!Edges
    BY DEF OwnEdges, ResolutionEdges, Financing!Edges
  <2>2. Phase[c] = e[1] /\ Phase' = [Phase EXCEPT ![c] = e[2]]
    BY <1>3, PhaseMoves
  <2>3. UNCHANGED <<Owed, Credited, Lost>>
    BY <1>3 DEF Owed, Credited, Lost
  <2>4. Financing!Advance(c)
    BY <2>1, <2>2, <2>3 DEF Financing!Advance, Phase, Owed, Credited, Lost
  <2>. QED BY <2>4 DEF Financing!Next
<1>4. ASSUME NEW c \in Claims
      PROVE  /\ positions[c] \in Position /\ positions[c].principal \in Nat
             /\ positions[c].outstanding \in Nat /\ positions[c].repaid \in Nat
  BY <1>1 DEF Position
<1>5. ASSUME NEW actor \in Actors, NEW c \in Claims, NEW n \in Principals, NEW l \in FirstLosses,
             fund(actor, c, n, l)
      PROVE  Financing!Next
  <2>1. /\ n \in Nat /\ ~ positions[c].exists
        /\ positions'[c] = OpenPosition(n, l) /\ OnlyPosition(c)
    BY <1>5, FundOpens
  <2>2. /\ positions[c].repaid = 0 /\ Written(positions[c]) = 0
    BY <2>1 DEF Unopened, NoPosition, Written
  <2>3. /\ positions'[c].outstanding = n /\ positions'[c].repaid = 0
        /\ Written(positions'[c]) = 0
    BY <2>1 DEF OpenPosition, Written
  <2>4. /\ Owed' = [Owed EXCEPT ![c] = n] /\ UNCHANGED <<Credited, Lost>>
    BY <2>1, <2>2, <2>3 DEF Owed, Credited, Lost, OnlyPosition
  <2>5. Phase[c] = "Issued" /\ Phase' = [Phase EXCEPT ![c] = "Funded"]
    BY <1>5, FundStage, PhaseMoves
  <2>6. Financing!Finance(c, n)
    BY <2>4, <2>5 DEF Financing!Finance, Phase, Owed, Credited, Lost
  <2>. QED BY <2>6 DEF Financing!Next
<1>6. ASSUME NEW actor \in Actors, NEW c \in Claims, release_unused_first_loss(actor, c)
      PROVE  UNCHANGED Financing!financingVars
  <2>1. UNCHANGED Phase
    BY <1>6, ReleaseReturns DEF Phase, Stage
  <2>2. CASE positions' = positions
    BY <2>1, <2>2 DEF Financing!financingVars, Phase
  <2>3. CASE positions' # positions
    <3> DEFINE unused == FirstLossAvailable(positions[c])
    <3>1. /\ OnlyPosition(c)
          /\ positions'[c] = [positions[c] EXCEPT !.first_loss_funded = @ - unused]
      BY <1>6, <2>3, ReleaseReturns
    <3>2. /\ positions'[c].principal = positions[c].principal
          /\ positions'[c].outstanding = positions[c].outstanding
          /\ positions'[c].repaid = positions[c].repaid
      BY <1>4, <3>1 DEF Position
    <3>3. UNCHANGED <<Owed, Credited, Lost>>
      BY <3>1, <3>2 DEF Owed, Credited, Lost, Written, OnlyPosition
    <3>. QED BY <2>1, <3>3 DEF Financing!financingVars, Phase, Owed, Credited, Lost
  <2>. QED BY <2>2, <2>3
<1>7. ASSUME NEW c \in Claims, reconcile_closed_loss(c)
      PROVE  FALSE
  <2>1. positions[c].active /\ Stage(c) = "ClosedWithLoss"
    BY <1>7, ReconcileWritesOff DEF Stage
  <2>. QED BY <1>1, <2>1 DEF Story
<1>8. ASSUME NEW actor \in Actors, NEW c \in Claims, NEW s \in Settlements, NEW sd \in Dues,
             NEW fd \in Dues, NEW h \in Hashes, NEW final \in BOOLEAN,
             execute(actor, c, s, sd, fd, h, final)
      PROVE  Financing!Next
  <2>1. PICK k, l, income : Settled(c, k, l, income, final)
    BY <1>8, ExecuteSettles
  <2> DEFINE p == positions[c]
             q == positions'[c]
             n == k + l
             rest == p.outstanding - n
             next == IF ~ final THEN "Settling" ELSE IF rest = 0 THEN "Repaid" ELSE "Shortfall"
  <2>2. /\ n \in Nat /\ rest \in Nat /\ OnlyPosition(c) /\ q.principal = p.principal
        /\ q.repaid = p.repaid + n
        /\ q.outstanding = IF final THEN 0 ELSE rest
    BY <2>1 DEF Settled, OnlyPosition
  <2>3. /\ p.principal \in Nat /\ p.outstanding \in Nat /\ p.repaid \in Nat
    BY <1>4
  <2>4. Stage(c) \in {"Funded", "Settling"} /\ StageMoves(c, Stage(c), next)
    BY <2>1, ExecuteStage
  <2>5. p.outstanding + p.repaid = p.principal
    BY <1>1, <2>4 DEF Story
  <2>6. /\ n \in 0 .. p.outstanding
        /\ rest = 0 => n = p.outstanding
        /\ rest # 0 => n < p.outstanding
        /\ p.principal - p.outstanding - p.repaid = 0
        /\ ~ final => q.principal - q.outstanding - q.repaid = 0
        /\ final => q.principal - q.outstanding - q.repaid = p.outstanding - n
    <3>1. rest = p.outstanding - n
      OBVIOUS
    <3> HIDE DEF p, q, rest, n, next
    <3>2. /\ n \in 0 .. p.outstanding
          /\ rest = 0 => n = p.outstanding
          /\ rest # 0 => n < p.outstanding
      BY <2>2, <2>3, <3>1
    <3>3. p.principal - p.outstanding - p.repaid = 0
      BY <2>3, <2>5
    <3>4. ~ final => q.principal - q.outstanding - q.repaid = 0
      BY <2>2, <2>3, <2>5, <3>1
    <3>5. final => q.principal - q.outstanding - q.repaid = p.outstanding - n
      BY <2>2, <2>3, <2>5, <3>1
    <3>. QED BY <3>2, <3>3, <3>4, <3>5
  <2>7. /\ Phase[c] \in {"Funded", "Settling"} /\ Phase' = [Phase EXCEPT ![c] = next]
        /\ Owed[c] = p.outstanding
    BY <2>4, PhaseMoves DEF Owed
  <2>8. /\ Owed' = [Owed EXCEPT ![c] = q.outstanding]
        /\ Credited' = [Credited EXCEPT ![c] = @ + n]
        /\ Lost' = [Lost EXCEPT ![c] = q.principal - q.outstanding - q.repaid]
        /\ Lost[c] = 0
    BY <2>2, <2>6 DEF Owed, Credited, Lost, Written, OnlyPosition
  <2> HIDE DEF p, q, n, next
  <2>9. CASE ~ final
    <3>1. next = "Settling" /\ q.outstanding = Owed[c] - n
      BY <2>2, <2>7, <2>9 DEF next
    <3>2. UNCHANGED Lost
      BY <2>6, <2>8, <2>9 DEF Lost
    <3>3. Financing!Credit(c, n)
      BY <2>7, <2>8, <3>1, <3>2 DEF Financing!Credit, Phase, Owed, Credited, Lost
    <3>. QED BY <2>6, <2>7, <3>3 DEF Financing!Next, Owed
  <2>10. CASE final /\ rest = 0
    <3>1. next = "Repaid" /\ q.outstanding = 0 /\ n = Owed[c]
      BY <2>2, <2>6, <2>7, <2>10 DEF next
    <3>2. UNCHANGED Lost
      BY <2>3, <2>6, <2>8, <2>10 DEF Lost
    <3>3. Financing!Settle(c)
      BY <2>7, <2>8, <3>1, <3>2 DEF Financing!Settle, Phase, Owed, Credited, Lost
    <3>. QED BY <3>3 DEF Financing!Next
  <2>11. CASE final /\ rest # 0
    <3>1. /\ next = "Shortfall" /\ q.outstanding = 0 /\ n < Owed[c]
          /\ q.principal - q.outstanding - q.repaid = Owed[c] - n
      BY <2>2, <2>6, <2>7, <2>11 DEF next
    <3>2. Financing!DeclareShort(c, n)
      BY <2>7, <2>8, <3>1 DEF Financing!DeclareShort, Phase, Owed, Credited, Lost
    <3>. QED BY <2>6, <2>7, <3>2 DEF Financing!Next, Owed
  <2>. QED BY <2>9, <2>10, <2>11
<1>9. ASSUME NEW actor \in Actors, NEW c \in Claims, NEW e \in Evidence, UNCHANGED positions,
             \/ open(actor, c, e)
             \/ \E n \in Recoveries : record_recovery(actor, c, n, e)
             \/ \E n, loss \in Recoveries : close(actor, c, n, loss, e)
      PROVE  [Financing!Next]_(Financing!financingVars)
  BY <1>2, <1>3, <1>9, ResolutionMoves
<1>10. CASE OwnMove /\ UNCHANGED positions
  BY <1>3, <1>10 DEF OwnMove
<1>. QED
  BY <1>2, <1>5, <1>6, <1>7, <1>8, <1>9, <1>10, StageSteps

(* Without direct transitions and direct repayments, every behaviour of    *)
(* the six contracts gives each claim the life ClaimFinancing describes.   *)
THEOREM ClaimsAreFinanced ==
  ASSUME "transition" \notin EntryPoints, "repayment" \notin EntryPoints
  PROVE  Spec => ImplementsClaimFinancing
<1>1. TypeOK /\ PositionAccounting /\ Unopened /\ LifecycleMatchesPosition /\ SettlingOwesRest
        /\ [Next]_vars => [Financing!Next]_(Financing!financingVars)
  BY StepRefines
<1>. QED
  BY <1>1, InitRefines, TypeCorrect, PositionsAccounted, UnopenedStay, StoryHolds, PTL
  DEF Spec, ImplementsClaimFinancing, Financing!Spec
=============================================================================
