------------------------ MODULE JejakAccounts_proofs ------------------------
(***************************************************************************)
(* The books of the six contracts, for every set of claims, facilities and *)
(* holders and every amount: the escrow holds the first loss the positions *)
(* may still draw on, credited principal was paid in cash, the balances of *)
(* a claim's token are what its issuer issued, and a facility's aggregate  *)
(* is what its positions owe.  Each is a sum over the claims, and the step *)
(* of an entry point moves one term of it (SumChange, of SumLemmas).       *)
(***************************************************************************)
EXTENDS JejakProtocol_proofs, SumLemmas

(* The steps that move cash or touch a position.                           *)
Repayment(c, n, h) ==
  \E actor \in Actors : apply_repayment(actor, c, n, h)

(* Every step leaves the positions and the cash alone or is one of the six *)
(* entry points that move them.                                            *)
LEMMA MoneySteps ==
  ASSUME TypeOK, [Next]_vars
  PROVE  \/ UNCHANGED <<positions, cash>>
         \/ \E actor \in Actors, c \in Claims, n \in Principals, l \in FirstLosses :
              fund(actor, c, n, l)
         \/ \E actor \in Actors, c \in Claims : release_unused_first_loss(actor, c)
         \/ \E c \in Claims : reconcile_closed_loss(c)
         \/ /\ "repayment" \in EntryPoints
            /\ \E c \in Claims, n \in Settlements, h \in Hashes \cup {ZeroHash} : Repayment(c, n, h)
         \/ \E actor \in Actors, c \in Claims, s \in Settlements, sd, fd \in Dues, h \in Hashes,
               final \in BOOLEAN : execute(actor, c, s, sd, fd, h, final)
<1>1. CASE RegistryStep
  BY <1>1 DEF RegistryStep, BeyondRegistry, facilityVars
<1>2. CASE LifecycleStep
  BY <1>2 DEF LifecycleStep, BeyondLifecycle, facilityVars
<1>3. CASE AssetStep
  BY <1>3 DEF AssetStep, BeyondAsset, facilityVars
<1>4. CASE ResolutionStep
  BY <1>4 DEF ResolutionStep, BeyondResolution, facilityVars
<1>5. CASE FacilityStep
  <2>1. ASSUME NEW f, NEW x, NEW y, configure_facility(f, x, y) PROVE UNCHANGED <<positions, cash>>
    BY <2>1 DEF configure_facility
  <2>2. ASSUME NEW f, NEW x, pause_facility(f, x) \/ configure_servicing(f, x) \/ set_waterfall(x)
        PROVE UNCHANGED <<positions, cash>>
    BY <2>2 DEF pause_facility, configure_servicing, set_waterfall
  <2>. QED
    BY <1>5, <2>1, <2>2 DEF FacilityStep, FacilityCall, FirstConfiguration, FacilityBreaker,
       Reconfiguration, DirectRepayment, ServicingChange, record_repayment, Repayment
<1>6. CASE WaterfallStep
  <2>1. ASSUME NEW x, NEW y, authorize_servicer(x, y) \/ set_waterfall_pause(y)
        PROVE UNCHANGED <<positions, cash>>
    BY <2>1 DEF authorize_servicer, set_waterfall_pause, facilityVars
  <2>. QED
    BY <1>6, <2>1 DEF WaterfallStep, WaterfallCall, WaterfallBreaker, WaterfallServicerChange
<1>7. CASE UNCHANGED vars
  BY <1>7 DEF vars, facilityVars
<1>. QED
  BY <1>1, <1>2, <1>3, <1>4, <1>5, <1>6, <1>7 DEF Next

-----------------------------------------------------------------------------
(* What one execute call does to the position it settles.  k is the        *)
(* principal paid in cash, l the first loss consumed, income what the      *)
(* treasury receives in cash.                                              *)

Settled(c, k, l, income, final) ==
  LET p    == positions[c]
      q    == positions'[c]
      rest == p.outstanding - (k + l)
  IN
  /\ k \in Nat /\ l \in Nat /\ income \in Nat /\ rest \in Nat
  /\ l <= FirstLossAvailable(p)
  /\ rest > 0 => l = FirstLossAvailable(p)
  /\ p.exists /\ q.exists
  /\ \A d \in Claims : d # c => positions'[d] = positions[d]
  /\ q.principal = p.principal
  /\ q.first_loss_funded = p.first_loss_funded
  /\ q.first_loss_consumed = p.first_loss_consumed + l
  /\ q.repaid = p.repaid + (k + l)
  /\ q.outstanding = IF final THEN 0 ELSE rest
  /\ q.active = (p.active /\ rest # 0 /\ ~ final)
  /\ cash'["treasury"] = cash["treasury"] + income + l
  /\ cash'["facility"] = cash["facility"] - l
  /\ facilities' = Reduced(c, p.outstanding - q.outstanding)
  /\ claims[c].state \in {"Funded", "Settling"}
  /\ claims' = Moved(c, IF ~ final THEN "Settling" ELSE IF rest = 0 THEN "Repaid" ELSE "Shortfall")

(* execute settles one position: principal k and first loss l leave what   *)
(* is owed, and the cash that comes in covers at least k when the dues are *)
(* no subsidies.                                                           *)
LEMMA ExecuteSettles ==
  ASSUME TypeOK, PositionAccounting, NEW actor \in Actors, NEW c \in Claims,
         NEW s \in Settlements, NEW sd \in Dues, NEW fd \in Dues, NEW h \in Hashes,
         NEW final \in BOOLEAN, execute(actor, c, s, sd, fd, h, final)
  PROVE  \E k, l, income : /\ Settled(c, k, l, income, final)
                           /\ Dues \subseteq Nat => income >= k
<1> DEFINE p == positions[c]
           a == allocation(p, s, sd, fd)
           k == a.principal
           l == a.first_loss
           income == Paid(a.principal + a.financing_fee)
           rest == p.outstanding - (k + l)
           consumed == [p EXCEPT !.first_loss_consumed = @ + Paid(l)]
           updated == CreditedPosition(consumed, k + l)
           loss == final /\ rest > 0
           q == IF loss THEN WrittenOff(updated) ELSE updated
<1>1. /\ s \in Nat \ {0} /\ sd \in Int /\ fd \in Int /\ p \in Position /\ Accounted(p)
      /\ p.first_loss_consumed <= p.first_loss_funded
  BY AccountedPositions, FacilityAssumption, DuesAssumption
  DEF Accounted, TypeOK, FacilityTypeOK
<1>2. /\ p.outstanding \in Nat /\ p.first_loss_funded \in Nat /\ p.repaid \in Nat
      /\ p.first_loss_consumed \in Nat /\ p.active \in BOOLEAN /\ p.exists \in BOOLEAN
  BY <1>1 DEF Position
<1>3. /\ a \in [servicing_fee : Int, principal : Int, financing_fee : Int,
                first_loss : Int, senior_loss : Int, residual : Int]
      /\ k >= 0 /\ l \in 0 .. FirstLossAvailable(p) /\ a.senior_loss >= 0
      /\ k + l + a.senior_loss = p.outstanding
  BY <1>1, <1>2, AllocationType, AllocationConserves
<1>4. /\ k \in Nat /\ l \in Nat /\ rest \in Nat /\ a.senior_loss = rest
      /\ l <= FirstLossAvailable(p)
  <2>1. FirstLossAvailable(p) \in Nat
    BY <1>1, <1>2 DEF FirstLossAvailable
  <2> HIDE DEF a
  <2>. QED BY <1>2, <1>3, <2>1
<1>5. rest > 0 => l = FirstLossAvailable(p)
  <2>1. /\ l = Least(p.outstanding - k, FirstLossAvailable(p))
        /\ FirstLossAvailable(p) \in Int
    BY <1>2 DEF allocation, FirstLossAvailable
  <2> HIDE DEF a, p
  <2>. QED BY <1>2, <1>4, <2>1 DEF Least
<1>6. income \in Nat /\ (Dues \subseteq Nat => income >= k)
  <2>1. Dues \subseteq Nat => a.financing_fee >= 0
    <3> SUFFICES ASSUME Dues \subseteq Nat PROVE a.financing_fee >= 0
      OBVIOUS
    <3>1. fd \in Nat /\ sd \in Nat
      OBVIOUS
    <3>. QED BY <1>1, <1>2, <3>1 DEF allocation, Least
  <2>2. a.financing_fee \in Int
    BY <1>3
  <2> HIDE DEF a
  <2>. QED BY <1>4, <2>1, <2>2 DEF Paid
<1>7. Paid(l) = l
  BY <1>4 DEF Paid
<1>8. /\ claims[c].state \in {"Funded", "Settling"} /\ p.exists
      /\ claims' = Moved(c, IF ~ final THEN "Settling" ELSE IF rest = 0 THEN "Repaid" ELSE "Shortfall")
  BY DEF execute, TransitionAllowed
<1>9. /\ positions' = [positions EXCEPT ![c] = q]
      /\ facilities' = Reduced(c, (k + l) + (IF loss THEN rest ELSE 0))
      /\ cash'["treasury"] = cash["treasury"] + income + Paid(l)
      /\ cash'["facility"] = cash["facility"] - Paid(l)
  BY DEF execute, Accounts, TypeOK, FacilityTypeOK
<1>10. positions'[c] = q /\ \A d \in Claims : d # c => positions'[d] = positions[d]
  BY <1>9 DEF TypeOK, FacilityTypeOK
<1> HIDE DEF a, p
<1>11. /\ consumed \in Position
       /\ consumed.exists = p.exists
       /\ consumed.principal = p.principal /\ consumed.outstanding = p.outstanding
       /\ consumed.repaid = p.repaid /\ consumed.active = p.active
       /\ consumed.first_loss_funded = p.first_loss_funded
       /\ consumed.first_loss_consumed = p.first_loss_consumed + l
  BY <1>1, <1>2, <1>4, <1>7 DEF Position
<1>12. /\ updated.exists = p.exists
       /\ updated.principal = p.principal
       /\ updated.outstanding = p.outstanding - (k + l)
       /\ updated.repaid = p.repaid + (k + l)
       /\ updated.active = (p.active /\ p.outstanding # k + l)
       /\ updated.first_loss_funded = p.first_loss_funded
       /\ updated.first_loss_consumed = p.first_loss_consumed + l
       /\ updated = [updated EXCEPT !.repaid = @]
  <2> HIDE DEF consumed
  <2>. QED BY <1>11 DEF CreditedPosition, Position
<1>13. updated \in Position
  <2>1. k + l \in Nat /\ k + l <= p.outstanding
    BY <1>2, <1>4
  <2> HIDE DEF consumed
  <2>. QED BY <1>11, <2>1, CreditedType
<1>14. /\ q.exists = p.exists
       /\ q.principal = p.principal
       /\ q.outstanding = (IF final THEN 0 ELSE rest)
       /\ q.repaid = p.repaid + (k + l)
       /\ q.active = (p.active /\ rest # 0 /\ ~ final)
       /\ q.first_loss_funded = p.first_loss_funded
       /\ q.first_loss_consumed = p.first_loss_consumed + l
  <2>1. p.outstanding # k + l <=> rest # 0
    BY <1>2, <1>4
  <2>2. rest > 0 <=> rest # 0
    BY <1>4
  <2> HIDE DEF updated, rest
  <2>4. CASE loss
    <3>1. /\ q.outstanding = 0 /\ q.active = FALSE /\ q.exists = updated.exists
          /\ q.principal = updated.principal /\ q.repaid = updated.repaid
          /\ q.first_loss_funded = updated.first_loss_funded
          /\ q.first_loss_consumed = updated.first_loss_consumed
      BY <1>13, <2>4 DEF WrittenOff, Position
    <3>. QED BY <1>12, <2>4, <3>1
  <2>5. CASE ~ loss
    <3>1. q = updated
      BY <2>5
    <3>2. final => rest = 0
      BY <2>2, <2>5
    <3>3. rest = p.outstanding - (k + l)
      BY DEF rest
    <3>4. q.active = (p.active /\ rest # 0 /\ ~ final)
      BY <1>12, <2>1, <3>1, <3>2
    <3>5. q.outstanding = (IF final THEN 0 ELSE rest)
      BY <1>12, <3>1, <3>2, <3>3
    <3>. QED
      BY <1>12, <3>1, <3>4, <3>5
  <2>. QED BY <2>4, <2>5
<1>15. facilities' = Reduced(c, p.outstanding - q.outstanding)
  <2>1. (k + l) + (IF loss THEN rest ELSE 0) = p.outstanding - q.outstanding
    <3>1. loss <=> final /\ rest > 0
      OBVIOUS
    <3>2. q.outstanding = (IF final THEN 0 ELSE rest)
      BY <1>14
    <3>3. rest = p.outstanding - (k + l)
      OBVIOUS
    <3> HIDE DEF q, loss, rest
    <3>. QED BY <1>2, <1>4, <3>1, <3>2, <3>3
  <2>. QED BY <1>9, <2>1
<1>16. Settled(c, k, l, income, final)
  <2> HIDE DEF q, income
  <2>. QED BY <1>4, <1>5, <1>6, <1>7, <1>8, <1>9, <1>10, <1>14, <1>15 DEF Settled, p
<1>. QED
  BY <1>6, <1>16

-----------------------------------------------------------------------------
(* What the other steps do to the one position they touch.                 *)

OnlyPosition(c) == \A d \in Claims : d # c => positions'[d] = positions[d]

(* fund opens the claim's position and pays principal and first loss out   *)
(* of the treasury, the first loss into the facility.                      *)
LEMMA FundOpens ==
  ASSUME TypeOK, NEW actor \in Actors, NEW c \in Claims, NEW n \in Principals,
         NEW l \in FirstLosses, fund(actor, c, n, l)
  PROVE  /\ n \in Nat \ {0} /\ l \in Nat
         /\ ~ positions[c].exists /\ positions'[c] = OpenPosition(n, l) /\ OnlyPosition(c)
         /\ cash'["treasury"] = cash["treasury"] - n - l
         /\ cash'["facility"] = cash["facility"] + l
         /\ claims[c].state = "Issued" /\ claims' = Moved(c, "Funded")
         /\ claims[c].facility \in Facilities
BY PrincipalAssumption, FacilityAssumption
DEF fund, TypeOK, FacilityTypeOK, Disbursed, Accounts, OnlyPosition

(* release_unused_first_loss hands the unused first loss of one position   *)
(* back to the treasury, or changes nothing.                               *)
LEMMA ReleaseReturns ==
  ASSUME TypeOK, NEW actor \in Actors, NEW c \in Claims, release_unused_first_loss(actor, c)
  PROVE  /\ UNCHANGED <<claims, facilities>>
         /\ \/ UNCHANGED <<positions, cash>>
            \/ LET unused == FirstLossAvailable(positions[c]) IN
               /\ unused \in Nat /\ positions[c].exists /\ OnlyPosition(c)
               /\ positions'[c] = [positions[c] EXCEPT !.first_loss_funded = @ - unused]
               /\ cash'["treasury"] = cash["treasury"] + unused
               /\ cash'["facility"] = cash["facility"] - unused
<1>1. /\ positions[c] \in Position
      /\ positions[c].first_loss_funded \in Nat /\ positions[c].first_loss_consumed \in Nat
  BY DEF TypeOK, FacilityTypeOK, Position
<1>2. CASE FirstLossAvailable(positions[c]) > 0
  <2>1. FirstLossAvailable(positions[c]) \in Nat
    BY <1>1, <1>2 DEF FirstLossAvailable
  <2>2. positions[c].first_loss_funded - FirstLossAvailable(positions[c])
          = positions[c].first_loss_consumed
    BY <1>1 DEF FirstLossAvailable
  <2>. QED
    BY <1>1, <1>2, <2>1, <2>2
    DEF release_unused_first_loss, TypeOK, FacilityTypeOK, Transferred, Accounts, OnlyPosition
<1>3. CASE ~ FirstLossAvailable(positions[c]) > 0
  BY <1>3 DEF release_unused_first_loss
<1>. QED
  BY <1>2, <1>3

(* reconcile_closed_loss writes off what a claim closed with a loss still  *)
(* owes; no cash moves.                                                    *)
LEMMA ReconcileWritesOff ==
  ASSUME TypeOK, NEW c \in Claims, reconcile_closed_loss(c)
  PROVE  /\ positions[c].exists /\ positions[c].active
         /\ positions'[c] = WrittenOff(positions[c]) /\ OnlyPosition(c)
         /\ UNCHANGED <<claims, cash>>
         /\ facilities' = Reduced(c, positions[c].outstanding)
         /\ claims[c].state = "ClosedWithLoss"
BY DEF reconcile_closed_loss, WriteOffAllowed, TypeOK, FacilityTypeOK, OnlyPosition

(* apply_repayment credits a position without moving cash: the bookkeeping *)
(* entry an operator may call by hand.                                     *)
LEMMA RepaymentCredits ==
  ASSUME TypeOK, NEW c \in Claims, NEW n \in Settlements, NEW h \in Hashes \cup {ZeroHash},
         Repayment(c, n, h)
  PROVE  /\ n \in Nat /\ n <= positions[c].outstanding /\ positions[c].exists
         /\ positions'[c] = CreditedPosition(positions[c], n) /\ OnlyPosition(c)
         /\ UNCHANGED <<claims, cash>>
         /\ facilities' = Reduced(c, n)
BY FacilityAssumption
DEF Repayment, apply_repayment, RepaymentAllowed, TypeOK, FacilityTypeOK, OnlyPosition

-----------------------------------------------------------------------------
(* A claim that was never funded has an empty position.                    *)

Unopened == \A c \in Claims : ~ positions[c].exists => positions[c] = NoPosition

(* A position that does not exist holds zeros, before a step and after it. *)
LEMMA UnopenedStep == TypeOK /\ PositionAccounting /\ Unopened /\ [Next]_vars => Unopened'
<1> SUFFICES ASSUME TypeOK, PositionAccounting, Unopened, [Next]_vars, NEW d \in Claims,
                    ~ positions'[d].exists
             PROVE  positions'[d] = NoPosition
  BY DEF Unopened
<1>1. positions \in [Claims -> Position] /\ (~ positions[d].exists => positions[d] = NoPosition)
  BY DEF TypeOK, FacilityTypeOK, Unopened
<1>2. CASE UNCHANGED <<positions, cash>>
  BY <1>1, <1>2
<1>3. ASSUME NEW actor \in Actors, NEW c \in Claims, NEW n \in Principals, NEW l \in FirstLosses,
             fund(actor, c, n, l)
      PROVE  positions'[d] = NoPosition
  <2>1. positions'[c] = OpenPosition(n, l) /\ OnlyPosition(c)
    BY <1>3, FundOpens
  <2>2. OpenPosition(n, l).exists
    BY DEF OpenPosition
  <2>. QED
    BY <1>1, <2>1, <2>2 DEF OnlyPosition
<1>4. ASSUME NEW actor \in Actors, NEW c \in Claims, release_unused_first_loss(actor, c)
      PROVE  positions'[d] = NoPosition
  <2>1. [positions[c] EXCEPT !.first_loss_funded = @ - FirstLossAvailable(positions[c])].exists
          = positions[c].exists
    BY <1>1 DEF Position
  <2>. QED
    BY <1>1, <1>4, <2>1, ReleaseReturns DEF OnlyPosition
<1>5. ASSUME NEW c \in Claims, reconcile_closed_loss(c)
      PROVE  positions'[d] = NoPosition
  <2>1. WrittenOff(positions[c]).exists = positions[c].exists
    BY <1>1 DEF WrittenOff, Position
  <2>. QED
    BY <1>1, <1>5, <2>1, ReconcileWritesOff DEF OnlyPosition
<1>6. ASSUME NEW c \in Claims, NEW n \in Settlements, NEW h \in Hashes \cup {ZeroHash},
             Repayment(c, n, h)
      PROVE  positions'[d] = NoPosition
  <2>1. CreditedPosition(positions[c], n).exists = positions[c].exists
    BY <1>1 DEF CreditedPosition, Position
  <2>. QED
    BY <1>1, <1>6, <2>1, RepaymentCredits DEF OnlyPosition
<1>7. ASSUME NEW actor \in Actors, NEW c \in Claims, NEW s \in Settlements, NEW sd \in Dues,
             NEW fd \in Dues, NEW h \in Hashes, NEW final \in BOOLEAN,
             execute(actor, c, s, sd, fd, h, final)
      PROVE  positions'[d] = NoPosition
  <2>1. PICK k, l, income : Settled(c, k, l, income, final)
    BY <1>7, ExecuteSettles
  <2>. QED
    BY <1>1, <2>1 DEF Settled
<1>. QED
  BY <1>2, <1>3, <1>4, <1>5, <1>6, <1>7, MoneySteps

(* Fields of a position nobody has opened stay zero: no entry point writes *)
(* to a claim it has not funded (facility/src/lib.rs).                     *)
THEOREM UnopenedStay == Spec => []Unopened
<1>1. Init => Unopened
  BY DEF Init, FacilityInit, Unopened
<1>. QED
  BY <1>1, UnopenedStep, TypeCorrect, PositionsAccounted, PTL DEF Spec

-----------------------------------------------------------------------------
(* The escrow of the facility contract is what its positions can draw.     *)

Available == [c \in Claims |-> FirstLossAvailable(positions[c])]

(* A function on the claims changes at one claim.                          *)
LEMMA ClaimSumMoves ==
  ASSUME NEW before, NEW after, NEW c \in Claims,
         \A d \in Claims : before[d] \in Int /\ after[d] \in Int,
         \A d \in Claims : d # c => after[d] = before[d]
  PROVE  /\ SumFunctionOnSet(after, Claims)
              = SumFunctionOnSet(before, Claims) - before[c] + after[c]
         /\ SumFunctionOnSet(before, Claims) \in Int
<1>1. SumFunctionOnSet(after, Claims) = SumFunctionOnSet(before, Claims) - before[c] + after[c]
  <2>1. \A f, g : /\ \A d \in Claims : f[d] \in Int /\ g[d] \in Int
                  /\ \A d \in Claims : d # c => g[d] = f[d]
                  => SumFunctionOnSet(g, Claims) = SumFunctionOnSet(f, Claims) - f[c] + g[c]
    BY ONLY SumChange, ClaimsAssumption, c \in Claims
  <2>. QED
    BY <2>1, Zenon
<1>2. SumFunctionOnSet(before, Claims) \in Int
  BY ClaimsAssumption, SumInt
<1>. QED BY <1>1, <1>2

(* The escrow invariant, as a sum the lemmas of SumLemmas speak of.        *)
LEMMA EscrowIsSum == EscrowBacksFirstLoss <=> cash["facility"] = SumFunctionOnSet(Available, Claims)
BY DEF EscrowBacksFirstLoss, SumFunction, Available

(* One position and the escrow move by the same amount.                    *)
LEMMA EscrowMoves ==
  ASSUME TypeOK, TypeOK', EscrowBacksFirstLoss, NEW c \in Claims, OnlyPosition(c),
         cash'["facility"] = cash["facility"] + FirstLossAvailable(positions'[c])
                                              - FirstLossAvailable(positions[c])
  PROVE  EscrowBacksFirstLoss'
<1>1. /\ \A d \in Claims : Available[d] \in Int /\ Available'[d] \in Int
      /\ \A d \in Claims : d # c => Available'[d] = Available[d]
      /\ Available[c] = FirstLossAvailable(positions[c])
      /\ Available'[c] = FirstLossAvailable(positions'[c])
  BY DEF TypeOK, FacilityTypeOK, OnlyPosition, Available, FirstLossAvailable, Position
<1>2. SumFunctionOnSet(Available', Claims)
        = SumFunctionOnSet(Available, Claims) - Available[c] + Available'[c]
  <2> HIDE DEF Available
  <2>. QED BY <1>1, SumChange, ClaimsAssumption
<1>3. SumFunctionOnSet(Available, Claims) \in Int
  BY <1>1, SumInt, ClaimsAssumption
<1>4. cash'["facility"] = SumFunctionOnSet(Available', Claims)
  <2>1. cash["facility"] = SumFunctionOnSet(Available, Claims)
    BY EscrowIsSum
  <2>. QED
    BY <1>1, <1>2, <1>3, <2>1
<1>. QED
  BY <1>4 DEF EscrowBacksFirstLoss, SumFunction, Available

(* Every step keeps the facility's cash equal to the first loss still      *)
(* available.                                                              *)
LEMMA EscrowStep ==
  ASSUME TypeOK, TypeOK', PositionAccounting, Unopened, EscrowBacksFirstLoss, [Next]_vars
  PROVE  EscrowBacksFirstLoss'
<1>1. positions \in [Claims -> Position] /\ positions' \in [Claims -> Position]
      /\ cash["facility"] \in Int
  BY DEF TypeOK, FacilityTypeOK, Accounts
<1>2. CASE UNCHANGED <<positions, cash>>
  BY <1>2 DEF EscrowBacksFirstLoss
<1>3. ASSUME NEW actor \in Actors, NEW c \in Claims, NEW n \in Principals, NEW l \in FirstLosses,
             fund(actor, c, n, l)
      PROVE  EscrowBacksFirstLoss'
  <2>1. /\ l \in Int /\ OnlyPosition(c) /\ positions'[c] = OpenPosition(n, l)
        /\ positions[c] = NoPosition /\ cash'["facility"] = cash["facility"] + l
    BY <1>3, FundOpens DEF Unopened
  <2>2. FirstLossAvailable(positions'[c]) = l /\ FirstLossAvailable(positions[c]) = 0
    BY <2>1 DEF FirstLossAvailable, OpenPosition, NoPosition
  <2>. QED
    BY <1>1, <2>1, <2>2, EscrowMoves
<1>4. ASSUME NEW actor \in Actors, NEW c \in Claims, release_unused_first_loss(actor, c)
      PROVE  EscrowBacksFirstLoss'
  <2>1. CASE UNCHANGED <<positions, cash>>
    BY <1>2, <2>1
  <2> DEFINE unused == FirstLossAvailable(positions[c])
  <2>2. CASE /\ unused \in Nat /\ OnlyPosition(c)
             /\ positions'[c] = [positions[c] EXCEPT !.first_loss_funded = @ - unused]
             /\ cash'["facility"] = cash["facility"] - unused
    <3>1. FirstLossAvailable(positions'[c]) = 0
      BY <1>1, <2>2 DEF FirstLossAvailable, Position
    <3>2. cash'["facility"] = cash["facility"] + 0 - unused
      BY <1>1, <2>2
    <3>. QED
      BY <2>2, <3>1, <3>2, EscrowMoves
  <2>. QED
    BY <1>4, <2>1, <2>2, ReleaseReturns
<1>5. ASSUME NEW c \in Claims, reconcile_closed_loss(c)
      PROVE  EscrowBacksFirstLoss'
  <2>1. OnlyPosition(c) /\ positions'[c] = WrittenOff(positions[c]) /\ UNCHANGED cash
    BY <1>5, ReconcileWritesOff
  <2>2. /\ FirstLossAvailable(positions'[c]) = FirstLossAvailable(positions[c])
        /\ FirstLossAvailable(positions[c]) \in Int
    BY <1>1, <2>1 DEF FirstLossAvailable, WrittenOff, Position
  <2>. QED
    BY <1>1, <2>1, <2>2, EscrowMoves
<1>6. ASSUME NEW c \in Claims, NEW n \in Settlements, NEW h \in Hashes \cup {ZeroHash},
             Repayment(c, n, h)
      PROVE  EscrowBacksFirstLoss'
  <2>1. OnlyPosition(c) /\ positions'[c] = CreditedPosition(positions[c], n) /\ UNCHANGED cash
    BY <1>6, RepaymentCredits
  <2>2. /\ FirstLossAvailable(positions'[c]) = FirstLossAvailable(positions[c])
        /\ FirstLossAvailable(positions[c]) \in Int
    BY <1>1, <2>1 DEF FirstLossAvailable, CreditedPosition, Position
  <2>. QED
    BY <1>1, <2>1, <2>2, EscrowMoves
<1>7. ASSUME NEW actor \in Actors, NEW c \in Claims, NEW s \in Settlements, NEW sd \in Dues,
             NEW fd \in Dues, NEW h \in Hashes, NEW final \in BOOLEAN,
             execute(actor, c, s, sd, fd, h, final)
      PROVE  EscrowBacksFirstLoss'
  <2>1. PICK k, l, income : Settled(c, k, l, income, final)
    BY <1>7, ExecuteSettles
  <2>2. OnlyPosition(c) /\ l \in Nat
    BY <2>1 DEF Settled, OnlyPosition
  <2>3. /\ positions'[c].first_loss_funded = positions[c].first_loss_funded
        /\ positions'[c].first_loss_consumed = positions[c].first_loss_consumed + l
        /\ cash'["facility"] = cash["facility"] - l
    BY <2>1 DEF Settled
  <2>4. positions[c].first_loss_funded \in Int /\ positions[c].first_loss_consumed \in Int
    BY <1>1 DEF Position
  <2>5. cash'["facility"] = cash["facility"] + FirstLossAvailable(positions'[c])
                                             - FirstLossAvailable(positions[c])
    BY <1>1, <2>2, <2>3, <2>4 DEF FirstLossAvailable
  <2>. QED
    BY <2>2, <2>5, EscrowMoves
<1>. QED
  BY <1>2, <1>3, <1>4, <1>5, <1>6, <1>7, MoneySteps

(* Whatever is called, the facility contract holds exactly the first loss  *)
(* its positions can still draw or get back.                               *)
THEOREM EscrowIsBacked == Spec => []EscrowBacksFirstLoss
<1>1. Init => EscrowBacksFirstLoss
  <2> SUFFICES ASSUME Init PROVE EscrowBacksFirstLoss
    OBVIOUS
  <2>1. \A c \in Claims : Available[c] = 0
    <3>1. FirstLossAvailable(NoPosition) = 0
      BY DEF FirstLossAvailable, NoPosition
    <3>. QED
      BY <3>1 DEF Init, FacilityInit, Available
  <2>2. SumFunctionOnSet(Available, Claims) = 0
    BY <2>1, SumZero, ClaimsAssumption
  <2>3. cash["facility"] = 0
    BY DEF Init, FacilityInit, Accounts
  <2>. QED
    BY <2>2, <2>3, EscrowIsSum
<1>2. TypeOK /\ TypeOK' /\ PositionAccounting /\ Unopened /\ EscrowBacksFirstLoss /\ [Next]_vars
        => EscrowBacksFirstLoss'
  BY EscrowStep
<1>. QED
  BY <1>1, <1>2, TypeCorrect, PositionsAccounted, UnopenedStay, PTL DEF Spec

-----------------------------------------------------------------------------
(* Every unit of principal credited reached the treasury in cash.          *)

Principal == [c \in Claims |-> positions[c].principal]
InCash    == [c \in Claims |-> positions[c].repaid - positions[c].first_loss_consumed]

(* The credit invariant, as sums the lemmas of SumLemmas speak of.         *)
LEMMA CreditIsSum ==
  CreditIsCash <=>
    cash["treasury"] + cash["facility"] + SumFunctionOnSet(Principal, Claims)
      >= TreasuryCash + SumFunctionOnSet(InCash, Claims)
BY DEF CreditIsCash, SumFunction, Principal, InCash

(* What leaves the treasury and the escrow is principal lent, and what is  *)
(* credited in cash comes in.                                              *)
LEMMA CreditMoves ==
  ASSUME TypeOK, TypeOK', CreditIsCash, NEW c \in Claims, OnlyPosition(c),
         NEW income \in Int,
         cash'["treasury"] + cash'["facility"] = cash["treasury"] + cash["facility"] + income,
         income + Principal'[c] - Principal[c] >= InCash'[c] - InCash[c]
  PROVE  CreditIsCash'
<1>1. /\ \A d \in Claims : /\ Principal[d] \in Int /\ Principal'[d] \in Int
                           /\ InCash[d] \in Int /\ InCash'[d] \in Int
      /\ \A d \in Claims : d # c => Principal'[d] = Principal[d] /\ InCash'[d] = InCash[d]
  BY DEF TypeOK, FacilityTypeOK, OnlyPosition, Principal, InCash, Position
<1> DEFINE P == SumFunctionOnSet(Principal, Claims)
           C == SumFunctionOnSet(InCash, Claims)
<1>2. /\ SumFunctionOnSet(Principal', Claims) = P - Principal[c] + Principal'[c]
      /\ SumFunctionOnSet(InCash', Claims) = C - InCash[c] + InCash'[c]
      /\ P \in Int /\ C \in Int
  <2> HIDE DEF Principal, InCash
  <2>1. SumFunctionOnSet(Principal', Claims) = P - Principal[c] + Principal'[c]
    BY <1>1, SumChange, ClaimsAssumption
  <2>2. SumFunctionOnSet(InCash', Claims) = C - InCash[c] + InCash'[c]
    BY <1>1, SumChange, ClaimsAssumption
  <2>3. P \in Int /\ C \in Int
    BY <1>1, SumInt, ClaimsAssumption
  <2>. QED BY <2>1, <2>2, <2>3
<1>3. /\ cash["treasury"] \in Int /\ cash["facility"] \in Int
      /\ cash'["treasury"] \in Int /\ cash'["facility"] \in Int /\ TreasuryCash \in Int
  BY FacilityAssumption DEF TypeOK, FacilityTypeOK, Accounts
<1>4. cash["treasury"] + cash["facility"] + P >= TreasuryCash + C
  BY CreditIsSum
<1>5. cash'["treasury"] + cash'["facility"] + SumFunctionOnSet(Principal', Claims)
        >= TreasuryCash + SumFunctionOnSet(InCash', Claims)
  <2>1. /\ Principal[c] \in Int /\ Principal'[c] \in Int
        /\ InCash[c] \in Int /\ InCash'[c] \in Int
    BY <1>1
  <2> HIDE DEF P, C, Principal, InCash
  <2>. QED BY <1>2, <1>3, <1>4, <2>1
<1>. QED
  BY <1>5 DEF CreditIsCash, SumFunction, Principal, InCash

(* Every step that credits principal brings in at least that cash, when no *)
(* repayment is entered by hand and no due is negative.                    *)
LEMMA CreditStep ==
  ASSUME "repayment" \notin EntryPoints, Dues \subseteq Nat,
         TypeOK, TypeOK', PositionAccounting, Unopened, CreditIsCash, [Next]_vars
  PROVE  CreditIsCash'
<1>1. /\ positions \in [Claims -> Position] /\ positions' \in [Claims -> Position]
      /\ cash["facility"] \in Int /\ cash["treasury"] \in Int
      /\ \A c \in Claims : /\ positions[c].repaid \in Int
                           /\ positions[c].first_loss_consumed \in Int
  BY DEF TypeOK, FacilityTypeOK, Accounts, Position
<1>2. CASE UNCHANGED <<positions, cash>>
  BY <1>2 DEF CreditIsCash
<1>3. ASSUME NEW actor \in Actors, NEW c \in Claims, NEW n \in Principals, NEW l \in FirstLosses,
             fund(actor, c, n, l)
      PROVE  CreditIsCash'
  <2>1. /\ n \in Int /\ l \in Int /\ OnlyPosition(c) /\ positions'[c] = OpenPosition(n, l)
        /\ positions[c] = NoPosition
        /\ cash'["treasury"] = cash["treasury"] - n - l
        /\ cash'["facility"] = cash["facility"] + l
    BY <1>3, FundOpens DEF Unopened
  <2>2. Principal'[c] = n /\ Principal[c] = 0 /\ InCash'[c] = 0 /\ InCash[c] = 0
    BY <2>1 DEF Principal, InCash, OpenPosition, NoPosition
  <2>3. cash'["treasury"] + cash'["facility"] = cash["treasury"] + cash["facility"] + (0 - n)
    BY <1>1, <2>1
  <2>. QED
    BY <2>1, <2>2, <2>3, CreditMoves
<1>4. ASSUME NEW actor \in Actors, NEW c \in Claims, release_unused_first_loss(actor, c)
      PROVE  CreditIsCash'
  <2>1. CASE UNCHANGED <<positions, cash>>
    BY <1>2, <2>1
  <2> DEFINE unused == FirstLossAvailable(positions[c])
  <2>2. CASE /\ unused \in Nat /\ OnlyPosition(c)
             /\ positions'[c] = [positions[c] EXCEPT !.first_loss_funded = @ - unused]
             /\ cash'["treasury"] = cash["treasury"] + unused
             /\ cash'["facility"] = cash["facility"] - unused
    <3>1. Principal'[c] = Principal[c] /\ InCash'[c] = InCash[c]
      BY <1>1, <2>2 DEF Principal, InCash, Position
    <3>2. Principal[c] \in Int /\ InCash[c] \in Int
      BY <1>1 DEF Principal, InCash, Position
    <3>3. cash'["treasury"] + cash'["facility"] = cash["treasury"] + cash["facility"] + 0
      BY <1>1, <2>2
    <3>. QED
      BY <2>2, <3>1, <3>2, <3>3, CreditMoves
  <2>. QED
    BY <1>4, <2>1, <2>2, ReleaseReturns
<1>5. ASSUME NEW c \in Claims, reconcile_closed_loss(c)
      PROVE  CreditIsCash'
  <2>1. OnlyPosition(c) /\ positions'[c] = WrittenOff(positions[c]) /\ UNCHANGED cash
    BY <1>5, ReconcileWritesOff
  <2>2. /\ Principal'[c] = Principal[c] /\ InCash'[c] = InCash[c]
        /\ Principal[c] \in Int /\ InCash[c] \in Int
    <3>1. /\ positions'[c].principal = positions[c].principal
          /\ positions'[c].repaid = positions[c].repaid
          /\ positions'[c].first_loss_consumed = positions[c].first_loss_consumed
          /\ positions[c].principal \in Int
      BY <1>1, <2>1 DEF WrittenOff, Position
    <3>. QED
      BY <1>1, <3>1 DEF Principal, InCash
  <2>. QED
    BY <1>1, <2>1, <2>2, CreditMoves
<1>6. ASSUME NEW actor \in Actors, NEW c \in Claims, NEW s \in Settlements, NEW sd \in Dues,
             NEW fd \in Dues, NEW h \in Hashes, NEW final \in BOOLEAN,
             execute(actor, c, s, sd, fd, h, final)
      PROVE  CreditIsCash'
  <2>1. PICK k, l, income : Settled(c, k, l, income, final) /\ income >= k
    BY <1>6, ExecuteSettles
  <2>2. OnlyPosition(c) /\ k \in Nat /\ l \in Nat /\ income \in Nat
    BY <2>1 DEF Settled, OnlyPosition
  <2>3. cash'["treasury"] + cash'["facility"] = cash["treasury"] + cash["facility"] + income
    BY <1>1, <2>1, <2>2 DEF Settled
  <2>4. Principal'[c] = Principal[c] /\ Principal[c] \in Int
    BY <1>1, <2>1 DEF Settled, Principal, Position
  <2>5. InCash'[c] = InCash[c] + k /\ InCash[c] \in Int
    <3>1. /\ positions'[c].repaid = positions[c].repaid + (k + l)
          /\ positions'[c].first_loss_consumed = positions[c].first_loss_consumed + l
      BY <2>1 DEF Settled
    <3>. QED
      BY <1>1, <2>2, <3>1 DEF InCash
  <2>6. income + Principal'[c] - Principal[c] >= InCash'[c] - InCash[c]
    BY <2>1, <2>2, <2>4, <2>5
  <2>. QED
    BY <2>2, <2>3, <2>6, CreditMoves
<1>. QED
  BY <1>2, <1>3, <1>4, <1>5, <1>6, MoneySteps

(* Without direct repayments and with dues that are not negative, no       *)
(* principal is credited that the treasury did not receive.                *)
THEOREM NoCreditWithoutCash ==
  ASSUME "repayment" \notin EntryPoints, Dues \subseteq Nat
  PROVE  Spec => []CreditIsCash
<1>1. Init => CreditIsCash
  <2> SUFFICES ASSUME Init PROVE CreditIsCash
    OBVIOUS
  <2>1. \A c \in Claims : Principal[c] = 0 /\ InCash[c] = 0
    <3>1. NoPosition.principal = 0 /\ NoPosition.repaid - NoPosition.first_loss_consumed = 0
      BY DEF NoPosition
    <3>. QED
      BY <3>1 DEF Init, FacilityInit, Principal, InCash
  <2>2. SumFunctionOnSet(Principal, Claims) = 0 /\ SumFunctionOnSet(InCash, Claims) = 0
    BY <2>1, SumZero, ClaimsAssumption
  <2>3. cash["facility"] = 0 /\ cash["treasury"] = TreasuryCash /\ TreasuryCash \in Int
    BY FacilityAssumption DEF Init, FacilityInit, Accounts
  <2>. QED
    BY <2>2, <2>3, CreditIsSum
<1>2. TypeOK /\ TypeOK' /\ PositionAccounting /\ Unopened /\ CreditIsCash /\ [Next]_vars
        => CreditIsCash'
  BY CreditStep
<1>. QED
  BY <1>1, <1>2, TypeCorrect, PositionsAccounted, UnopenedStay, PTL DEF Spec

-----------------------------------------------------------------------------
(* The token supply: who can change what a claim has issued, and what a    *)
(* claim was approved for.                                                 *)

LEMMA TokenSteps ==
  ASSUME TypeOK, [Next]_vars
  PROVE  \/ UNCHANGED <<issued, holder, jclaim>>
         \/ \E c \in Claims, h \in Holders, n \in Amounts :
              \/ issue(IssuerOperator, c, h, n)
              \/ redeem(IssuerOperator, c, h, n)
              \/ clawback_claim(IssuerOperator, c, h, n)
         \/ "clawback" \in EntryPoints
<1>1. CASE RegistryStep \/ LifecycleStep \/ FacilityStep \/ WaterfallStep \/ ResolutionStep
  BY <1>1 DEF RegistryStep, BeyondRegistry, LifecycleStep, BeyondLifecycle, FacilityStep,
     BeyondFacility, WaterfallStep, BeyondWaterfall, ResolutionStep, BeyondResolution, assetVars
<1>2. CASE AssetStep
  <2>1. ASSUME NEW x, NEW y, \/ set_pauser(x, y)
                             \/ set_global_pause(x, y)
                             \/ freeze(x, y)
                             \/ close_claim(x, y)
        PROVE  UNCHANGED <<issued, holder, jclaim>>
    BY <2>1 DEF set_pauser, set_global_pause, freeze, close_claim, assetVars
  <2>2. ASSUME NEW x, NEW y, NEW z, authorize_holder(x, y, z)
        PROVE  UNCHANGED <<issued, holder, jclaim>>
    BY <2>2 DEF authorize_holder
  <2>. QED
    BY <1>2, <2>1, <2>2
    DEF AssetStep, AssetCall, HolderIncident, AssetBreaker, GenericClawback, AssetPauserChange
<1>3. CASE UNCHANGED vars
  BY <1>3 DEF vars, assetVars
<1>. QED
  BY <1>1, <1>2, <1>3 DEF Next

(* The steps that change a claim.                                          *)
LEMMA ClaimSteps ==
  ASSUME TypeOK, [Next]_vars
  PROVE  \/ UNCHANGED claims
         \/ \E actor \in Actors, c \in Claims, f \in Facilities, n \in Principals, a \in Attestations :
              create_claim(actor, c, f, n, a) /\ UNCHANGED BeyondLifecycle
         \/ \E actor \in Actors, c \in Claims, t \in Times :
              confirm_control(actor, c, t) /\ UNCHANGED BeyondLifecycle
         \/ \E actor \in Actors, c \in Claims : pause(actor, c) /\ UNCHANGED BeyondLifecycle
         \/ \E c \in Claims, target \in ClaimStates : resume(c, target) /\ UNCHANGED BeyondLifecycle
         \/ \E c \in Claims, next \in ClaimStates : claims' = Moved(c, next)
<1>1. CASE RegistryStep
  BY <1>1 DEF RegistryStep, BeyondRegistry, lifecycleVars
<1>2. CASE LifecycleStep
  <2>1. ASSUME NEW r, NEW a, NEW e, set_role(r, a, e) PROVE UNCHANGED claims
    BY <2>1 DEF set_role
  <2>2. ASSUME NEW actor \in Actors, NEW c \in Claims, NEW next \in ClaimStates,
               transition(actor, c, claims[c].state, next)
        PROVE  claims' = Moved(c, next)
    BY <2>2 DEF transition
  <2>. QED
    BY <1>2, <2>1, <2>2
    DEF LifecycleStep, LifecycleCall, PauseResume, DirectTransition, RoleChange
<1>3. CASE AssetStep
  <2>1. ASSUME NEW c \in Claims, NEW h, NEW n, \/ issue(IssuerOperator, c, h, n)
                                               \/ redeem(IssuerOperator, c, h, n)
        PROVE  UNCHANGED claims \/ \E d \in Claims, next \in ClaimStates : claims' = Moved(d, next)
    BY <2>1 DEF issue, redeem, ClaimStates
  <2>2. ASSUME NEW c \in Claims, close_claim(IssuerOperator, c)
        PROVE  \E d \in Claims, next \in ClaimStates : claims' = Moved(d, next)
    BY <2>2 DEF close_claim, ClaimStates, TerminalStates
  <2>3. ASSUME NEW x, NEW y, NEW z, NEW w, \/ clawback_claim(x, y, z, w)
                                           \/ clawback(x, y, z)
                                           \/ authorize_holder(x, y, z)
                                           \/ freeze(x, y)
                                           \/ set_global_pause(x, y)
                                           \/ set_pauser(x, y)
        PROVE  UNCHANGED claims
    BY <2>3 DEF clawback_claim, clawback, authorize_holder, freeze, set_global_pause, set_pauser
  <2>. QED
    BY <1>3, <2>1, <2>2, <2>3
    DEF AssetStep, AssetCall, HolderIncident, AssetBreaker, GenericClawback, AssetPauserChange
<1>4. CASE FacilityStep
  <2>1. ASSUME NEW x, NEW c \in Claims, NEW n, NEW l, fund(x, c, n, l)
        PROVE  \E d \in Claims, next \in ClaimStates : claims' = Moved(d, next)
    BY <2>1 DEF fund, ClaimStates
  <2>2. ASSUME NEW x, NEW y, NEW z, NEW w, \/ release_unused_first_loss(x, y)
                                           \/ reconcile_closed_loss(x)
                                           \/ configure_facility(x, y, z)
                                           \/ pause_facility(x, y)
                                           \/ apply_repayment(x, y, z, w)
                                           \/ configure_servicing(x, y)
                                           \/ set_waterfall(x)
        PROVE  UNCHANGED claims
    BY <2>2 DEF release_unused_first_loss, reconcile_closed_loss, configure_facility,
       pause_facility, apply_repayment, configure_servicing, set_waterfall
  <2>. QED
    BY <1>4, <2>1, <2>2 DEF FacilityStep, FacilityCall, FirstConfiguration, FacilityBreaker,
       Reconfiguration, DirectRepayment, ServicingChange, record_repayment
<1>5. CASE WaterfallStep
  <2>1. ASSUME NEW x, NEW c \in Claims, NEW s, NEW sd, NEW fd, NEW h, NEW final \in BOOLEAN,
               execute(x, c, s, sd, fd, h, final)
        PROVE  \E d \in Claims, next \in ClaimStates : claims' = Moved(d, next)
    BY <2>1 DEF execute, ClaimStates
  <2>2. ASSUME NEW x, NEW y, authorize_servicer(x, y) \/ set_waterfall_pause(y)
        PROVE  UNCHANGED claims
    BY <2>2 DEF authorize_servicer, set_waterfall_pause
  <2>. QED
    BY <1>5, <2>1, <2>2 DEF WaterfallStep, WaterfallCall, WaterfallBreaker, WaterfallServicerChange
<1>6. CASE ResolutionStep
  <2>1. ASSUME NEW x, NEW c \in Claims, NEW n, NEW l, NEW e, open(x, c, e) \/ close(x, c, n, l, e)
        PROVE  \E d \in Claims, next \in ClaimStates : claims' = Moved(d, next)
    BY <2>1 DEF open, close, ClaimStates, TerminalStates
  <2>2. ASSUME NEW x, NEW y, NEW z, NEW w, \/ record_recovery(x, y, z, w)
                                           \/ authorize_resolver(x, y)
        PROVE  UNCHANGED claims
    BY <2>2 DEF record_recovery, authorize_resolver
  <2>. QED
    BY <1>6, <2>1, <2>2 DEF ResolutionStep, ResolutionCall, ResolverChange
<1>7. CASE UNCHANGED vars
  BY <1>7 DEF vars, lifecycleVars
<1>. QED
  BY <1>1, <1>2, <1>3, <1>4, <1>5, <1>6, <1>7 DEF Next

(* What a claim was created with does not change.                          *)
LEMMA TermsStay ==
  ASSUME TypeOK, [Next]_vars, NEW c \in Claims
  PROVE  \/ /\ claims'[c].facility = claims[c].facility
            /\ claims'[c].approved = claims[c].approved
            /\ claims[c].state # "Absent" => claims'[c].state # "Absent"
         \/ /\ claims[c].state = "Absent" /\ claims'[c].state = "Eligible"
            /\ claims'[c].facility \in Facilities
            /\ claims'[c].approved \in Nat
            /\ UNCHANGED <<positions, issued, facilities>>
<1>1. claims \in [Claims -> OnchainClaim]
  BY DEF TypeOK, LifecycleTypeOK
<1> DEFINE Same == /\ claims'[c].facility = claims[c].facility
                   /\ claims'[c].approved = claims[c].approved
                   /\ claims[c].state # "Absent" => claims'[c].state # "Absent"
<1>2. CASE UNCHANGED claims
  BY <1>2
<1>3. ASSUME NEW actor \in Actors, NEW d \in Claims, NEW f \in Facilities, NEW n \in Principals,
             NEW a \in Attestations, create_claim(actor, d, f, n, a), UNCHANGED BeyondLifecycle
      PROVE  \/ Same
             \/ /\ claims[c].state = "Absent" /\ claims'[c].state = "Eligible"
                /\ claims'[c].facility \in Facilities
                /\ claims'[c].approved \in Nat
                /\ UNCHANGED <<positions, issued, facilities>>
  <2>1. d # c => Same
    BY <1>1, <1>3 DEF create_claim
  <2>2. d = c => /\ claims[c].state = "Absent" /\ claims'[c].state = "Eligible"
                 /\ claims'[c].facility = f /\ claims'[c].approved = n
    BY <1>1, <1>3 DEF create_claim, Exists, AbsentClaim
  <2>. QED
    BY <1>3, <2>1, <2>2, PrincipalAssumption DEF BeyondLifecycle, assetVars, facilityVars
<1>4. ASSUME NEW actor \in Actors, NEW d \in Claims, NEW t \in Times, confirm_control(actor, d, t)
      PROVE  Same
  BY <1>1, <1>4 DEF confirm_control, OnchainClaim
<1>5. ASSUME NEW actor \in Actors, NEW d \in Claims, pause(actor, d)
      PROVE  Same
  BY <1>1, <1>5 DEF pause, OnchainClaim
<1>6. ASSUME NEW d \in Claims, NEW target \in ClaimStates, resume(d, target)
      PROVE  Same
  BY <1>1, <1>6 DEF resume, OnchainClaim, ClaimStates, TerminalStates
<1>7. ASSUME NEW d \in Claims, NEW next \in ClaimStates, claims' = Moved(d, next)
      PROVE  Same
  BY <1>1, <1>7 DEF Moved, OnchainClaim, ClaimStates, TerminalStates
<1>. QED
  BY <1>2, <1>3, <1>4, <1>5, <1>6, <1>7, ClaimSteps

Uncreated == \A c \in Claims : claims[c].state = "Absent" => claims[c].approved = 0

(* A claim that was never created has issued nothing and funded nothing,   *)
(* before a step and after it.                                             *)
LEMMA UncreatedStep == TypeOK /\ Uncreated /\ [Next]_vars => Uncreated'
<1> SUFFICES ASSUME TypeOK, Uncreated, [Next]_vars, NEW c \in Claims, claims'[c].state = "Absent"
             PROVE  claims'[c].approved = 0
  BY DEF Uncreated
<1>. QED
  BY TermsStay DEF Uncreated

(* A claim that was never created has issued nothing and funded nothing.   *)
LEMMA UncreatedStay == Spec => []Uncreated
<1>1. Init => Uncreated
  <2>1. AbsentClaim.approved = 0
    BY DEF AbsentClaim
  <2>. QED
    BY <2>1 DEF Init, LifecycleInit, Uncreated
<1>. QED
  BY <1>1, UncreatedStep, TypeCorrect, PTL DEF Spec

Held(h) == [c \in Claims |-> IF holder[c] = h THEN issued[c] ELSE 0]

SupplyOf(h) == jclaim[h] = SumFunctionOnSet(Held(h), Claims)

(* The supply invariant, as a sum per holder.                              *)
LEMMA SupplyIsSum ==
  SupplyMatchesIssuance <=> /\ \A c \in Claims : issued[c] <= claims[c].approved
                            /\ \A h \in Holders : SupplyOf(h)
BY DEF SupplyMatchesIssuance, SumFunction, Held, SupplyOf

(* The issue of one claim changes, and the balance of its holder with it.  *)
LEMMA SupplyMoves ==
  ASSUME TypeOK, TypeOK', NEW c \in Claims, NEW h \in Holders, NEW n \in Int,
         \A d \in Claims : d # c => issued'[d] = issued[d] /\ holder'[d] = holder[d],
         issued'[c] = issued[c] + n, holder'[c] = h,
         holder[c] = h \/ issued[c] = 0,
         jclaim' = [jclaim EXCEPT ![h] = @ + n],
         NEW g \in Holders, SupplyOf(g)
  PROVE  SupplyOf(g)'
<1>1. /\ \A d \in Claims : Held(g)[d] \in Int /\ Held(g)'[d] \in Int
      /\ \A d \in Claims : d # c => Held(g)'[d] = Held(g)[d]
  BY DEF TypeOK, AssetTypeOK, Held
<1>2. /\ SumFunctionOnSet(Held(g)', Claims)
           = SumFunctionOnSet(Held(g), Claims) - Held(g)[c] + Held(g)'[c]
      /\ SumFunctionOnSet(Held(g), Claims) \in Int
  BY <1>1, ClaimSumMoves
<1>3. issued[c] \in Int /\ jclaim \in [Holders -> Int]
  BY DEF TypeOK, AssetTypeOK
<1>4. Held(g)'[c] = Held(g)[c] + (IF g = h THEN n ELSE 0)
  BY <1>3 DEF Held
<1>5. jclaim'[g] = jclaim[g] + (IF g = h THEN n ELSE 0)
  BY <1>3
<1>6. jclaim'[g] = SumFunctionOnSet(Held(g)', Claims)
  <2>1. Held(g)[c] \in Int
    BY <1>1
  <2> HIDE DEF Held
  <2>. QED BY <1>2, <1>4, <1>5, <2>1 DEF SupplyOf
<1>. QED
  BY <1>6 DEF SupplyOf

(* The approved principal of a claim on chain is a natural number.         *)
LEMMA ApprovedType ==
  ASSUME NEW cl \in OnchainClaim
  PROVE  cl.approved \in Nat
<1>1. cl.approved \in Principals \cup {0}
  BY DEF OnchainClaim
<1>2. Principals \cup {0} \subseteq Nat
  BY PrincipalAssumption
<1>. QED BY <1>1, <1>2

(* Every step keeps the token balances equal to what the controller has    *)
(* recorded as issued.                                                     *)
LEMMA SupplyStep ==
  ASSUME "clawback" \notin EntryPoints, TypeOK, TypeOK', Uncreated, SupplyMatchesIssuance,
         [Next]_vars
  PROVE  SupplyMatchesIssuance'
<1>1. /\ claims \in [Claims -> OnchainClaim] /\ claims' \in [Claims -> OnchainClaim]
      /\ issued \in [Claims -> Nat] /\ issued' \in [Claims -> Nat]
      /\ holder \in [Claims -> Holders \cup {None}] /\ jclaim \in [Holders -> Nat]
      /\ \A c \in Claims : issued[c] <= claims[c].approved
      /\ \A h \in Holders : SupplyOf(h)
  BY SupplyIsSum DEF TypeOK, LifecycleTypeOK, AssetTypeOK
<1>2. \A c \in Claims : claims[c].approved \in Nat /\ claims'[c].approved \in Nat
  <2> TAKE c \in Claims
  <2>1. claims[c] \in OnchainClaim /\ claims'[c] \in OnchainClaim
    BY <1>1
  <2>. QED BY <2>1, ApprovedType
<1>3. \A c \in Claims : claims'[c].approved >= claims[c].approved
  <2> TAKE c \in Claims
  <2>1. claims[c].state = "Absent" => claims[c].approved = 0
    BY DEF Uncreated
  <2>2. \/ claims'[c].approved = claims[c].approved
        \/ claims[c].state = "Absent"
    BY TermsStay
  <2>. QED BY <1>2, <2>1, <2>2
<1>4. CASE UNCHANGED <<issued, holder, jclaim>>
  <2>1. \A c \in Claims : issued'[c] <= claims'[c].approved
    <3> TAKE c \in Claims
    <3>1. issued'[c] \in Nat /\ issued'[c] <= claims[c].approved
      BY <1>1, <1>4
    <3>2. claims[c].approved \in Nat /\ claims'[c].approved \in Nat
      BY <1>2
    <3>. QED BY <1>3, <3>1, <3>2
  <2>2. \A h \in Holders : SupplyOf(h)'
    BY <1>1, <1>4 DEF SupplyOf, Held
  <2>. QED BY <2>1, <2>2 DEF SupplyMatchesIssuance, SumFunction, Held, SupplyOf
<1>5. ASSUME NEW c \in Claims, NEW h \in Holders, NEW n \in Amounts,
             \/ issue(IssuerOperator, c, h, n)
             \/ redeem(IssuerOperator, c, h, n)
             \/ clawback_claim(IssuerOperator, c, h, n)
      PROVE  SupplyMatchesIssuance'
  <2>1. /\ n \in Nat /\ issued[c] \in Nat /\ jclaim[h] \in Nat /\ claims[c].approved \in Nat
        /\ issued[c] <= claims[c].approved
    BY <1>1, <1>2, AmountsAreNatural
  <2>2. \E m \in Int :
          /\ issued' = [issued EXCEPT ![c] = issued[c] + m]
          /\ jclaim' = [jclaim EXCEPT ![h] = jclaim[h] + m]
          /\ holder' = [holder EXCEPT ![c] = h]
          /\ holder[c] = h \/ issued[c] = 0
          /\ issued[c] + m <= claims[c].approved
    <3>1. CASE issue(IssuerOperator, c, h, n)
      <4>1. /\ issued[c] = 0 /\ n <= claims[c].approved /\ issued' = [issued EXCEPT ![c] = n]
            /\ jclaim' = [jclaim EXCEPT ![h] = jclaim[h] + n] /\ holder' = [holder EXCEPT ![c] = h]
        BY <1>1, <3>1 DEF issue
      <4>2. issued[c] + n = n
        BY <2>1, <4>1
      <4>3. /\ n \in Int /\ issued' = [issued EXCEPT ![c] = issued[c] + n]
            /\ (holder[c] = h \/ issued[c] = 0) /\ issued[c] + n <= claims[c].approved
        BY <2>1, <4>1, <4>2
      <4>. QED BY <4>1, <4>3
    <3>2. CASE redeem(IssuerOperator, c, h, n) \/ clawback_claim(IssuerOperator, c, h, n)
      <4>1. /\ issued' = [issued EXCEPT ![c] = issued[c] - n]
            /\ jclaim' = [jclaim EXCEPT ![h] = jclaim[h] - n]
            /\ holder' = holder /\ holder[c] = h
        BY <1>1, <3>2 DEF redeem, clawback_claim
      <4> DEFINE m == 0 - n
      <4>2. /\ m \in Int /\ issued[c] - n = issued[c] + m /\ jclaim[h] - n = jclaim[h] + m
            /\ issued[c] + m <= claims[c].approved
        BY <2>1
      <4>3. holder' = [holder EXCEPT ![c] = h]
        BY <1>1, <4>1
      <4> HIDE DEF m
      <4>. QED BY <4>1, <4>2, <4>3
    <3>. QED BY <1>5, <3>1, <3>2
  <2>3. PICK m \in Int :
          /\ issued' = [issued EXCEPT ![c] = issued[c] + m]
          /\ jclaim' = [jclaim EXCEPT ![h] = jclaim[h] + m]
          /\ holder' = [holder EXCEPT ![c] = h]
          /\ holder[c] = h \/ issued[c] = 0
          /\ issued[c] + m <= claims[c].approved
    BY <2>2
  <2>4. \A d \in Claims : issued'[d] <= claims[d].approved
    BY <1>1, <2>3
  <2>5. \A d \in Claims : issued'[d] <= claims'[d].approved
    <3> TAKE d \in Claims
    <3>1. issued'[d] \in Nat /\ claims[d].approved \in Nat /\ claims'[d].approved \in Nat
      BY <1>1, <1>2
    <3>. QED BY <1>3, <2>4, <3>1
  <2>6. \A g \in Holders : SupplyOf(g)'
    <3>1. /\ \A d \in Claims : d # c => issued'[d] = issued[d] /\ holder'[d] = holder[d]
          /\ issued'[c] = issued[c] + m /\ holder'[c] = h
      BY <1>1, <2>3
    <3>2. jclaim' = [jclaim EXCEPT ![h] = @ + m]
      BY <2>3
    <3>. QED BY <1>1, <2>3, <3>1, <3>2, SupplyMoves
  <2>. QED BY <2>5, <2>6 DEF SupplyMatchesIssuance, SumFunction, Held, SupplyOf
<1>. QED
  BY <1>4, <1>5, TokenSteps

(* Without the generic clawback, what is issued stays within the approved  *)
(* principal and each holder's balance is what the claims account for.     *)
THEOREM SupplyIsAccounted ==
  ASSUME "clawback" \notin EntryPoints
  PROVE  Spec => []SupplyMatchesIssuance
<1>1. Init => SupplyMatchesIssuance
  <2> SUFFICES ASSUME Init PROVE SupplyMatchesIssuance
    OBVIOUS
  <2>1. \A c \in Claims : issued[c] <= claims[c].approved
    <3> TAKE c \in Claims
    <3>1. issued[c] = 0 /\ claims[c].approved = 0
      BY DEF Init, AssetInit, LifecycleInit, AbsentClaim
    <3>. QED BY <3>1
  <2>2. ASSUME NEW h \in Holders PROVE SupplyOf(h)
    <3>1. \A c \in Claims : Held(h)[c] = 0
      BY DEF Init, AssetInit, Held
    <3>2. SumFunctionOnSet(Held(h), Claims) = 0
      <4> HIDE DEF Held
      <4>. QED BY <3>1, SumZero, ClaimsAssumption
    <3>. QED BY <3>2 DEF SupplyOf, Init, AssetInit
  <2>. QED BY <2>1, <2>2, SupplyIsSum
<1>2. TypeOK /\ TypeOK' /\ Uncreated /\ SupplyMatchesIssuance /\ [Next]_vars
        => SupplyMatchesIssuance'
  BY SupplyStep
<1>. QED
  BY <1>1, <1>2, TypeCorrect, UncreatedStay, PTL DEF Spec

-----------------------------------------------------------------------------
(* The facilities' aggregates.                                             *)

LEMMA FacilitySteps ==
  ASSUME TypeOK, [Next]_vars
  PROVE  \/ UNCHANGED <<positions, facilities>>
         \/ \E f \in Facilities, paused \in BOOLEAN : pause_facility(f, paused)
         \/ \E f \in Facilities, operator \in Actors, limits \in Limits :
              /\ ~ facilities[f].configured \/ "reconfigure" \in EntryPoints
              /\ configure_facility(f, operator, limits)
         \/ \E actor \in Actors, c \in Claims, n \in Principals, l \in FirstLosses :
              fund(actor, c, n, l)
         \/ \E actor \in Actors, c \in Claims : release_unused_first_loss(actor, c)
         \/ \E c \in Claims : reconcile_closed_loss(c)
         \/ \E c \in Claims, n \in Settlements, h \in Hashes \cup {ZeroHash} : Repayment(c, n, h)
         \/ \E actor \in Actors, c \in Claims, s \in Settlements, sd, fd \in Dues, h \in Hashes,
               final \in BOOLEAN : execute(actor, c, s, sd, fd, h, final)
<1>1. CASE RegistryStep \/ LifecycleStep \/ AssetStep \/ ResolutionStep
  BY <1>1 DEF RegistryStep, BeyondRegistry, LifecycleStep, BeyondLifecycle, AssetStep,
     BeyondAsset, ResolutionStep, BeyondResolution, facilityVars
<1>2. CASE FacilityStep
  <2>1. ASSUME NEW x, NEW y, configure_servicing(x, y) \/ set_waterfall(x)
        PROVE  UNCHANGED <<positions, facilities>>
    BY <2>1 DEF configure_servicing, set_waterfall
  <2>. QED
    BY <1>2, <2>1 DEF FacilityStep, FacilityCall, FirstConfiguration, FacilityBreaker,
       Reconfiguration, DirectRepayment, ServicingChange, record_repayment, Repayment
<1>3. CASE WaterfallStep
  <2>1. ASSUME NEW x, NEW y, authorize_servicer(x, y) \/ set_waterfall_pause(y)
        PROVE  UNCHANGED <<positions, facilities>>
    BY <2>1 DEF authorize_servicer, set_waterfall_pause, facilityVars
  <2>. QED
    BY <1>3, <2>1 DEF WaterfallStep, WaterfallCall, WaterfallBreaker, WaterfallServicerChange
<1>4. CASE UNCHANGED vars
  BY <1>4 DEF vars, facilityVars
<1>. QED
  BY <1>1, <1>2, <1>3, <1>4 DEF Next

(* A position belongs to a claim of a configured facility, and a           *)
(* configured facility has limits.                                         *)
Sited ==
  /\ \A c \in Claims : positions[c].exists =>
       /\ claims[c].state # "Absent"
       /\ claims[c].facility \in Facilities /\ facilities[claims[c].facility].configured
  /\ \A f \in Facilities : facilities[f].configured => facilities[f].limits \in Limits

(* Reducing a facility's outstanding principal touches no other facility   *)
(* and none of its limits.                                                 *)
LEMMA ReducedFacility ==
  ASSUME TypeOK, NEW c \in Claims, NEW n \in Int, claims[c].facility \in Facilities,
         facilities' = Reduced(c, n), NEW f \in Facilities
  PROVE  /\ facilities'[f].configured = facilities[f].configured
         /\ facilities'[f].limits = facilities[f].limits
         /\ facilities'[f].outstanding
              = facilities[f].outstanding - (IF f = claims[c].facility THEN n ELSE 0)
<1>1. facilities \in [Facilities -> FacilityConfig] /\ facilities[f] \in FacilityConfig
  BY DEF TypeOK, FacilityTypeOK
<1>2. facilities[f].outstanding \in Int
  BY <1>1 DEF FacilityConfig
<1>3. CASE f = claims[c].facility
  <2>1. facilities'[f] = [facilities[f] EXCEPT !.outstanding = @ - n]
    BY <1>1, <1>3 DEF Reduced
  <2>. QED BY <1>1, <1>3, <2>1 DEF FacilityConfig
<1>4. CASE f # claims[c].facility
  <2>1. facilities'[f] = facilities[f]
    BY <1>1, <1>4 DEF Reduced
  <2>. QED BY <1>2, <1>4, <2>1
<1>. QED BY <1>3, <1>4

(* The steps that move principal in or out of a position: by how much.     *)
PositionMoves(c, n) ==
  /\ positions'[c].exists /\ OnlyPosition(c) /\ claims[c].state # "Absent"
  /\ claims[c].facility \in Facilities /\ facilities[claims[c].facility].configured
  /\ positions'[c].outstanding = positions[c].outstanding + n
  /\ \A f \in Facilities :
       /\ facilities'[f].configured = facilities[f].configured
       /\ facilities'[f].limits = facilities[f].limits
       /\ facilities'[f].outstanding
            = facilities[f].outstanding + (IF f = claims[c].facility THEN n ELSE 0)
  /\ n > 0 => LET f == facilities[claims[c].facility] IN
                f.outstanding + n <= f.limits.max_total_principal

(* A position reduced together with its facility is a move of the          *)
(* principal both count.                                                   *)
LEMMA ReducedMoves ==
  ASSUME TypeOK, Sited, NEW c \in Claims, NEW n \in Nat, facilities' = Reduced(c, n),
         positions[c].exists, positions'[c].exists, OnlyPosition(c),
         positions'[c].outstanding = positions[c].outstanding - n
  PROVE  \E m \in Int : PositionMoves(c, m)
<1> DEFINE m == 0 - n
<1>1. /\ claims[c].state # "Absent"
      /\ claims[c].facility \in Facilities /\ facilities[claims[c].facility].configured
  BY DEF Sited
<1>2. /\ m \in Int /\ ~ m > 0
      /\ \A x \in Int : x - n = x + m /\ x - 0 = x + 0
  OBVIOUS
<1>3. /\ positions[c].outstanding \in Int
      /\ \A f \in Facilities : facilities[f].outstanding \in Int
  BY DEF TypeOK, FacilityTypeOK, Position, FacilityConfig
<1> HIDE DEF m
<1>4. ASSUME NEW f \in Facilities
      PROVE  /\ facilities'[f].configured = facilities[f].configured
             /\ facilities'[f].limits = facilities[f].limits
             /\ facilities'[f].outstanding
                  = facilities[f].outstanding + (IF f = claims[c].facility THEN m ELSE 0)
  BY <1>1, <1>2, <1>3, ReducedFacility
<1>5. PositionMoves(c, m)
  BY <1>1, <1>2, <1>3, <1>4 DEF PositionMoves
<1>. QED BY <1>2, <1>5

(* Every step leaves positions and facilities alone, configures or pauses  *)
(* a facility, or moves one position and its own facility by the same      *)
(* principal.                                                              *)
LEMMA PrincipalMoves ==
  ASSUME TypeOK, PositionAccounting, Unopened, Sited, [Next]_vars
  PROVE  \/ UNCHANGED <<positions, facilities>>
         \/ \E f \in Facilities, paused \in BOOLEAN : pause_facility(f, paused)
         \/ \E f \in Facilities, operator \in Actors, limits \in Limits :
              /\ ~ facilities[f].configured \/ "reconfigure" \in EntryPoints
              /\ configure_facility(f, operator, limits)
         \/ \E c \in Claims, n \in Int : PositionMoves(c, n)
<1>1. /\ positions \in [Claims -> Position] /\ facilities \in [Facilities -> FacilityConfig]
      /\ \A c \in Claims : positions[c] \in Position /\ positions[c].outstanding \in Nat
  BY DEF TypeOK, FacilityTypeOK, Position
<1>2. ASSUME NEW actor \in Actors, NEW c \in Claims, NEW n \in Principals, NEW l \in FirstLosses,
             fund(actor, c, n, l)
      PROVE  \E e \in Claims, m \in Int : PositionMoves(e, m)
  <2>1. /\ n \in Nat \ {0} /\ l \in Nat /\ ~ positions[c].exists
        /\ positions'[c] = OpenPosition(n, l) /\ OnlyPosition(c)
        /\ claims[c].facility \in Facilities
    BY <1>2, FundOpens
  <2>2. positions'[c].exists /\ positions'[c].outstanding = positions[c].outstanding + n
    <3>1. positions[c].outstanding = 0
      BY <2>1 DEF Unopened, NoPosition
    <3>2. OpenPosition(n, l).outstanding = n /\ OpenPosition(n, l).exists = TRUE
      BY DEF OpenPosition
    <3>. QED BY <2>1, <3>1, <3>2
  <2> DEFINE g == claims[c].facility
  <2>3. /\ facilities[g].configured /\ claims[c].state # "Absent"
        /\ facilities[g].outstanding + n <= facilities[g].limits.max_total_principal
        /\ facilities' = [facilities EXCEPT ![g].outstanding = @ + n]
    BY <1>2 DEF fund, WithinLimits
  <2>4. ASSUME NEW f \in Facilities
        PROVE  /\ facilities'[f].configured = facilities[f].configured
               /\ facilities'[f].limits = facilities[f].limits
               /\ facilities'[f].outstanding
                    = facilities[f].outstanding + (IF f = g THEN n ELSE 0)
    <3>1. facilities[f] \in FacilityConfig /\ facilities[f].outstanding \in Int
      BY <1>1 DEF FacilityConfig
    <3>2. CASE f = g
      <4>1. facilities'[f] = [facilities[f] EXCEPT !.outstanding = @ + n]
        BY <1>1, <2>3, <3>2
      <4>. QED BY <3>1, <3>2, <4>1 DEF FacilityConfig
    <3>3. CASE f # g
      <4>1. facilities'[f] = facilities[f]
        BY <1>1, <2>3, <3>3
      <4>. QED BY <3>1, <3>3, <4>1
    <3>. QED BY <3>2, <3>3
  <2>5. PositionMoves(c, n)
    BY <2>1, <2>2, <2>3, <2>4 DEF PositionMoves
  <2>. QED BY <2>1, <2>5
<1>3. ASSUME NEW actor \in Actors, NEW c \in Claims, release_unused_first_loss(actor, c)
      PROVE  \/ UNCHANGED <<positions, facilities>>
             \/ \E e \in Claims, m \in Int : PositionMoves(e, m)
  <2> DEFINE unused == FirstLossAvailable(positions[c])
  <2>a. facilities' = facilities
    BY <1>3, ReleaseReturns
  <2>b. CASE positions' = positions
    BY <2>a, <2>b
  <2> SUFFICES ASSUME positions' # positions PROVE PositionMoves(c, 0)
    BY <2>b
  <2>1. /\ facilities' = facilities /\ positions[c].exists /\ OnlyPosition(c)
        /\ positions'[c] = [positions[c] EXCEPT !.first_loss_funded = @ - unused]
    BY <1>3, ReleaseReturns
  <2>2. /\ positions'[c].exists /\ positions'[c].outstanding = positions[c].outstanding + 0
    BY <1>1, <2>1 DEF Position
  <2>3. /\ claims[c].facility \in Facilities /\ facilities[claims[c].facility].configured
        /\ claims[c].state # "Absent"
    BY <2>1 DEF Sited
  <2>4. \A f \in Facilities : facilities'[f].outstanding
          = facilities[f].outstanding + (IF f = claims[c].facility THEN 0 ELSE 0)
    BY <1>1, <2>1 DEF FacilityConfig
  <2>. QED BY <2>1, <2>2, <2>3, <2>4 DEF PositionMoves
<1>4. ASSUME NEW c \in Claims, reconcile_closed_loss(c)
      PROVE  \E m \in Int : PositionMoves(c, m)
  <2>1. /\ positions[c].exists /\ OnlyPosition(c)
        /\ positions'[c] = WrittenOff(positions[c])
        /\ facilities' = Reduced(c, positions[c].outstanding)
    BY <1>4, ReconcileWritesOff
  <2>2. positions'[c].exists /\ positions'[c].outstanding = 0
    BY <1>1, <2>1 DEF WrittenOff, Position
  <2>3. /\ positions[c].outstanding \in Nat
        /\ positions'[c].outstanding = positions[c].outstanding - positions[c].outstanding
    BY <1>1, <2>2
  <2>. QED BY <2>1, <2>2, <2>3, ReducedMoves
<1>5. ASSUME NEW c \in Claims, NEW n \in Settlements, NEW h \in Hashes \cup {ZeroHash},
             Repayment(c, n, h)
      PROVE  \E m \in Int : PositionMoves(c, m)
  <2>1. /\ n \in Nat /\ positions[c].exists /\ OnlyPosition(c)
        /\ positions'[c] = CreditedPosition(positions[c], n)
        /\ facilities' = Reduced(c, n)
    BY <1>5, RepaymentCredits
  <2>2. positions'[c].exists /\ positions'[c].outstanding = positions[c].outstanding - n
    BY <1>1, <2>1 DEF CreditedPosition, Position
  <2>. QED BY <2>1, <2>2, ReducedMoves
<1>6. ASSUME NEW actor \in Actors, NEW c \in Claims, NEW s \in Settlements, NEW sd \in Dues,
             NEW fd \in Dues, NEW h \in Hashes, NEW final \in BOOLEAN,
             execute(actor, c, s, sd, fd, h, final)
      PROVE  \E m \in Int : PositionMoves(c, m)
  <2>1. PICK k, l, income : Settled(c, k, l, income, final)
    BY <1>6, ExecuteSettles
  <2> DEFINE n == positions[c].outstanding - positions'[c].outstanding
  <2>2. /\ positions[c].exists /\ positions'[c].exists /\ OnlyPosition(c)
        /\ facilities' = Reduced(c, n)
    BY <2>1 DEF Settled, OnlyPosition
  <2>3. n \in Nat /\ positions'[c].outstanding = positions[c].outstanding - n
    <3>1. /\ k \in Nat /\ l \in Nat /\ positions[c].outstanding - (k + l) \in Nat
          /\ positions'[c].outstanding
               = IF final THEN 0 ELSE positions[c].outstanding - (k + l)
      BY <2>1 DEF Settled
    <3>. QED BY <1>1, <3>1
  <2> HIDE DEF n
  <2>. QED BY <2>2, <2>3, ReducedMoves
<1>. QED BY <1>2, <1>3, <1>4, <1>5, <1>6, FacilitySteps

(* An open position stays in a configured facility, before a step and      *)
(* after it.                                                               *)
LEMMA SitedStep ==
  ASSUME TypeOK, PositionAccounting, Unopened, Sited, [Next]_vars
  PROVE  Sited'
<1>1. /\ positions \in [Claims -> Position] /\ facilities \in [Facilities -> FacilityConfig]
      /\ claims \in [Claims -> OnchainClaim]
  BY DEF TypeOK, FacilityTypeOK, LifecycleTypeOK
<1>2. ASSUME NEW c \in Claims, claims[c].state # "Absent"
      PROVE  claims'[c].state # "Absent" /\ claims'[c].facility = claims[c].facility
  BY <1>2, TermsStay
<1>3. CASE UNCHANGED <<positions, facilities>>
  BY <1>2, <1>3 DEF Sited
<1>4. ASSUME NEW f \in Facilities, NEW paused \in BOOLEAN, pause_facility(f, paused)
      PROVE  Sited'
  <2>1. /\ UNCHANGED positions
        /\ \A g \in Facilities : /\ facilities'[g].configured = facilities[g].configured
                                 /\ facilities'[g].limits = facilities[g].limits
    BY <1>1, <1>4 DEF pause_facility, FacilityConfig
  <2>. QED BY <1>2, <2>1 DEF Sited
<1>5. ASSUME NEW f \in Facilities, NEW operator \in Actors, NEW limits \in Limits,
             configure_facility(f, operator, limits)
      PROVE  Sited'
  <2>1. /\ UNCHANGED positions
        /\ \A g \in Facilities : \/ /\ facilities'[g].configured = TRUE
                                    /\ facilities'[g].limits \in Limits
                                 \/ facilities'[g] = facilities[g]
    BY <1>1, <1>5 DEF configure_facility
  <2>. QED BY <1>2, <2>1 DEF Sited
<1>6. ASSUME NEW c \in Claims, NEW n \in Int, PositionMoves(c, n)
      PROVE  Sited'
  <2>1. /\ \A g \in Facilities : /\ facilities'[g].configured = facilities[g].configured
                                 /\ facilities'[g].limits = facilities[g].limits
        /\ claims[c].facility \in Facilities /\ facilities[claims[c].facility].configured
        /\ claims[c].state # "Absent" /\ OnlyPosition(c)
    BY <1>6 DEF PositionMoves
  <2>. QED BY <1>2, <2>1 DEF Sited, OnlyPosition
<1>. QED BY <1>3, <1>4, <1>5, <1>6, PrincipalMoves

(* The facility of every open position is a configured one.                *)
LEMMA PositionsSited == Spec => []Sited
<1>1. Init => Sited
  BY DEF Init, FacilityInit, Sited, NoPosition
<1>. QED
  BY <1>1, SitedStep, TypeCorrect, PositionsAccounted, UnopenedStay, PTL DEF Spec

Aggregate(f) ==
  /\ facilities[f].outstanding = SumFunctionOnSet(AtRisk(f), Claims)
  /\ facilities[f].configured =>
       SumFunctionOnSet(AtRisk(f), Claims) <= facilities[f].limits.max_total_principal

(* The aggregate invariant, one facility at a time.                        *)
LEMMA AggregateIsSum == AggregateMatchesPositions <=> \A f \in Facilities : Aggregate(f)
<1>1. \A f : SumFunction(AtRisk(f)) = SumFunctionOnSet(AtRisk(f), Claims)
  BY DEF SumFunction, AtRisk
<1>. QED BY <1>1 DEF AggregateMatchesPositions, Aggregate

(* What the positions of a facility owe are integers.                      *)
LEMMA AtRiskType ==
  ASSUME TypeOK, NEW f
  PROVE  \A c \in Claims : AtRisk(f)[c] \in Int
<1>1. \A c \in Claims : positions[c].outstanding \in Int
  BY DEF TypeOK, FacilityTypeOK, Position
<1>2. 0 \in Int
  OBVIOUS
<1> TAKE c \in Claims
<1>3. AtRisk(f)[c] = positions[c].outstanding \/ AtRisk(f)[c] = 0
  BY DEF AtRisk
<1>. QED BY <1>1, <1>2, <1>3

(* The total limit of a configured facility is a natural number.           *)
LEMMA LimitType ==
  ASSUME Sited, NEW f \in Facilities, facilities[f].configured
  PROVE  facilities[f].limits.max_total_principal \in Nat
<1>1. facilities[f].limits \in FacilityLimits
  BY FacilityAssumption DEF Sited
<1>. QED BY <1>1 DEF FacilityLimits

(* No position changes: neither does what is at risk.                      *)
LEMMA AtRiskStays ==
  ASSUME TypeOK, Unopened, [Next]_vars, Sited, UNCHANGED positions, NEW f
  PROVE  AtRisk(f)' = AtRisk(f)
<1>1. ASSUME NEW c \in Claims
      PROVE  AtRisk(f)'[c] = AtRisk(f)[c]
  <2>1. CASE claims'[c].facility = claims[c].facility
    BY <2>1 DEF AtRisk
  <2>2. CASE claims[c].state = "Absent"
    <3>1. positions[c].outstanding = 0
      BY <2>2 DEF Sited, Unopened, NoPosition
    <3>. QED BY <3>1 DEF AtRisk
  <2>. QED BY <2>1, <2>2, TermsStay
<1>. QED BY <1>1 DEF AtRisk

(* Every step keeps a facility's aggregate equal to what its positions     *)
(* owe, and within its limit.                                              *)
LEMMA AggregateStep ==
  ASSUME "reconfigure" \notin EntryPoints, TypeOK, TypeOK', PositionAccounting, Unopened,
         Sited, [Next]_vars, NEW f \in Facilities, Aggregate(f)
  PROVE  Aggregate(f)'
<1>1. /\ positions \in [Claims -> Position] /\ facilities \in [Facilities -> FacilityConfig]
      /\ facilities[f] \in FacilityConfig
      /\ \A c \in Claims : AtRisk(f)[c] \in Int /\ AtRisk(f)'[c] \in Int
  <2>1. \A c \in Claims : AtRisk(f)[c] \in Int
    BY AtRiskType
  <2>2. \A c \in Claims : AtRisk(f)'[c] \in Int
    <3>1. \A c \in Claims : positions'[c].outstanding \in Int
      BY DEF TypeOK, FacilityTypeOK, Position
    <3>. QED BY <3>1 DEF AtRisk
  <2>. QED BY <2>1, <2>2 DEF TypeOK, FacilityTypeOK
<1> DEFINE total == SumFunctionOnSet(AtRisk(f), Claims)
           total_then == SumFunctionOnSet(AtRisk(f)', Claims)
<1>2. total \in Int /\ facilities[f].outstanding = total
  BY <1>1, SumInt, ClaimsAssumption DEF Aggregate
<1>3. CASE UNCHANGED <<positions, facilities>>
  BY <1>3, AtRiskStays DEF Aggregate
<1>4. ASSUME NEW g \in Facilities, NEW paused \in BOOLEAN, pause_facility(g, paused)
      PROVE  Aggregate(f)'
  <2>1. /\ UNCHANGED positions
        /\ facilities'[f].configured = facilities[f].configured
        /\ facilities'[f].limits = facilities[f].limits
        /\ facilities'[f].outstanding = facilities[f].outstanding
    BY <1>1, <1>4 DEF pause_facility, FacilityConfig
  <2>. QED BY <2>1, AtRiskStays DEF Aggregate
<1>5. ASSUME NEW g \in Facilities, NEW operator \in Actors, NEW limits \in Limits,
             ~ facilities[g].configured, configure_facility(g, operator, limits)
      PROVE  Aggregate(f)'
  <2>1. UNCHANGED positions
    BY <1>5 DEF configure_facility
  <2>2. AtRisk(f)' = AtRisk(f)
    BY <2>1, AtRiskStays
  <2>3. CASE f # g
    <3>1. facilities'[f] = facilities[f]
      BY <1>1, <1>5, <2>3 DEF configure_facility
    <3>. QED BY <2>2, <3>1 DEF Aggregate
  <2>4. CASE f = g
    <3>1. /\ facilities'[f].outstanding = 0
          /\ facilities'[f].limits = limits
      BY <1>1, <1>5, <2>4 DEF configure_facility
    <3>2. \A c \in Claims : AtRisk(f)[c] = 0
      <4> TAKE c \in Claims
      <4>1. positions[c].exists => claims[c].facility # f
        BY <1>5, <2>4 DEF Sited
      <4>2. ~ positions[c].exists => positions[c].outstanding = 0
        BY DEF Unopened, NoPosition
      <4>. QED BY <4>1, <4>2 DEF AtRisk
    <3>3. total = 0
      <4> HIDE DEF AtRisk
      <4>. QED BY <3>2, SumZero, ClaimsAssumption
    <3>4. limits.max_total_principal \in Nat
      <4>1. limits \in FacilityLimits
        BY FacilityAssumption
      <4>. QED BY <4>1 DEF FacilityLimits
    <3>. QED BY <2>2, <3>1, <3>3, <3>4 DEF Aggregate
  <2>. QED BY <2>3, <2>4
<1>6. ASSUME NEW c \in Claims, NEW n \in Int, PositionMoves(c, n)
      PROVE  Aggregate(f)'
  <2> DEFINE g == claims[c].facility
             m == IF f = g THEN n ELSE 0
  <2>1. /\ OnlyPosition(c) /\ claims[c].state # "Absent"
        /\ positions'[c].outstanding = positions[c].outstanding + n
        /\ facilities'[f].configured = facilities[f].configured
        /\ facilities'[f].limits = facilities[f].limits
        /\ facilities'[f].outstanding = facilities[f].outstanding + m
        /\ g \in Facilities /\ facilities[g].configured
        /\ n > 0 => facilities[g].outstanding + n <= facilities[g].limits.max_total_principal
    BY <1>6 DEF PositionMoves
  <2>2. \A d \in Claims : d # c => AtRisk(f)'[d] = AtRisk(f)[d]
    <3> TAKE d \in Claims
    <3> SUFFICES ASSUME d # c PROVE AtRisk(f)'[d] = AtRisk(f)[d]
      OBVIOUS
    <3>1. positions'[d] = positions[d]
      BY <2>1 DEF OnlyPosition
    <3>2. CASE claims'[d].facility = claims[d].facility
      BY <3>1, <3>2 DEF AtRisk
    <3>3. CASE claims[d].state = "Absent"
      <4>1. positions[d].outstanding = 0
        BY <3>3 DEF Sited, Unopened, NoPosition
      <4>. QED BY <3>1, <4>1 DEF AtRisk
    <3>. QED BY <3>2, <3>3, TermsStay
  <2>3. AtRisk(f)'[c] = AtRisk(f)[c] + m
    <3>1. claims'[c].facility = claims[c].facility
      BY <2>1, TermsStay
    <3>2. positions[c].outstanding \in Int
      BY <1>1 DEF Position
    <3>. QED BY <2>1, <3>1, <3>2 DEF AtRisk
  <2>4. total_then = total + m
    <3>1. total_then = total - AtRisk(f)[c] + AtRisk(f)'[c]
      <4> HIDE DEF AtRisk
      <4>. QED BY <1>1, <2>2, ClaimSumMoves
    <3>2. AtRisk(f)[c] \in Int /\ m \in Int
      BY <1>1
    <3> HIDE DEF total, total_then, m
    <3>. QED BY <1>2, <2>3, <3>1, <3>2
  <2>5. facilities'[f].configured => total_then <= facilities'[f].limits.max_total_principal
    <3> SUFFICES ASSUME facilities[f].configured
                 PROVE  total + m <= facilities[f].limits.max_total_principal
      BY <2>1, <2>4
    <3>1. /\ facilities[f].limits.max_total_principal \in Nat
          /\ total <= facilities[f].limits.max_total_principal
      BY LimitType DEF Aggregate
    <3>2. m > 0 => total + m <= facilities[f].limits.max_total_principal
      BY <1>2, <2>1
    <3>3. m \in Int
      OBVIOUS
    <3> HIDE DEF total, m
    <3>. QED BY <1>2, <3>1, <3>2, <3>3
  <2>. QED BY <1>2, <2>1, <2>4, <2>5 DEF Aggregate
<1>. QED BY <1>3, <1>4, <1>5, <1>6, PrincipalMoves

(* Without a reconfiguration of a configured facility, a facility's        *)
(* aggregate is the sum over its positions and stays within the limit it   *)
(* was configured with, whatever else is called.                           *)
THEOREM AggregateIsAccounted ==
  ASSUME "reconfigure" \notin EntryPoints
  PROVE  Spec => []AggregateMatchesPositions
<1>1. Init => AggregateMatchesPositions
  <2> SUFFICES ASSUME Init, NEW f \in Facilities PROVE Aggregate(f)
    BY AggregateIsSum
  <2>1. \A c \in Claims : AtRisk(f)[c] = 0
    BY DEF Init, FacilityInit, AtRisk, NoPosition
  <2>2. SumFunctionOnSet(AtRisk(f), Claims) = 0
    <3> HIDE DEF AtRisk
    <3>. QED BY <2>1, SumZero, ClaimsAssumption
  <2>. QED BY <2>2 DEF Init, FacilityInit, Aggregate
<1>2. TypeOK /\ TypeOK' /\ PositionAccounting /\ Unopened /\ Sited
        /\ AggregateMatchesPositions /\ [Next]_vars => AggregateMatchesPositions'
  <2> SUFFICES ASSUME TypeOK, TypeOK', PositionAccounting, Unopened, Sited,
                      AggregateMatchesPositions, [Next]_vars
               PROVE  AggregateMatchesPositions'
    OBVIOUS
  <2>1. \A f \in Facilities : Aggregate(f)'
    BY AggregateIsSum, AggregateStep
  <2>2. \A f : SumFunction(AtRisk(f)') = SumFunctionOnSet(AtRisk(f)', Claims)
    BY DEF SumFunction, AtRisk
  <2>. QED BY <2>1, <2>2 DEF AggregateMatchesPositions, Aggregate
<1>. QED
  BY <1>1, <1>2, TypeCorrect, PositionsAccounted, UnopenedStay, PositionsSited, PTL DEF Spec
=============================================================================
