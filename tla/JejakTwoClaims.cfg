CONSTANTS
  Claims = {c1, c2}
  Attestations = {a1, a2}
  Oracles = {o1}
  Admin = admin
  MaxTime = 0
  Facilities = {f1}
  Principals = {1, 2}
  Actors <- MCActors
  Wiring <- MCWiring
  None = None
  Holders = {h1}
  IssuerOperator = "issuer"
  FirstLosses = {0, 1}
  Settlements = {1, 2, 3}
  Limits <- TwoLimits
  Hashes = {r1, r2}
  ZeroHash = r0
  TreasuryCash = 6
  ServicerCash = 4
  Dues = {1}
  Evidence = {e1}
  Recoveries = {0}
  EntryPoints = {"holder"}
SPECIFICATION Spec
SYMMETRY InputSymmetry
INVARIANTS
  AggregateMatchesPositions
  CreditIsCash
  EscrowBacksFirstLoss
  SupplyMatchesIssuance
CHECK_DEADLOCK FALSE
