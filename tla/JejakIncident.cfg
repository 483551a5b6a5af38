CONSTANTS
  Claims = {c1}
  Attestations = {a1}
  Oracles = {o1}
  Admin = admin
  MaxTime = 1
  Facilities = {f1}
  Principals = {2}
  Actors <- MCActors
  Wiring <- MCWiring
  None = None
  Holders = {h1}
  IssuerOperator = "issuer"
  FirstLosses = {1}
  Settlements = {1, 5}
  Limits <- OneLimit
  Hashes = {r1, r2}
  ZeroHash = r0
  TreasuryCash = 3
  ServicerCash = 6
  Dues = {1}
  Evidence = {e1, e2}
  Recoveries = {0, 1}
  EntryPoints = {"pause", "holder", "breaker"}
SPECIFICATION Spec
SYMMETRY InputSymmetry
INVARIANTS
  LifecycleMatchesPosition
  FirstLossBeforeSeniorLoss
PROPERTIES
  TerminalIsFinal
  ImplementsClaimFinancing
CHECK_DEADLOCK FALSE
