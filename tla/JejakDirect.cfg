CONSTANTS
  Claims = {c1}
  Attestations = {a1}
  Oracles = {o1}
  Admin = admin
  MaxTime = 0
  Facilities = {f1}
  Principals = {2}
  Actors <- MCActors
  Wiring <- MCWiring
  None = None
  Holders = {h1}
  IssuerOperator = "issuer"
  FirstLosses = {0, 1}
  Settlements = {1, 3}
  Limits <- OneLimit
  Hashes = {r1, r2}
  ZeroHash = r0
  TreasuryCash = 3
  ServicerCash = 4
  Dues = {1}
  Evidence = {e1}
  Recoveries = {0, 1}
  EntryPoints = {"transition", "repayment", "reconfigure", "clawback"}
SPECIFICATION Spec
SYMMETRY HashSymmetry
INVARIANTS
  TypeOK
  PositionAccounting
  FundedIsNeverFundable
CHECK_DEADLOCK FALSE
