CONSTANTS
  Claims = {c1}
  Attestations = {a1}
  Oracles = {o1}
  Admin = admin
  MaxTime = 0
  Facilities = {f1}
  Principals = {2}
  Actors <- OneKey
  Wiring <- OneKeyWiring
  None = None
  Holders = {h1}
  IssuerOperator = "issuer"
  FirstLosses = {0}
  Settlements = {1, 2}
  Limits <- OneLimit
  Hashes = {r1}
  ZeroHash = r0
  TreasuryCash = 3
  ServicerCash = 4
  Dues = {0}
  Evidence = {e1, e2}
  Recoveries = {1}
  EntryPoints = {"roles", "grants"}
SPECIFICATION Spec
SYMMETRY EvidenceSymmetry
INVARIANTS
  ResolutionMatchesLifecycle
CHECK_DEADLOCK FALSE
