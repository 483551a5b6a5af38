CONSTANTS
  Keys = {k1, k2}
  Events = {e1, e2}
  Amount <- MCAmount
  Principal = 4
  FirstLoss = 1
  ServicingDues = {1}
  Workers = {w1, w2}
  Requests = {q1, q2}
  MaxCalls = 2
  None = None
SPECIFICATION Spec
SYMMETRY Symmetric
INVARIANTS
  RecordedWasExecuted
  ExecutedAsPrepared
  ProjectionMatchesLedger
  FeesCountedOnce
  KeySettlesOnce
