CONSTANTS
  Keys = {k1, k2}
  Events = {e1}
  Amount <- MCAmount
  Principal = 4
  FirstLoss = 1
  ServicingDues = {1}
  Workers = {w1}
  Requests = {q1}
  MaxCalls = 2
  None = None
SPECIFICATION Spec
SYMMETRY Symmetric
INVARIANTS
  EventSettlesOnce
