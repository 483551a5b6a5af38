SPECIFICATION FairProgress
CONSTANTS
 Keys = {k1, k2}
 Events = {e1}
 Amount <- MCAmount
 Principal = 4
 FirstLoss = 1
 ServicingDues = {1}
 Workers = {w1}
 Requests = {q1}
 MaxCalls = 2
 None = None
 Watches <- MCWatches
 Cyclers = {y1}
 PageSize = 1
 Overlap = 0
 MaxLedger = 3
 MaxEvents = 2
 MaxAborts = 1
PROPERTIES SubmissionsSettle EventsAreStored
CHECK_DEADLOCK FALSE
