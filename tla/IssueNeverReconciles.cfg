SPECIFICATION FundingSpec
CONSTANTS
 IssueKeys = {"i1"}
 FundKeys = {"f1"}
 Handlers = {h1}
 MaxVersion = 1
 MaxRequests = 1
 MaxIncidents = 0
INVARIANTS IssuedIsReconciled
CHECK_DEADLOCK FALSE
