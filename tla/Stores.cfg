SPECIFICATION StoresSpec
CONSTANTS
 IssueKeys = {i1}
 FundKeys = {f1, f2}
 Handlers = {h1, h2}
 MaxVersion = 2
 MaxRequests = 2
 MaxIncidents = 1
 Evidences = {1}
 Versions = {1, 2}
 Bytes = {x, y}
 Types = {t1, t2}
 Lookalikes = {x, y}
 Finalizers = {z1, z2}
 Cleaners = {w1}
 Deadline = 1
 UploadTtl = 2
 AbandonedAfter = 2
 BatchSize = 1
 Horizon = 2
 MaxIntents = 2
 MaxDeposits = 2
 MaxStorageErrors = 1
 Claims = {c1, c2}
 Attestations = {a1, a2}
 Oracles = {"o1", "o2"}
 Admin = admin
 MaxTime = 2
SYMMETRY Interchangeable
INVARIANTS PayoutIsFunded AnsweredIssueIsRecorded EvidenceWasVerified FreshIsKept
PROPERTIES NeverReactivated
CHECK_DEADLOCK FALSE
