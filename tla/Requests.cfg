SPECIFICATION FairRequests
CONSTANTS
 Callers = {c1, c2}
 PartnerAttempts = 2
 MaxRestarts = 1
 MaxDbErrors = 2
 ClaimKeys = {"k1", "k2"}
 OfferKeys = {"o1", "o2"}
 AcceptKeys = {"a1"}
 Clients = {x1, x2}
 Files <- MCFiles
 Cutoffs = {1, 3}
 Ingestors = {g1, g2}
 MaxStarts = 3
 MaxSnapshots = 3
 Watches <- MCWatches
 Cyclers = {y1, y2}
 PageSize = 1
 Overlap = 0
 MaxLedger = 3
 MaxEvents = 2
 MaxAborts = 1
 People = {n1, n2}
 Founder = n0
 InvitedRoles = {"ADMIN", "ISSUER"}
 Visitors = {v1, v2}
 MaxInvitations = 2
 ResetKeys = {"d1"}
 SpikeKeys = {"p1", "p2"}
 Tabs = {b1, b2}
 MaxMoves = 3
 Custodians = {u1, u2}
 RevokeReasons = {"FRAUD"}
 ExpiresAt = 2
 MaxTime = 2
 MaxRowVersion = 4
 MaxLosses = 1
 Desks = {e1, e2}
 Connections = {l1, l2}
 SettlementKeys = {"s1", "s2"}
 MaxUpdates = 1
INVARIANTS ControlledIsVerified OneActive SnapshotAddsUp NothingSkipped InvitedOnly OneSpike RowFollowsRegistry OneSettlementPerClaim
PROPERTIES RevokedIsFinal AnswerIsFinal CallIsAnswered
CHECK_DEADLOCK FALSE
