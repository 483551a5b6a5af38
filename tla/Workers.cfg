SPECIFICATION FairWorkers
CONSTANTS
 Analyses = {o1}
 Evaluators = {w1, w2}
 MaxAttempts = 2
 MaxFaults = 2
 ResolutionKeys = {"r1","r2"}
 Resolvers = {h1,h2}
 Finalizers = {p1,p2}
 SeniorLoss = 1
 FirstLoss = 0
 MaxRecovery = 1
 MaxMishaps = 1
INVARIANTS EligibleIsAttested TerminalIsOnChain CaseMatchesLedger
PROPERTIES AnalysisEnds RepaidCloses
CHECK_DEADLOCK FALSE
