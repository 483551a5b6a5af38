SPECIFICATION FairRiskSpec
CONSTANTS
 Analyses = {o1}
 Evaluators = {w1}
 MaxAttempts = 2
 MaxFaults = 1
PROPERTIES RegistrationRecovered
CHECK_DEADLOCK FALSE
