SPECIFICATION FairCacheSpec
CONSTANTS
    Callers = {c1, c2}
    Keys = {k1, k2}
    FailureThreshold = 1
    ResetTimeout = 1
    SuccessThreshold = 2
    MaxResetTimeout = 1
INVARIANT SingleFlight
PROPERTIES OutageNeverCostsARow ProbesRecover
