SPECIFICATION FairSpec
CONSTANTS
    Requests = {r1, r2, r3}
    MaxAttempts = 2
    Metered = TRUE
    QuotaLimit = 2
    MaxWindow = 1
    Paced = TRUE
    MinInterval = 1
    MaxQueueDepth = 1
    FailureThreshold = 2
    ResetTimeout = 1
    SuccessThreshold = 2
    MaxResetTimeout = 1
INVARIANT NoSlotLeak
PROPERTY CallsSettle
