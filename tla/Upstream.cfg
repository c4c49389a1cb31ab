SPECIFICATION MCSpec
CONSTANTS
    Requests = {r1, r2, r3}
    Limit = 1
    MaxCalls = 2
    L = 2
    Timeout = 1
    MaxTime = 3
    Runs = {r1, r2}
    Newest = 2
    Backoff = 1
    MaxRestores = 1
INVARIANTS CountersExpire NeverPartial
PROPERTIES KeepsAllowance CatchesUp
CHECK_DEADLOCK FALSE
