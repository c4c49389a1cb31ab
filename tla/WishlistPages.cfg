SPECIFICATION MCSpec
CONSTANTS
    Requests = {r1, r2, r3}
    Bodies = {b1, b2}
    Expires = TRUE
    Conns = {c1, c2}
    RateLimitMax = 1
    PollMs = 2
    ProbeMs = 1
    ForceMs = 1
    Writers = {w1, w2}
    Ids = {1, 2, 3}
    Tracks = {t1}
    Cap = 2
    PageSize = 1
    Micros = 2
    EndOfTime = 2
INVARIANT NoneSkipped
CHECK_DEADLOCK FALSE
