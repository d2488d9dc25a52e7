CONSTANTS
    Requests = {r1}
    None = None
    Workers = {w1}
    MaxBacklog = 1
    MaxHistory = 1
    MaxAge = 1
    MaxTime = 0
SPECIFICATION SafeSpec
INVARIANT CompletedMeansSuccess
