CONSTANTS
    Tasks = {t1}
    NoTask = NoTask
    Workers = {w1}
    MaxBacklog = 1
    Stoppers = {c1}
SPECIFICATION SafeSpec
INVARIANT SubmitReturns
