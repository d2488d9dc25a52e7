CONSTANTS
    Tasks = {t1, t2, t3}
    NoTask = NoTask
    Workers = {w1, w2}
    MaxBacklog = 2
    Stoppers = {c1, c2}
SPECIFICATION Spec
INVARIANTS
    InOrderOnce
    GracefulShutdown
    ClosedOnce
PROPERTIES
    Refinement
    WorkersLeave
