CONSTANTS
    Requests = {r1, r2}
    None = None
    Workers = {w1, w2}
    MaxBacklog = 1
    MaxHistory = 1
    MaxAge = 1
    MaxTime = 1
SPECIFICATION Spec
INVARIANTS
    OwnJob
    OneOwner
    SequentialExecution
    NoOrphan
    AnswersTruthful
PROPERTIES
    ClientRefinement
    JobsFinish
    ExitsOnSignal
