CONSTANTS
    Jobs = {j1, j2, j3, j4}
    NoJob = NoJob
    MaxHistory = 2
    MaxAge = 2
    MaxTime = 3
SYMMETRY Symmetry
SPECIFICATION Spec
INVARIANTS
    OneRunning
    HistoryOK
    Retained
PROPERTY
    FinishedForever
CHECK_DEADLOCK TRUE
