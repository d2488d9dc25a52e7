SPECIFICATION Spec
CONSTANTS
    Requests = {r1, r2}
    Queries = {q1}
    None = None
    MaxHistory = 1
    MaxAge = 1
    MaxTime = 1
INVARIANTS OwnJob AnswerConsistent ToldTruth NotFoundTruth
PROPERTY AcceptedSettles
CHECK_DEADLOCK FALSE
