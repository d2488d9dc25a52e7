CONSTANTS
    Ids = {i1, i2, i3}
    Callers = {c1, c2}
    None = None
    Burst = 2
    Limit = 1
    TTL = 1
    MaxSize = 2
    MaxBuckets = 4
    MaxTime = 2
SYMMETRY Symmetry
SPECIFICATION Spec
INVARIANTS
    NoLeak
    BoundedOverrun
PROPERTY
    NeverReplaced
