SPECIFICATION SlogSpec
CONSTANTS
    Writers = {w1, w2}
    MaxSize = 1
    MaxLines = 4
    MaxFiles = 3
    MaxTime = 2
INVARIANT RotationKeepsLines
CHECK_DEADLOCK FALSE
