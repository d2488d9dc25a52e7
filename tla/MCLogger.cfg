SPECIFICATION Spec
CONSTANTS
    MaxSize = 1
    MaxBackups = 1
    MaxLines = 7
    MaxFiles = 4
    MaxFaults = 2
INVARIANTS OutputLive BackupsKept
PROPERTIES LostOnlyInRotation CloseReturns
CHECK_DEADLOCK FALSE
