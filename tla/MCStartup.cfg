SPECIFICATION ProcessSpec
CONSTANTS
    MaxVersion = 3
    MaxSignals = 2
INVARIANTS
    ServedAsConfigured
    OrderlyEnd
PROPERTY SignalEnds
