SPECIFICATION CallSpec
CONSTANT Hosts <- MCHosts
INVARIANTS
    NothingLeftBehind
    NilMeansDone
    ToolPresent
PROPERTY CallReturns
