CONSTANTS
    InitSystems <- AllInitSystems
    MaxFaults = 2
    MaxSecrets = 2
SPECIFICATION RetrySpec
INVARIANTS
    SuccessInstalls
    UninstallClean
PROPERTIES
    SecretKept
    SetupEventuallySucceeds
