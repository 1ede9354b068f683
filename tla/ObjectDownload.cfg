SPECIFICATION Spec
CONSTANTS
    Size <- TwoGenerations
    Settings <- SomeSettings
    Smalls = {TRUE, FALSE}
    CheckHashes = {TRUE}
    MaxRuns = 4
    MaxFaults = 2
INVARIANTS
    DeliveredIsObject
    CleanAfterSuccess
    RetryHeals
