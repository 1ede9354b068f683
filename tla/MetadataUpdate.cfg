SPECIFICATION Spec
CONSTANTS
    c1 = c1
    c2 = c2
    owner = owner
    other = other
    Clients <- TwoClients
    Keys <- TwoKeys
    Vals <- ThreeVals
    Writer = 3
    InitialMap <- OneEntry
    Plans <- SomePlans
    MaxChanges = 2
    MaxFaults = 1
INVARIANTS
    NoLostUpdate
    SuccessTakesEffect
    FailsAfterThreeTries
CHECK_DEADLOCK FALSE
