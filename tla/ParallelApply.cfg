SPECIFICATION FairSpec
CONSTANTS
    p1 = p1
    p2 = p2
    t1 = t1
    t2 = t2
    Procs <- TwoProcs
    Threads <- TwoThreads
    MaxQueueSize = 1
    MaxArgs = 2
    Faults = {"iterator", "checker", "accounting"}
INVARIANTS
    TypeOK
    ReturnsAfterAllCalls
    CallerSeesAllOutputs
    FailureReachesExitStatus
    PermitsAccounted
PROPERTIES
    ImplementsApplyCall
    EventuallyReturns
CHECK_DEADLOCK FALSE
