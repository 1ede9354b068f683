SPECIFICATION Spec
CONSTANTS
    Size <- ThreeVersions
    Kinds = {"file", "chunked", "small", "stream"}
    Keys = {"k1", "k2"}
    Chunk = 2
    NumRetries = 2
    MaxRuns = 3
    MaxFaults = 1
    MaxChanges = 1
INVARIANTS
    DeliveredIsFile
    SessionHoldsPrefix
    DigestIsOfPosition
    PipeStaysSeekable
    RetryHeals
PROPERTY
    Termination
CHECK_DEADLOCK FALSE
