SPECIFICATION Spec
CONSTANTS
    Size = 7
    RangeSize = 3
    MaxBufferSize = 2
    MaxWrite = 2
    Uploads <- WholeOrStraight
    MaxRestarts = 3
    MaxFaults = 2
INVARIANTS
    ReadIsObject
    BufferIsBounded
PROPERTY
    EveryCallReturns
