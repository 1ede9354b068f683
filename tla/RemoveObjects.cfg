SPECIFICATION RmSpec
CONSTANTS
    b1 = b1
    b2 = b2
    Buckets <- TwoBuckets
    Directories <- TwoDirs
    Commands <- ValidCommands
    Stores <- AnyStore
    MaxTroubles = 2
    MaxWrites = 1
INVARIANTS
    SuccessRemovesObjects
    NoFalseAlarm
