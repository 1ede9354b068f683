SPECIFICATION PoolFairSpec
CONSTANTS
    Calls <- DeepCalls
    Root = "root"
    Parent <- DeepParent
    Level <- DeepLevel
    WorkersPerPool = 3
    MaxDepth = 5
INVARIANTS
    QueueExists
    RequestIsHeard
PROPERTY EveryCallReturns
