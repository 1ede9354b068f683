SPECIFICATION Spec
CONSTANTS
    k1 = k1
    k2 = k2
    Parts <- TwoParts
    Contents <- TwoContents
    Keys = {k1, k2}
    Versioned = {FALSE}
    MaxRuns = 3
    MaxFaults = 2
    MaxEdits = 1
INVARIANTS
    ComposedMatchesSource
    ComposedWithOneKey
    TrackerKeepsUp
    LeavesOnlyUndeleted
