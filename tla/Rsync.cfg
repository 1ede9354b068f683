SPECIFICATION Spec
CONSTANTS
    Names <- PlainNames
    Items <- SmallItems
    Options <- SomeOptions
    Initials <- PlainInitials
    MaxRuns = 2
    MaxFaults = 1
    MaxChanges = 1
INVARIANTS
    SuccessIsInSync
    KeepsWhatSourceHas
    SettledRunIsIdle
    RetryHeals
CHECK_DEADLOCK FALSE
