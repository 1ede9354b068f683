SPECIFICATION Spec
CONSTANTS
    Names <- OddNames
    Items <- SmallItems
    Options <- DeleteUp
    Initials <- OddInitials
    MaxRuns = 1
    MaxFaults = 1
    MaxChanges = 0
INVARIANT
    RemovesOnlyExtras
CHECK_DEADLOCK FALSE
