SPECIFICATION Spec
CONSTANTS
    s1 = s1
    s2 = s2
    d1 = d1
    d2 = d2
    Sources <- TwoSources
    Dests <- TwoDests
    Commands <- SomeCommands
    Initials <- SomeInitials
    FirstNew = 4
    MaxRuns = 3
    MaxFaults = 2
    MaxChanges = 1
INVARIANTS
    OneWriter
    MoveLosesNothing
    MoveLeavesNothing
    SuccessDelivers
CHECK_DEADLOCK FALSE
