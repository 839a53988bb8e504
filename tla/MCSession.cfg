CONSTANTS
    s1 = s1
    s2 = s2
    mid = mid
    huge = huge
    None = None
    Sessions <- MCSessions
    Files <- MCFiles
    Size <- MCSize
    Commands <- MCCommands
    Allow = {"test"}
    Deny = {"composition"}
    MaxCalls = 2
    MaxStarts = 2
    MaxChanges = 1
SPECIFICATION Spec
INVARIANTS
    IdleWasDecided
    SavingsAddUp
PROPERTY
    FailOpen
CHECK_DEADLOCK FALSE
