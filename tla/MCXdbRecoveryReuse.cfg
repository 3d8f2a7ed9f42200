CONSTANTS
    InitCap = 2
    MaxCap = 2
    Data = Data
    Vals = {a, b}
    Junk = Junk
    MaxCommits = 3
    MaxCrashes = 1
SPECIFICATION Spec
INVARIANT CommittedStays
CHECK_DEADLOCK FALSE
