CONSTANTS
    InitCap = 2
    MaxCap = 2
    Data = Data
    Vals = {a, b}
    Junk = Junk
    MaxCommits = 2
    MaxCrashes = 2
SPECIFICATION FairSpec
INVARIANTS
    RecoveredContent
    LogExplains
PROPERTIES
    RecoveryEnds
CHECK_DEADLOCK FALSE
