CONSTANTS
    Keys = {1, 2}
    Vals = {1, 2}
    None = None
    MaxRow = 3
    MaxConn = 2
    MaxLog = 3
SPECIFICATION MCSpec
INVARIANTS
    StreamComplete
    Converges
PROPERTIES
    Resubscribes
CHECK_DEADLOCK FALSE
