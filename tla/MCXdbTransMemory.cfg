CONSTANTS
    Conns = {c1, c2}
    NoConn = NoConn
    Tables = {1}
    NoTable = 0
    MemTables = {1}
    Rows = {1, 2}
    Keys = {1, 2}
    Vals = {1}
    Junk = Junk
    OrderedAccess = FALSE
SPECIFICATION Spec
INVARIANT DeletePending
