CONSTANTS
    Conns = {c1, c2}
    NoConn = NoConn
    Tables = {1, 2}
    NoTable = 0
    MemTables = {}
    Rows = {1, 2, 3}
    Keys = {1, 2}
    Vals = {1, 2}
    Junk = Junk
    OrderedAccess = TRUE
SPECIFICATION MCSpec
INVARIANTS
    TypeOK
    VersionOwned
    DeletePending
    IndexExact
    KeysUnique
    LockCoversRows
    NoDeadlock
    NoDirtyRead
    SnapshotUndisturbed
    ReadsOwnWrites
PROPERTIES
    CommitEnds
    ImplementsTransactions
