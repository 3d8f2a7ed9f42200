CONSTANTS
    MaxRow = 6
    Indexes = {1, 2}
    Records <- PassRecords
    Cases <- PassTables
    Free = Free
    Hash <- KeyHash
    FirstCap = 2
SPECIFICATION Spec
INVARIANTS
    IndexExact
    BackLinks
    CountsExact
    UniqueKeys
    TreesBalanced
