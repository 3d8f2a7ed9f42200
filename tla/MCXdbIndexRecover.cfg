CONSTANTS
    MaxRow = 3
    Indexes = {1, 2}
    Records <- TwoIndexes
    Cases <- TwoIndexesTables
    Free = Free
    Hash <- KeyHash
    FirstCap = 2
SPECIFICATION Spec
INVARIANT NoDangling
