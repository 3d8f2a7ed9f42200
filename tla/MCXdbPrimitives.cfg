CONSTANTS
    Threads = {t1, t2, t3}
    NoThread = NoThread
    InitCap = 1
    MaxCap = 4
    Data = Data
    MaxRows = 3
    MaxBlocks = 2
    Texts = {1, 2}
    NoText = 0
    ClassOf <- MCClassOf
SPECIFICATION PrimitivesSpec
INVARIANTS
    LockTypeOK
    MutualExclusion
    CounterExact
    TypeOK
    FreeListExact
    BlocksExact
PROPERTIES
    ImplementsRwLock
    SomeoneEnters
    HandsOutOnlyFree
    ImplementsAllocator
