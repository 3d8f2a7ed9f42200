CONSTANTS
    Dbs = {"d", "m"}
    FileDbs = {"d"}
    System = "system"
    Indexes = {"p", "i"}
    Rooms <- RoomsOf
    Tables <- TablesOf
    Hash <- HashOf
    NoObj = "null"
SPECIFICATION Spec
INVARIANTS
    CatalogExact
    MirrorExact
    OrphansEmpty
