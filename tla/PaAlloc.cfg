CONSTANTS
    Cores = {c0, c1}
    Boot = c0
    NumPages = 3
SPECIFICATION Spec
INVARIANTS
    TypeOK
    NoDoubleAlloc
    FreeListIntact
    NoPageLost
PROPERTIES
    ImplementsPagePool
