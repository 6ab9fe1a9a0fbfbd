CONSTANTS
    Cores = {c0, c1}
    Boot = c0
    NumPages = 2
SPECIFICATION SpecWithFree
INVARIANTS
    NoDoubleAlloc
