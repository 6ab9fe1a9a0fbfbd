CONSTANTS
    Cores = {c0, c1}
    Boot = c0
    Word = 12
    Recharge = 5
    MaxDelay = 2
SPECIFICATION FairSpec
INVARIANTS
    TypeOK
    NextTickSet
    NotEarly
    HandledOnce
PROPERTIES
    TicksForever
