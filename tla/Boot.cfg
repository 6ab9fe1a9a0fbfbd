CONSTANTS
    Cores = {c0, c1, c2, c3}
    Primary = c0
    BssWords = 4
    FlagWord = 2
SPECIFICATION FairSpec
CHECK_DEADLOCK FALSE
INVARIANTS
    TypeOK
    BssClearBeforeC
    TablesBeforeMmu
    GlobalBeforeLocal
PROPERTIES
    AllReachKernelMain
