CONSTANTS
    Cores = {c0, c1, c2, c3}
    Primary = c0
    BssWords = 4
    FlagWord = 2
SPECIFICATION Spec
CHECK_DEADLOCK FALSE
INVARIANTS
    DistributorOn
