CONSTANTS
    Word = 256
    Cores = {c0, c1}
    Boot = c0
    Calls <- MCCalls
    MaxCalls = 2
    Depth = 2
    BfSize = 5
    Firmware <- MCFirmware
SPECIFICATION FairSpec
CHECK_DEADLOCK FALSE
INVARIANTS
    TypeOK
    OutputWhole
    BufferFits
PROPERTIES
    OtherPins
    PrintfReturns
