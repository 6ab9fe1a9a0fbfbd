CONSTANTS
    FramePointers <- MCFramePointers
    Creations = {"task"}
SPECIFICATION Spec
CHECK_DEADLOCK FALSE
INVARIANTS
    NoInvalidException
