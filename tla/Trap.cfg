CONSTANTS
    FramePointers <- MCFramePointers
    Creations = {"task", "zero"}
SPECIFICATION Spec
CHECK_DEADLOCK FALSE
INVARIANTS
    TypeOK
    OneHandlerFrame
    TaskStartsAsCreated
PROPERTIES
    KernelResumes
