SPECIFICATION Spec
CONSTANTS
    BufferSize = 2
    MaxItems = 4
    Interrupts = {"client closes", "cancel queued", "cancel running", "session closes"}
INVARIANTS
    TypeOK
    StreamFaithful
PROPERTIES
    CancelEnds
CHECK_DEADLOCK FALSE
