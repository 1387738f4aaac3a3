SPECIFICATION Spec
CONSTANTS
    InitialBuffer = 2
    SlotBytes = 1
    Limit = 2
    Inputs <- MCInputs
INVARIANTS  OffsetsExact   BufferFits
CHECK_DEADLOCK FALSE
