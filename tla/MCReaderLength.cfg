SPECIFICATION Spec
CONSTANTS
    Scripts <- Conversations
    Served <- ServedTypes
    SegmentEnds <- Cuts
    LoopRounds = 3
    StrayHeaders <- Stray
INVARIANTS
    BufferIsOfUnsignedLength
CHECK_DEADLOCK FALSE
