SPECIFICATION FairSpec
CONSTANTS
    Scripts <- Conversations
    Served <- ServedTypes
    SegmentEnds <- Cuts
    LoopRounds = 3
    StrayHeaders <- Stray
INVARIANTS
    HandlesEveryMessage
    HandledOnceInOrder
    BufferFitsBody
PROPERTIES
    StreamSpec
    ReadsEverything
CHECK_DEADLOCK FALSE
