SPECIFICATION Spec
CONSTANTS
    MaxByteType = 7
    MaxTilesX = 2
    MaxTilesY = 3
    TimerType = 5
    Files <- WorldFiles
    OtherFiles <- SavedAgain
    GameFlags <- Table
    GameTypes = 10
    MaxStops = 1
    MaxFaults = 1
INVARIANTS
    ReadsAsWritten
    RefusedIffCutOff
    StringsAreFreed
    SentAsSaved
    NothingAhead
CHECK_DEADLOCK FALSE
