SPECIFICATION FairSpec
CONSTANTS
    c1 = c1
    c2 = c2
    c3 = c3
    Conns = {c1, c2, c3}
    MaxPlayers = 2
    NumWords = 1
    NoPlayer = NoPlayer
    MaxJoins = 1
    MaxFaults = 1
INVARIANTS
    TypeOK
    NoDanglingPlayers
    ReaderHasPlayer
    ExclusiveSlots
PROPERTIES
    LeaveIsLast
    PoolSpec
    HangupReleases
CHECK_DEADLOCK FALSE
