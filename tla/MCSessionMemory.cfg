SPECIFICATION Spec
CONSTANTS
    m1 = m1
    m2 = m2
    m3 = m3
    m4 = m4
    m5 = m5
    m6 = m6
    Cells = {m1,m2,m3,m4,m5,m6}
    NoCell = NoCell
    Types <- AllTypes
    MaxJoins = 1
INVARIANTS
    StringsAreOwned
    NothingLeftOfMessages
    StatsFollowClient
CHECK_DEADLOCK FALSE
