SPECIFICATION Spec
CONSTANTS
    Words <- Typed
    MaxArgc = 5
    Flags = {"s"}
    WithArgument = {"p"}
    LongWords <- TypedLong
    MayHave = {"o"}
    LongOptions <- Options
    MaxLines = 2
    MaxClients = 2
    MaxClock = 2
    Junk = Junk
    NoCallback = NoCallback
    Events = {player_join, player_leave}
    Callbacks = {a, b}
    MaxRegistered = 3
    MaxDepth = 2
    MaxFaults = 1
INVARIANTS
    ScansAsTyped
    LinesAreWhole
    RunsAsItReports
    CalledInOrder
    NothingLostWithMemory
PROPERTIES
    EndsWithConsole
CHECK_DEADLOCK FALSE
