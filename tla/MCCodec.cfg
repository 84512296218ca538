SPECIFICATION Spec
CONSTANTS
    Cells = {c1, c2, c3, c4, c5, c6, c7}
    NoCell = NoCell
    Values <- Ints
    Garbage <- AnyByte
    Lengths <- TextLengths
    Worlds <- OneAndAll
    Taken <- EachNumber
INVARIANTS
    RoundTrip
    LengthAsWritten
    NewIsWholeOrNothing
    ReadsWhatWasWritten
CHECK_DEADLOCK FALSE
