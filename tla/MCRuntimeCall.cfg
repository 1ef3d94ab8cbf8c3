SPECIFICATION FairSpec
CONSTANTS
    a = a
    b = b
    Calls = {a, b}
    Plans <- OneOrTwo
    MaxConcurrent = 1
    MaxPending = 2
    MaxBuffered = 1
    ReadLimit = 1
INVARIANTS
    TypeOK
    ReadInOrder
    StartedOnce
    WithinLimit
    NothingLeft
PROPERTIES
    EndIsFinal
    OrphansStop
CHECK_DEADLOCK FALSE
