SPECIFICATION FairSpec
CONSTANTS
    MaxText = 1
    MaxFaults = 1
INVARIANTS
    TypeOK
    AnswerArrives
    NothingTwice
PROPERTIES
    AnswerSettles
CHECK_DEADLOCK FALSE
