SPECIFICATION Spec
CONSTANTS
    MaxRounds = 1
    Questions = 1
    MaxOffers = 0
    MaxEvents = 1
    MaxAttempts = 2
    MaxTrouble = 0
INVARIANT DuplicateHadTurn
CHECK_DEADLOCK FALSE
