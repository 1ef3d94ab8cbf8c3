SPECIFICATION Spec
CONSTANTS
    MaxRounds = 2
    Questions = 2
    MaxOffers = 1
    MaxEvents = 3
    MaxAttempts = 2
    MaxTrouble = 1
INVARIANTS
    TypeOK
    
    WaitMeansNoSwitch

    
CHECK_DEADLOCK FALSE
