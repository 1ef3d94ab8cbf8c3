SPECIFICATION FairSpec
CONSTANTS
    Item = {1, 2}
    g1 = g1
    g2 = g2
    Gateway = {g1, g2}
    None = None
    Group <- Pair
    MaxAttempts = 2
    Plans <- Protocols
INVARIANTS
    TypeOK
    SentWasShown
PROPERTIES
    ImplementsContract
    GroupOrder
    EveryItemSettles
CHECK_DEADLOCK FALSE
