SPECIFICATION FairSpec
CONSTANTS
    g1 = g1
    g2 = g2
    Gateway = {g1, g2}
    None = None
    MaxRequests = 1
    MaxDisruptions = 2
INVARIANTS
    TypeOK
    CurrentIsHolders
PROPERTIES
    ServedLeaseStays
    ClosedBeforeReleased
    
    BotIsServed
CHECK_DEADLOCK FALSE
