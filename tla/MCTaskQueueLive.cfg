SPECIFICATION FairSpec
CONSTANTS
    Task = {1, 2, 3}
    w1 = w1
    w2 = w2
    Worker = {w1}
    None = None
    Origin <- MessagesAndApi
    MaxAttempts = 3
    Slots = 2
    MaxDisruptions = 1
    StallStages <- GuardedStages
PROPERTIES
    EveryTaskEnds
CHECK_DEADLOCK FALSE
