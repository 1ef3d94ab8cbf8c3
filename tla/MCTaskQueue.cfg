SPECIFICATION Spec
CONSTANTS
    Task = {1, 2, 3}
    w1 = w1
    w2 = w2
    Worker = {w1, w2}
    None = None
    Origin <- TwoAndRemark
    MaxAttempts = 2
    Slots = 1
    MaxDisruptions = 1
    StallStages <- GuardedStages
INVARIANTS
    TypeOK
    RowsOwned
    TurnsExclusive
    QueuedInOrder
PROPERTIES
    TerminalIsFinal
    ImplementsLifecycle
SYMMETRY Workers
CHECK_DEADLOCK FALSE
