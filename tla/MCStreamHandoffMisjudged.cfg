SPECIFICATION Spec
CONSTANTS
    MaxText = 1
    MaxFaults = 0
INVARIANTS
    HandOffKeepsAnswer
CHECK_DEADLOCK FALSE
