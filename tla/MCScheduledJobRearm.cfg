SPECIFICATION Spec
CONSTANTS
    MaxRuns = 3
    Plans <- Rearmed
PROPERTIES
    ArmedStaysEnabled
CHECK_DEADLOCK FALSE
