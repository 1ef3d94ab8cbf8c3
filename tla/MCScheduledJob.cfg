SPECIFICATION FairSpec
CONSTANTS
    MaxRuns = 4
    Plans <- All
INVARIANTS
    TypeOK
    OneExecution
    OneVerdict
    OnceRunsOnce
    ColleagueHears
    AnswerHeard
PROPERTIES
    RunsAndAsksEnd
CHECK_DEADLOCK FALSE
