CONSTANTS
    CaseCount = 3
    MaxCases = 3
    Cut = Cut
    None = None
    PipeCapacity = 1
    Deadline = TRUE
    Faults = TRUE
    Rogue = FALSE
SPECIFICATION ThreadSpec
CHECK_DEADLOCK FALSE
INVARIANTS RefundsOnlyUnstarted NothingLeftBehind NoFalseAlarm
PROPERTIES CallReturns PipesNeverBlock
