CONSTANTS
    CaseCount = 2
    MaxCases = 2
    Cut = Cut
    None = None
    PipeCapacity = 1
    Deadline = TRUE
    Faults = TRUE
    Rogue = TRUE
SPECIFICATION Spec
CHECK_DEADLOCK FALSE
INVARIANTS PassedIsEarned
