CONSTANTS
    CaseCount = 2
    MaxCases = 3
    MaxItems = 4
    Cut = Cut
SPECIFICATION Spec
CHECK_DEADLOCK FALSE
INVARIANTS ReturnsVerdictOf PassedIsComplete
