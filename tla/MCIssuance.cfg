SPECIFICATION ScreenedSpec
CONSTANTS
    Requests <- MCRequests
    SampledTasks <- MCTasks
    Streams = {"low", "high", "alternate", "mixed"}
    Draw <- MCDraw
    Selections <- MCSelections
    MaxTime <- MCMaxTime
    None = None
CHECK_DEADLOCK FALSE
INVARIANTS
    HoldoutsAreMixed
    FitsTheRequest
    PromptIsKept
    OutputsAreExact
    MistakesFail
