SPECIFICATION Spec
CONSTANTS
    None = None
    Budget = 2
    Outputs = {Nothing, o2, o3}
    Nothing = Nothing
    Empty = Empty
    Boundaries = {Empty}
    Draws <- MCDraws
    RivalCounts <- MCRivalCounts
    PoolLimit = 4
    SearchCases = 3
    Orders = {p1, p2, p3}
    Inputs = {x1, x2, x3, x4}
    Candidates <- MCCandidates
    PublicProbes = 3
    CaseCount = 2
    PrivateDraws = 3
CHECK_DEADLOCK FALSE
INVARIANTS
    SuiteDiscriminates
    SuiteIsNotConstant
    ExamplesSayAll
    ExamplesIdentifyTheOrder
    PrivateCasesAreUnseen
PROPERTIES
    GenerationEnds
