SPECIFICATION Spec
CONSTANTS
    None = None
    Absent = Absent
    Ids = {c1}
    UnknownId = unknownId
    MalformedId = malformedId
    Scopes = {s1}
    MalformedScope = malformedScope
    Tokens = {k1}
    Times <- MCTimes
    MaxAttempts = 2
    Capacity = 1
    Threads = {t1}
    MaxParallel = 2
    Ttl = 1
    MaxClock = 2
    ClockStepsBack = FALSE
    Builds = {"linux"}
SYMMETRY Symmetry
VIEW View
INVARIANTS
    SpentMeansStarted
