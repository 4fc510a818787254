SPECIFICATION Spec
CONSTANTS
    None = None
    Absent = Absent
    Ids = {c1, c2}
    UnknownId = unknownId
    MalformedId = malformedId
    Scopes = {s1}
    MalformedScope = malformedScope
    Tokens = {k1, k2}
    Times <- MCTimes
    MaxAttempts = 2
    Capacity = 1
    Threads = {t1, t2}
    MaxParallel = 2
    Ttl = 1
    MaxClock = 2
    ClockStepsBack = TRUE
    Builds = {"linux"}
SYMMETRY Symmetry
VIEW View
INVARIANTS
    LateWorkIsNotAccepted
    NoOrphanedLease
PROPERTIES
    KeepsLifecycle
