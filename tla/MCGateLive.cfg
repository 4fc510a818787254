SPECIFICATION FairSpec
CONSTANTS
    None = None
    Absent = Absent
    Ids = {c1}
    UnknownId = unknownId
    MalformedId = malformedId
    Scopes = {s1}
    MalformedScope = malformedScope
    Tokens = {k1, k2}
    Times <- MCTimes
    MaxAttempts = 2
    Capacity = 1
    Threads = {t1, t2}
    MaxParallel = 1
    Ttl = 1
    MaxClock = 2
    ClockStepsBack = FALSE
    Builds = {"linux", "other"}
PROPERTIES
    CallsReturn
    LeasesEnd
