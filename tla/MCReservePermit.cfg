SPECIFICATION Spec
CONSTANTS
    Threads = {p1, p2, p3, p4}
    MaxParallel = 2
INVARIANTS
    NoPermitLost
PROPERTIES
    ImplementsPermits
