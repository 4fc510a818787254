SPECIFICATION StoreSpec
CONSTANTS
    Ids = {c1, c2, c3}
    UnknownId = unknownId
    MalformedId = malformedId
    Scopes = {s1, s2}
    MalformedScope = malformedScope
    Tokens = {t1, t2, t3}
    None = None
    Absent = Absent
    Times <- MCTimes
    MaxAttempts = 2
    Capacity = 2
SYMMETRY Symmetry
INVARIANTS
    AttemptBudget
    NoLeaseStealing
    OnePass
    Bounded
    IndInv
PROPERTIES
    InsertsSpareTheLive
    RefusalsAreHarmless
    ImplementsLifecycle
