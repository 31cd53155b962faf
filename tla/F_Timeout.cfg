SPECIFICATION Spec
CONSTANTS
    c1 = c1
    c2 = c2
    Requested = 1
    Callers <- OneCaller
    MaxTasks = 1
    EagerAwait = FALSE
INVARIANTS
    TrueMeansInTime
CHECK_DEADLOCK FALSE
