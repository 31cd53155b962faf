SPECIFICATION FairSpec
CONSTANTS
    c1 = c1
    c2 = c2
    Requested = 0
    Callers <- TwoCallers
    MaxTasks = 3
    EagerAwait = FALSE
INVARIANTS
    SubmissionOrder
PROPERTIES
    EveryTaskEnds
    AwaitReturns
CHECK_DEADLOCK FALSE
