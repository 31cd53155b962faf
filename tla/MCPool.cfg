SPECIFICATION Spec
CONSTANTS
    c1 = c1
    c2 = c2
    Requested = 2
    Callers <- TwoCallers
    MaxTasks = 3
    EagerAwait = FALSE
INVARIANTS
    TypeOK
    FirstInFirstOut
    DrainedBeforeExit
    TerminatedMeansDone
    NoTaskForgotten
CHECK_DEADLOCK FALSE
