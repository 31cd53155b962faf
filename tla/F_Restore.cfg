SPECIFICATION Spec
CONSTANTS
    Null = Null
    Nothing = Null
    Chart <- ParallelChart
    Events = {"x", "y", "z"}
    Threshold = 6
    Throwing = {}
    Restorable = {"b"}
INVARIANTS
    RestoredConfiguration
