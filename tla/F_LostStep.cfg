SPECIFICATION Spec
CONSTANTS
    Null = Null
    Nothing = Null
    Chart <- LostStepChart
    Events = {"go"}
    Threshold = 8
    Throwing = {}
    Restorable = {}
INVARIANTS
    RunToCompletion
