SPECIFICATION Spec
CONSTANTS
    Null = Null
    Nothing = Null
    Chart <- ToSubstateChart
    Events = {"step", "reset"}
    Threshold = 8
    Throwing = {}
    Restorable = {}
INVARIANTS
    OneSubstateAtRest
