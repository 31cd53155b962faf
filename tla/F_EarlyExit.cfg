SPECIFICATION Spec
CONSTANTS
    Null = Null
    Nothing = Null
    Chart <- EarlyExitChart
    Events = {"in", "off"}
    Threshold = 8
    Throwing = {}
    Restorable = {}
INVARIANTS
    ContextsActiveAtRest
