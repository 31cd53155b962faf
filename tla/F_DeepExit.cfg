SPECIFICATION Spec
CONSTANTS
    Null = Null
    Nothing = Null
    Chart <- DeepExitChart
    Events = {"in", "step", "out"}
    Threshold = 8
    Throwing = {}
    Restorable = {}
PROPERTIES
    HistoryRemembers
