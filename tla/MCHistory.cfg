SPECIFICATION Spec
CONSTANTS
    Null = Null
    Nothing = Null
    Chart <- HistoryChart
    Events = {"in", "out", "off", "step", "end"}
    Threshold = 8
    Throwing = {"q", "c", "p>p", "chart"}
    Restorable = {}
INVARIANTS
    LegalConfiguration
    HistoryDispatchedAsCurrent
PROPERTIES
    HistoryRemembers
