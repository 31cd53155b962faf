SPECIFICATION Spec
CONSTANTS
    Null = Null
    Nothing = Null
    Chart <- ToContextChart
    Events = {"step", "reset"}
    Threshold = 8
    Throwing = {}
    Restorable = {}
PROPERTIES
    OnlyActiveStatesReact
