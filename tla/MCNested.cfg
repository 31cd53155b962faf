SPECIFICATION FairSpec
CONSTANTS
    Null = Null
    Nothing = Null
    Chart <- NestedChart
    Events = {"x", "y", "z"}
    Threshold = 6
    Throwing = {"chart", "b>fq"}
    Restorable = {"b"}
INVARIANTS
    TypeOK
    CallStack
    CurrentIsChild
    LegalConfiguration
    EventConsumedOnce
    ResultReportsFiring
    LoopReportJustified
PROPERTIES
    DispatchReturns
    RootStaysActive
