SPECIFICATION FairSpec
CONSTANTS
    early = early
    late = late
    tied = tied
    t1 = t1
    t2 = t2
    c1 = c1
    c2 = c2
    Items <- ThreeItems
    Deadline <- Deadlines
    Takers <- TwoTakers
    Clients <- TwoClients
    MaxTime = 3
INVARIANTS
    OrderedByDeadline
    SleepsNoLongerThanHead
PROPERTIES
    ImplementsTimedQueue
    EveryItemLeaves
    StopReleasesTakers
