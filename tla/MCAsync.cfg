SPECIFICATION FairSpec
CONSTANTS
    m1 = m1
    c1 = c1
    c2 = c2
    Null = Null
    Root = Root
    User = User
    Local = Local
    Worker = Worker
    Timer = Timer
    Runs = {m1}
    Clients = {c1}
    Owners = {c2}
    Moves <- TwoTimeouts
    StartState = "start"
    Timed = {"short", "long"}
    Sendable = {"toggle", "short"}
    Direct = {}
    Lent = {User}
    Restart = FALSE
    MaxCalls = 2
INVARIANTS
    TimeoutOfThisActivation
    NoTimeoutLost
    ParameterAlive
    AlarmsAlive
    QuietAfterShutdown
PROPERTIES
    AcceptedIsHandled
    TimeoutsSettle
    ShutdownReturns
CHECK_DEADLOCK FALSE
