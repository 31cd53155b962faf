SPECIFICATION Spec
CONSTANTS
    m1 = m1
    c1 = c1
    c2 = c2
    Null = Null
    Root = Root
    User = User
    Local = Local
    Worker = Worker
    Timer = Timer
    Runs = {m1}
    Clients = {c1}
    Owners = {c2}
    Moves <- TwoTimeouts
    StartState = "start"
    Timed = {"short", "long"}
    Sendable = {"toggle", "short"}
    Direct = {"dispatch"}
    Lent = {User}
    Restart = FALSE
    MaxCalls = 2
INVARIANTS
    TypeOK
    NoTimeoutLost
    ParameterAlive
    QuietAfterShutdown
CHECK_DEADLOCK FALSE
