CONSTANTS
    c1 = c1
    c2 = c2
    t1 = t1
    t2 = t2
    p1 = p1
    p2 = p2
    \* Dispatch: every declaration, a timeout of 4, up to three attempts
    Budget = 4
    MaxAttempts = 3
    BaseBackoff = 1
    MaxBackoff = 2
    MaxTime = 10
    None = None
    \* BrowserWorker: two callers, room for one context and one command
    BrowserCallers = {c1, c2}
    SessionKeys = {s1, s2}
    MaxContexts = 1
    QueueSize = 1
    Nothing = nothing
    \* Outbound: two dispatches of one action, two attempts each
    OutboundCalls = {c1, c2}
    MaxTries = 2
    \* BreakerThreads: one process with one thread, or two with one each
    Threads = {t1, t2}
    Processes = {p1, p2}
    Home <- ProcessEach
    Threshold = 2
    Cooldown = 1
    Deployments <- Installations
    Nil = Nil
SPECIFICATION MCSpec
CHECK_DEADLOCK FALSE
INVARIANTS
    AmbiguityReported
    UnknownIsQuarantined
    IrreversibleOnce
    HonestVerdict
    OpenRowHasTime
PROPERTIES
    NoAttemptAfterReport
    BrowserCallEnds
    RowFollowsProtocol
