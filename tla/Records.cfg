CONSTANTS
    t1 = t1
    t2 = t2
    t3 = t3
    p1 = p1
    p2 = p2
    \* AuditChain: both databases, three threads of two processes, every kind of append
    Threads = {t1, t2, t3}
    AuditProcesses = {p1, p2}
    Home <- Homes
    Kinds = {"record", "plain", "resolve"}
    Backends = {TRUE, FALSE}
    MaxOps = 3
    NoThread = nothread
    \* Jobs: one process with two clients and two workers that may stop anywhere
    Clients = {c1, c2}
    Workers = {w1, w2}
    Servers = {p1}
    ServerOf <- OneServer
    Keys = {k1, k2}
    Failures = TRUE
    MaxJobs = 3
    NoJobKey = nokey
SPECIFICATION MCSpec
CHECK_DEADLOCK FALSE
INVARIANTS
    NothingLostOnPostgres
    OncePerKey
PROPERTIES
    AtomicAppends
    EveryAppendEnds
    EveryJobEnds
