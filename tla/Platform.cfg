CONSTANTS
    \* CircuitBreaker: three overlapping dispatches, threshold 2
    Requests = {r1, r2, r3}
    Threshold = 2
    Cooldown = 2
    MaxTime = 5
    None = None
    \* Workflow: one driver at a time, three steps, a step budget that a retry
    \* exceeds, two approves, of one confirmation or of two
    d1 = d1
    Drivers = {d1}
    Steps <- MCSteps
    Definitions <- MCDefinitions
    MaxPending = 2
    StepBudget = 3
    MaxApproves = 2
    MaxCur = 4
    MaxExtra = 1
    \* WorkflowDefinitions: every graph of three steps, lists of two entries
    Ids = {i1, i2, i3}
    Unknown = unknown
    MaxDeps = 2
    MaxFan = 2
    \* DomWalk: every document of six tags
    MaxTags = 6
    \* RateLimit
    Ips = {i1}
    ApiKeys = {k1}
    IpLimit = 2
    KeyLimit = 1
    RateActors = {a1}
    RateThreads = {h1, h2}
    ActorLimit = 2
    WindowLength = 3
    Lag = 1
    SweepEvery = 3
    MaxRateTime = 5
    NoKey = nokey
    NoStamp = nostamp
    \* WebFetch: a host may move between a public address, a private one, both and none
    Hosts = {h1, h2}
    SearchHost = h1
    Addresses = {p1, x1}
    Private = {x1}
    MaxRedirects = 2
    MaxRepeats = 1
    Cap = 1
    NoAddress = noaddress
    \* Access: an administrator and a user, a key each, three requests, two at a time
    k1 = k1
    k2 = k2
    u1 = u1
    u2 = u2
    ApiRequests = {q2, q3}
    Users = {u1, u2}
    Admins = {u1}
    KeyRows = {k1, k2}
    HolderOf <- Holders
    MaxRevision = 3
    MaxArrivals = 3
    NoUser = nouser
SPECIFICATION MCSpec
CHECK_DEADLOCK FALSE
INVARIANTS
    CountersAccurate
    AcceptedRuns
    
    BurstsBounded
    Pinned
    ReadOrUntouched
    SecretsByReference
    ExactlyOnce
    CompletedMeansDone
PROPERTY RevocationsHold
