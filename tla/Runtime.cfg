CONSTANTS
    d1 = d1
    t1 = t1
    t2 = t2
    t3 = t3
    t4 = t4
    \* Workflow: one driver at a time, three steps, a step budget that can run out
    Drivers = {d1}
    Steps <- MCSteps
    Definitions <- MCDefinitions
    MaxPending = 2
    StepBudget = 4
    MaxApproves = 1
    MaxCur = 4
    MaxExtra = 1
    \* SchedulerLeader
    Processes = {p1, p2}
    Timeout = 1
    NoLeaderRow = noleader
    Nobody = nobody
    \* Agent
    PlanTasks <- MCPlan
    Repair <- MCRepair
    Shapes <- MCShapes
    Optional = {t1, t3, t4}
    OnceOnly = {t2}
    MaxAttempts = 2
    MaxIterations = 4
    MaxTools = 3
    MaxReplans = 1
    MaxLost = 1
    NoRow = norow
    \* BrowserRefs
    PageSessions = {s1, s2}
    Urls = {u1, u2}
    Blank = blank
    MaxTabs = 2
    MaxGeneration = 2
    NoPage = nopage
SPECIFICATION MCSpec
CHECK_DEADLOCK FALSE
INVARIANTS
    LeaderKnows
    CapsHold
    RefsDie
PROPERTIES
    ApprovalBelieved
    EveryCallReturns
    SegmentEnds
