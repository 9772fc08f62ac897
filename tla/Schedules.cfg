CONSTANTS
    \* Schedules: one scheduler thread that may stop anywhere, users that edit
    Ids = {s1, s2}
    Processes = {p1}
    Intervals = {2}
    Params = {x1, x2}
    Stops = TRUE
    MaxTime = 4
    MaxEdits = 2
    None = None
    \* Cron: every expression of a small calendar, from every minute of its
    \* first week
    Horizon = 39
    Month <- MCMonth
    Day <- MCDay
    Weekday <- MCWeekday
    Hour <- MCHour
    Minute <- MCMinute
    NextMonth <- MCNextMonth
    NextDay <- MCNextDay
    NextHour <- MCNextHour
    Bounds <- MCBounds
    MaxStart = 9
    MaxIterations = 8
    \* WorkflowOps: two callers for two actors and the schedule of one of them
    Callers = {c1, c2}
    Actors = {a1, a2}
    Owner = a1
    MaxActor = 1
    MaxWorkflow = 2
    MaxWindow = 2
    Every = 1
    MaxOpsTime = 2
    NoValue = none
SPECIFICATION MCSpec
CHECK_DEADLOCK FALSE
INVARIANTS
    RunsApart
    NextIsLeast
    AdmissionAccounts
PROPERTIES
    
    ServedUnlessStuck
