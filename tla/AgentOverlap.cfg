\* Two requests that continue one run.
CONSTANTS
    t1 = t1
    t2 = t2
    PlanTasks <- MCPlan
    Repair <- MCRepair
    Shapes <- MCShapes
    Optional = {}
    OnceOnly = {}
    MaxAttempts = 1
    MaxIterations = 3
    MaxTools = 2
    MaxReplans = 0
    MaxLost = 0
    NoRow = norow
SPECIFICATION OverlapSpec
CHECK_DEADLOCK FALSE
INVARIANT CapsHoldTogether
