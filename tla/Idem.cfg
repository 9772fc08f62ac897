\* Every fault, two requests under one key.
CONSTANTS
    t1 = t1
    t2 = t2
    t3 = t3
    r1 = r1
    r2 = r2
    Threads = {t1, t2, t3}
    Requests = {r1, r2}
    TTL = 3
    ProcTTL = 2
    DispatchTime = 1
    ReadTime = 1
    Faults = {"raise", "late", "crash", "database"}
    MaxTime = 5
    MaxCalls = 3
    None = None
SPECIFICATION IdemSpec
CHECK_DEADLOCK FALSE
SYMMETRY Symmetric
INVARIANT OnceUnlessLate
