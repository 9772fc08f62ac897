\* One worker thread: a forbidden action, an unregistered one, changing policies, one confirmation.
CONSTANTS
    t1 = t1
    t2 = t2
    alice = alice
    bob = bob
    pay = pay
    send = send
    wipe = wipe
    c1 = c1
    c2 = c2
    Threads = {t1}
    Actors = {alice, bob}
    Operators = {bob}
    Actions = {pay, send, wipe}
    Forbidden = {wipe}
    Dual = {pay}
    Registered = {send, wipe}
    Confs = {c1}
    Policies <- BothPolicies
    TTL = 0
    BatchSize = 1
    MaxTime = 1
    MaxOps = 3
    Faults = FALSE
    SweeperRuns = TRUE
    NoConf = NoConf
    NoCall = NoCall
SPECIFICATION Spec
CHECK_DEADLOCK FALSE
INVARIANTS BoundToConfirmation SingleUse
PROPERTY EveryDispatchReported
