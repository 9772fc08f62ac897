\* Two threads approve the same confirmation.
CONSTANTS
    t1 = t1
    t2 = t2
    alice = alice
    bob = bob
    pay = pay
    send = send
    wipe = wipe
    c1 = c1
    c2 = c2
    Threads = {t1, t2}
    Actors = {alice, bob}
    Operators = {bob}
    Actions = {send}
    Forbidden = {}
    Dual = {}
    Registered = {send}
    Confs = {c1}
    Policies <- OnlyStrict
    TTL = 1
    BatchSize = 1
    MaxTime = 2
    MaxOps = 3
    Faults = FALSE
    SweeperRuns = TRUE
    NoConf = NoConf
    NoCall = NoCall
SPECIFICATION Spec
CHECK_DEADLOCK FALSE
INVARIANT SingleUse
