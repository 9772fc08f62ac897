------------------------------ MODULE RateLimit ------------------------------
(***************************************************************************)
(* The two in-process rate limiters: the fixed windows of the HTTP edge    *)
(* (FixedWindowRateLimiter, one event loop, so a check is one step) and    *)
(* the rolling window of the providers (ActorRateLimiter, many threads,    *)
(* which read the clock before they take the lock).                        *)
(***************************************************************************)
EXTENDS Integers, Sequences

CONSTANTS
    Ips, ApiKeys,         \* who asks at the edge
    IpLimit, KeyLimit,
    RateActors, RateThreads,
    ActorLimit,
    WindowLength,         \* window_seconds, in ticks
    Lag,                  \* the ticks a thread may wait for the lock, at most
    SweepEvery,           \* allowed checks between two sweeps (256 in the code)
    MaxRateTime,          \* bound of the clock
    NoKey, NoStamp

\* Addresses, keys and actors are prefixed or live in different limiters; nobody
\* waits for the lock longer than a window.
ASSUME RateAssumption ==
    /\ IpLimit \in Nat /\ KeyLimit \in Nat /\ ActorLimit \in Nat
    /\ WindowLength \in Nat \ {0} /\ Lag \in 0..WindowLength
    /\ SweepEvery \in Nat \ {0} /\ MaxRateTime \in Nat
    /\ Ips \cap ApiKeys = {} /\ (Ips \cup ApiKeys) \cap RateActors = {}
    /\ NoKey \notin ApiKeys /\ NoStamp \notin [at: Nat, actor: RateActors, count: Nat]

VARIABLES
    rateTime,
    windows,     \* _windows: per identity seen, when its window started and its count
    checks,      \* _checks, modulo SweepEvery
    stamps,      \* per thread inside allow_many: the clock it read, and its request
    buckets,     \* _timestamps
    ledger       \* per identity and tick: what was let through before it (history)

rateVars == <<rateTime, windows, checks, stamps, buckets, ledger>>

Identities == Ips \cup ApiKeys
LimitOf(i) == IF i \in Ips THEN IpLimit ELSE IF i \in ApiKeys THEN KeyLimit ELSE ActorLimit

RateInit ==
    /\ rateTime = 0
    /\ windows = <<>>
    /\ checks = 0
    /\ stamps = [t \in RateThreads |-> NoStamp]
    /\ buckets = [a \in RateActors |-> <<>>]
    /\ ledger = [i \in Identities \cup RateActors |-> [k \in 0..(MaxRateTime + 1) |-> 0]]

\* n more were let through in this tick.
Granted(l, n) == [k \in DOMAIN l |-> IF k > rateTime THEN l[k] + n ELSE l[k]]
Grant(i, n) == ledger' = [ledger EXCEPT ![i] = Granted(@, n)]

\* The windows once identity i has a current one.
WithWindow(ws, i) ==
    IF i \in DOMAIN ws /\ rateTime - ws[i].started < WindowLength THEN ws
    ELSE [j \in DOMAIN ws \cup {i} |-> IF j = i THEN [started |-> rateTime, count |-> 0] ELSE ws[j]]

\* _remove_stale
RemoveStale(ws) == [i \in {j \in DOMAIN ws : ws[j].started > rateTime - WindowLength} |-> ws[i]]

\* check: the address first; an exhausted one opens no window for the key, and
\* a refusal counts nowhere.
CheckRate(ip, key) ==
    LET first == WithWindow(windows, ip)
        both == IF key = NoKey THEN first ELSE WithWindow(first, key)
        asked == {ip} \cup ({key} \ {NoKey})
        counted == [i \in DOMAIN both |-> IF i \in asked THEN [both[i] EXCEPT !.count = @ + 1] ELSE both[i]]
        now == (checks + 1) % SweepEvery
    IN  /\ checks' = now
        /\ IF first[ip].count >= IpLimit
           THEN windows' = first /\ UNCHANGED ledger
           ELSE IF key # NoKey /\ both[key].count >= KeyLimit
           THEN windows' = both /\ UNCHANGED ledger
           ELSE /\ windows' = IF now = 0 THEN RemoveStale(counted) ELSE counted
                /\ ledger' = [i \in DOMAIN ledger |->
                     IF i \in asked THEN Granted(ledger[i], 1) ELSE ledger[i]]
        /\ UNCHANGED <<rateTime, stamps, buckets>>

\* allow and allow_many, before the lock: the clock is read.
ReadClock(t, a, n) ==
    /\ stamps[t] = NoStamp
    /\ stamps' = [stamps EXCEPT ![t] = [at |-> rateTime, actor |-> a, count |-> n]]
    /\ UNCHANGED <<rateTime, windows, checks, buckets, ledger>>

\* The bucket without the stamps at its head that are out of the window of at.
Trimmed(bucket, at) ==
    LET live == {k \in 1..Len(bucket) : bucket[k] > at - WindowLength}
        head == CHOOSE k \in live : \A j \in live : k <= j
    IN  IF live = {} THEN <<>> ELSE SubSeq(bucket, head, Len(bucket))

\* Mutant: there is room as long as one slot is free.
AllowMany_AnyRoom(t) ==
    /\ stamps[t] # NoStamp
    /\ LET s == stamps[t]
           left == Trimmed(buckets[s.actor], s.at)
       IN  IF Len(left) >= ActorLimit
           THEN buckets' = [buckets EXCEPT ![s.actor] = left] /\ UNCHANGED ledger
           ELSE /\ buckets' = [buckets EXCEPT ![s.actor] = left \o [k \in 1..s.count |-> s.at]]
                /\ Grant(s.actor, s.count)
    /\ stamps' = [stamps EXCEPT ![t] = NoStamp]
    /\ UNCHANGED <<rateTime, windows, checks>>

\* ... under the lock: all the slots asked for, or none.
AllowMany(t) ==
    /\ stamps[t] # NoStamp
    /\ LET s == stamps[t]
           left == Trimmed(buckets[s.actor], s.at)
       IN  IF Len(left) + s.count > ActorLimit
           THEN buckets' = [buckets EXCEPT ![s.actor] = left] /\ UNCHANGED ledger
           ELSE /\ buckets' = [buckets EXCEPT ![s.actor] = left \o [k \in 1..s.count |-> s.at]]
                /\ Grant(s.actor, s.count)
    /\ stamps' = [stamps EXCEPT ![t] = NoStamp]
    /\ UNCHANGED <<rateTime, windows, checks>>

RateTick ==
    /\ rateTime < MaxRateTime
    /\ \A t \in RateThreads : stamps[t] # NoStamp => rateTime - stamps[t].at < Lag
    /\ rateTime' = rateTime + 1
    /\ UNCHANGED <<windows, checks, stamps, buckets, ledger>>

\* The two limiters share nothing but time.
EdgeNext ==
    \/ \E ip \in Ips, key \in ApiKeys \cup {NoKey} : CheckRate(ip, key)
    \/ RateTick

QuotaNext ==
    \/ \E t \in RateThreads, a \in RateActors, n \in 1..ActorLimit : ReadClock(t, a, n)
    \/ \E t \in RateThreads : AllowMany(t)
    \/ RateTick

RateSpec == RateInit /\ [][EdgeNext \/ QuotaNext]_rateVars

-----------------------------------------------------------------------------
\* What identity i was let through in the n ticks from from.
Through(i, from, n) ==
    LET to == IF from + n <= MaxRateTime THEN from + n ELSE MaxRateTime + 1
    IN  ledger[i][to] - ledger[i][from]

\* However requests, sweeps and waiting threads fall, the edge lets no address
\* and no key through more than twice its limit in the length of a window (two
\* windows meet in it), and the providers' limiter grants an actor no more than
\* its limit in a window shortened by the time a thread can wait for the lock.
BurstsBounded ==
    /\ \A i \in Identities, from \in 0..MaxRateTime : Through(i, from, WindowLength) <= 2 * LimitOf(i)
    /\ \A a \in RateActors, from \in 0..MaxRateTime : Through(a, from, WindowLength - Lag) <= ActorLimit
=============================================================================
