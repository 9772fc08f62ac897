---------------------------- MODULE CircuitBreaker ----------------------------
(***************************************************************************)
(* What a provider's circuit breaker promises: each of its three methods   *)
(* as one atomic step, with any number of dispatches in flight between the *)
(* gate (allow_request) and the report of their outcome.  Reports may      *)
(* arrive in any order, and late: a dispatch admitted before the circuit   *)
(* opened may report after it.                                             *)
(***************************************************************************)
EXTENDS Integers, FiniteSets

CONSTANTS
    Requests,    \* dispatches to this provider
    Threshold,   \* failure_threshold
    Cooldown,    \* cooldown_seconds
    MaxTime,     \* bound on the clock
    None         \* opened_at when the circuit was never opened

ASSUME BreakerAssumption ==
    /\ Threshold \in Nat \ {0}
    /\ Cooldown \in Nat
    /\ MaxTime \in Nat
    /\ None \notin Nat

VARIABLES
    now,
    state,       \* CircuitState
    failures,    \* consecutive eligible failures
    openedAt,
    inflight,    \* dispatches admitted and not yet reported
    probes,      \* those of them admitted while HALF_OPEN
    streak       \* eligible failures reported since the last success (history)

circuitVars == <<now, state, failures, openedAt, inflight, probes, streak>>

States == {"CLOSED", "OPEN", "HALF_OPEN"}

CircuitTypeOK ==
    /\ now \in 0..MaxTime
    /\ state \in States
    /\ failures \in Nat
    /\ openedAt \in 0..MaxTime \cup {None}
    /\ inflight \subseteq Requests
    /\ probes \subseteq Requests
    /\ streak \in Nat

CircuitInit ==
    /\ now = 0
    /\ state = "CLOSED"
    /\ failures = 0
    /\ openedAt = None
    /\ inflight = {}
    /\ probes = {}
    /\ streak = 0

Cooled == now - openedAt >= Cooldown

\* allow_request returns True.  The first one after the cooldown moves the
\* circuit to HALF_OPEN.
Admit(r) ==
    /\ r \notin inflight
    /\ state = "OPEN" => Cooled
    /\ state' = IF state = "OPEN" THEN "HALF_OPEN" ELSE state
    /\ inflight' = inflight \cup {r}
    /\ probes' = IF state = "CLOSED" THEN probes ELSE probes \cup {r}
    /\ UNCHANGED <<now, failures, openedAt, streak>>

\* record_success.
Success(r) ==
    /\ r \in inflight
    /\ inflight' = inflight \ {r}
    /\ probes' = probes \ {r}
    /\ streak' = 0
    /\ IF state = "OPEN"
       THEN UNCHANGED <<state, failures, openedAt>>
       ELSE /\ state' = "CLOSED"
            /\ failures' = 0
            /\ openedAt' = None
    /\ UNCHANGED now

\* Mutant: the circuit opens one failure too late.
Failure_TooLate(r) ==
    /\ r \in inflight
    /\ inflight' = inflight \ {r}
    /\ probes' = probes \ {r}
    /\ streak' = streak + 1
    /\ CASE state = "OPEN" -> UNCHANGED <<state, failures, openedAt>>
         [] state = "HALF_OPEN" -> state' = "OPEN" /\ failures' = 1 /\ openedAt' = now
         [] state = "CLOSED" ->
              /\ failures' = failures + 1
              /\ IF failures' > Threshold
                 THEN state' = "OPEN" /\ openedAt' = now
                 ELSE UNCHANGED <<state, openedAt>>
    /\ UNCHANGED now

\* record_failure with an eligible code (UNAVAILABLE, PROVIDER_ERROR).
Failure(r) ==
    /\ r \in inflight
    /\ inflight' = inflight \ {r}
    /\ probes' = probes \ {r}
    /\ streak' = streak + 1
    /\ CASE state = "OPEN" -> UNCHANGED <<state, failures, openedAt>>
         [] state = "HALF_OPEN" -> state' = "OPEN" /\ failures' = 1 /\ openedAt' = now
         [] state = "CLOSED" ->
              /\ failures' = failures + 1
              /\ IF failures' >= Threshold
                 THEN state' = "OPEN" /\ openedAt' = now
                 ELSE UNCHANGED <<state, openedAt>>
    /\ UNCHANGED now

\* record_failure with any other code, and a dispatch that reports nothing
\* (refused by validation after the gate): the circuit is left as it is.
Ignored(r) ==
    /\ r \in inflight
    /\ inflight' = inflight \ {r}
    /\ probes' = probes \ {r}
    /\ UNCHANGED <<now, state, failures, openedAt, streak>>

Tick ==
    /\ now < MaxTime
    /\ now' = now + 1
    /\ UNCHANGED <<state, failures, openedAt, inflight, probes, streak>>

CircuitNext ==
    \/ \E r \in Requests : Admit(r) \/ Success(r) \/ Failure(r) \/ Ignored(r)
    \/ Tick

\* Clients go on asking for the provider, dispatches end (the timeout sees to
\* it) and the clock advances.
Fairness ==
    /\ \A r \in Requests : WF_circuitVars(Admit(r)) /\ WF_circuitVars(Ignored(r))
    /\ WF_circuitVars(Tick)

Safety == CircuitInit /\ [][CircuitNext]_circuitVars
CircuitSpec == Safety /\ Fairness

-----------------------------------------------------------------------------

\* The counters mean what they say, whatever order the reports come in: a
\* closed circuit has counted every eligible failure since the last success and
\* they are fewer than Threshold; an open one knows since when (the assertion
\* in allow_request).
CountersAccurate ==
    /\ state = "CLOSED" => failures = streak /\ failures < Threshold
    /\ state # "CLOSED" => openedAt \in 0..now /\ failures \in 1..Threshold

=============================================================================
