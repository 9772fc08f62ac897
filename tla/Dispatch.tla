------------------------------- MODULE Dispatch -------------------------------
(***************************************************************************)
(* One dispatch to a provider: ExecutionService._run_provider with         *)
(* run_with_timeout and with_retry.  The caller waits in join(timeout) for *)
(* a daemon thread that runs the retry loop; when the wait overruns, the   *)
(* caller reports TIMEOUT and leaves, and the daemon thread goes on.  The  *)
(* two share nothing but the deadline the caller has put in the context.   *)
(***************************************************************************)
EXTENDS Integers

CONSTANTS
    Budget,        \* provider_timeout_seconds; 0: no hard timeout
    MaxAttempts,   \* RetryPolicy.max_attempts
    BaseBackoff, MaxBackoff,   \* backoff_factor is 2
    MaxTime,       \* bound on the clock
    None

Codes == {"UNAVAILABLE", "PROVIDER_ERROR", "TIMEOUT", "AUTH", "INTERNAL"}
RetryableCodes == {"UNAVAILABLE", "PROVIDER_ERROR"}
\* How an execute call can end: a result (good, failed, unsafe) or a ToolError.
Endings == {"ok", "failed", "unsafe"} \cup Codes
Verdicts == Codes \cup {"OK", "VALIDATION", "SIDE_EFFECT_UNKNOWN"}

ASSUME DispatchAssumption ==
    /\ Budget \in Nat /\ MaxTime \in Nat
    /\ MaxAttempts \in 1..10
    /\ BaseBackoff \in Nat /\ MaxBackoff \in Nat
    /\ None \notin Nat \cup Endings \cup Verdicts

VARIABLES
    now,
    action,     \* what its provider declares of the action
    caller,     \* where _run_provider is
    deadline,   \* ExecutionContext.deadline
    joinAt,     \* when the wait for the worker began
    worker,     \* where the daemon thread is
    attempt,    \* the attempt the loop is at
    wake,       \* end of the backoff sleep
    box,        \* how the worker ended
    verdict,    \* error code the caller returns, "OK" for EXECUTED
    started     \* provider.execute calls begun (history)

vars == <<now, action, caller, deadline, joinAt, worker, attempt, wake, box, verdict, started>>
workerVars == <<worker, attempt, wake, box, started>>

\* In non_retryable_action_types, in ambiguous_on_failure_action_types.
Declarations == [nonRetryable: BOOLEAN, ambiguous: BOOLEAN]

TypeOK ==
    /\ now \in 0..MaxTime
    /\ action \in Declarations
    /\ caller \in {"gate", "validate", "launch", "join", "done"}
    /\ deadline \in Nat \cup {None}
    /\ joinAt \in 0..MaxTime
    /\ worker \in {"off", "check", "begin", "call", "sleep", "ended"}
    /\ attempt \in 1..MaxAttempts
    /\ wake \in Nat
    /\ box \in Endings \cup {None}
    /\ verdict \in Verdicts \cup {None}
    /\ started \in 0..MaxAttempts

Init ==
    /\ now = 0
    /\ action \in Declarations
    /\ caller = "gate"
    /\ deadline = None
    /\ joinAt = 0
    /\ worker = "off"
    /\ attempt = 1
    /\ wake = 0
    /\ box = None
    /\ verdict = None
    /\ started = 0

-----------------------------------------------------------------------------
(* The caller *)

Report(code) == caller' = "done" /\ verdict' = code

\* The deadline is set before the breaker and the validation are consulted.
Enter ==
    /\ caller = "gate"
    /\ deadline' = IF Budget > 0 THEN now + Budget ELSE None
    /\ \/ Report("UNAVAILABLE")                      \* circuit open
       \/ Report("VALIDATION")                       \* parameters refused
       \/ caller' = "validate" /\ UNCHANGED verdict
    /\ joinAt' = now
    /\ UNCHANGED <<now, action, workerVars>>

\* provider.validate, under a timeout of its own.
Validated(code) ==
    /\ caller = "validate"
    /\ code = "TIMEOUT" => Budget > 0 /\ now >= joinAt + Budget
    /\ IF code = "OK" THEN caller' = "launch" /\ UNCHANGED verdict
       ELSE Report(code)
    /\ UNCHANGED <<now, action, deadline, joinAt, workerVars>>

Launch ==
    /\ caller = "launch"
    /\ caller' = "join"
    /\ joinAt' = now
    /\ worker' = "check"
    /\ UNCHANGED <<now, action, deadline, attempt, wake, box, verdict, started>>

Ambiguity(code) == IF action.ambiguous /\ code \in {"UNAVAILABLE", "TIMEOUT", "PROVIDER_ERROR"}
                   THEN "SIDE_EFFECT_UNKNOWN" ELSE code

\* The code for the outcome of the worker: a transport failure of an action
\* that is ambiguous on failure becomes SIDE_EFFECT_UNKNOWN.
Classify(ending) ==
    CASE ending = "ok" -> "OK"
      [] ending = "failed" -> "PROVIDER_ERROR"
      [] ending = "unsafe" -> "INTERNAL"
      [] ending \in Codes -> Ambiguity(ending)

JoinReturns ==
    /\ caller = "join" /\ worker = "ended"
    /\ Report(Classify(box))
    /\ UNCHANGED <<now, action, deadline, joinAt, workerVars>>

\* Mutants: a timeout that keeps its code; no timeout at all.
JoinTimesOut_PlainCode ==
    /\ caller = "join" /\ worker # "ended"
    /\ Budget > 0 /\ now >= joinAt + Budget
    /\ Report("TIMEOUT")
    /\ UNCHANGED <<now, action, deadline, joinAt, workerVars>>

JoinTimesOut ==
    /\ caller = "join" /\ worker # "ended"
    /\ Budget > 0 /\ now >= joinAt + Budget
    /\ Report(Classify("TIMEOUT"))
    /\ UNCHANGED <<now, action, deadline, joinAt, workerVars>>

-----------------------------------------------------------------------------
(* The worker: with_retry *)

Attempts == IF action.nonRetryable THEN 1 ELSE MaxAttempts

\* RetryPolicy.backoff_for.
Backoff(n) == LET delay == BaseBackoff * 2^(n - 1)
              IN  IF delay < MaxBackoff THEN delay ELSE MaxBackoff

End(how) == worker' = "ended" /\ box' = how

\* Mutant: the deadline is not looked at before an attempt.
Check_NoDeadline ==
    /\ worker = "check"
    /\ worker' = "begin"
    /\ UNCHANGED <<now, action, caller, deadline, joinAt, attempt, wake, box, verdict, started>>

\* The loop looks at the deadline before every attempt.
Check ==
    /\ worker = "check"
    /\ IF deadline # None /\ now >= deadline
       THEN End("TIMEOUT")
       ELSE worker' = "begin" /\ UNCHANGED box
    /\ UNCHANGED <<now, action, caller, deadline, joinAt, attempt, wake, verdict, started>>

\* The call itself; the thread may have been held up since.
StartAttempt ==
    /\ worker = "begin"
    /\ worker' = "call" /\ started' = started + 1
    /\ UNCHANGED <<now, action, caller, deadline, joinAt, attempt, wake, box, verdict>>

\* execute returns or raises: results and final errors end the loop, a
\* retryable error sleeps unless the backoff would pass the deadline.
AttemptEnds(ending) ==
    /\ worker = "call"
    /\ IF ending \notin RetryableCodes \/ attempt >= Attempts
       THEN End(ending) /\ UNCHANGED wake
       ELSE IF deadline # None /\ (now >= deadline \/ Backoff(attempt) > deadline - now)
       THEN End("TIMEOUT") /\ UNCHANGED wake
       ELSE worker' = "sleep" /\ wake' = now + Backoff(attempt) /\ UNCHANGED box
    /\ UNCHANGED <<now, action, caller, deadline, joinAt, attempt, verdict, started>>

Wake ==
    /\ worker = "sleep" /\ now >= wake
    /\ worker' = "check"
    /\ attempt' = attempt + 1
    /\ UNCHANGED <<now, action, caller, deadline, joinAt, wake, box, verdict, started>>

Tick ==
    /\ now < MaxTime
    /\ now' = now + 1
    /\ UNCHANGED <<action, caller, deadline, joinAt, workerVars, verdict>>

\* What the caller does by itself, whatever the provider does.
CallerStep == Enter \/ Validated("TIMEOUT") \/ Launch \/ JoinReturns \/ JoinTimesOut

Next ==
    \/ CallerStep
    \/ \E code \in {"OK", "VALIDATION", "UNAVAILABLE"} : Validated(code)
    \/ Check
    \/ StartAttempt
    \/ \E ending \in Endings : AttemptEnds(ending)
    \/ Wake
    \/ Tick

\* The caller's own steps and the clock; the provider may hang for ever.
Spec == Init /\ [][Next]_vars /\ WF_vars(CallerStep) /\ WF_vars(Tick)

-----------------------------------------------------------------------------
\* The abandoned worker decides on nothing new: once the caller has reported
\* an outcome (and a client may retry), no further attempt passes the check,
\* because the deadline the worker looks at is never later than the end of the
\* caller's own wait.  One call may still follow, the one already decided on.
NoAttemptAfterReport ==
    [][caller = "done" => ~ (worker = "check" /\ worker' = "begin")]_vars

\* The code reported for an ambiguous action tells the truth about what may
\* have happened: once execute was entered, neither a timeout nor an outage is
\* reported, since a caller may safely retry those.
AmbiguityReported ==
    verdict \in {"UNAVAILABLE", "TIMEOUT"} /\ action.ambiguous => started = 0

=============================================================================
