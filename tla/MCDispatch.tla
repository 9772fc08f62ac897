------------------------------ MODULE MCDispatch ------------------------------
(* What stands between a call and its provider, side by side: the deadline and *)
(* the attempts of a dispatch, the commands the browser provider hands to its  *)
(* worker, what providers do outside, and the circuit breaker as threads share *)
(* it.  One of the four, the focus, takes its steps while the others rest.     *)
EXTENDS Dispatch, BrowserWorker, Outbound, BreakerThreads

CONSTANTS c1, c2, t1, t2, p1, p2
VARIABLE focus

ProcessEach == [t \in Threads |-> IF t = t1 THEN p1 ELSE p2]
\* One thread on either database for as long as it takes to trip, probe and
\* trip again; two processes with a thread each on PostgreSQL.
Installations == [threads: {{t1}}, postgres: BOOLEAN, maxTime: {5}]
                 \cup [threads: {{t1, t2}}, postgres: {TRUE}, maxTime: {2}]

MCInit ==
    /\ focus \in {"dispatch", "browser", "outbound", "breaker"}
    /\ Init /\ (focus # "dispatch" => ~action.ambiguous /\ ~action.nonRetryable)
    /\ BrowserInit
    /\ OutboundInit /\ (focus # "outbound" => kind = "email")
    /\ ThreadsInit /\ (focus # "breaker" => ~deployment.postgres)
MCNext ==
    /\ UNCHANGED focus
    /\ \/ focus = "dispatch" /\ Next /\ UNCHANGED <<browserVars, outVars, threadsVars>>
       \/ focus = "browser" /\ BrowserNext /\ UNCHANGED <<vars, outVars, threadsVars>>
       \/ focus = "outbound" /\ OutboundNext /\ UNCHANGED <<vars, browserVars, threadsVars>>
       \/ focus = "breaker" /\ ThreadsNext /\ UNCHANGED <<vars, browserVars, outVars>>

\* The fairness of each component, for the one in focus.
MCFairness ==
    /\ WF_vars(focus = "dispatch" /\ CallerStep) /\ WF_vars(focus = "dispatch" /\ Tick)
    /\ \A c \in {c1, c2} : WF_browserVars(focus = "browser" /\ BrowserCallerStep(c))

MCSpec == MCInit /\ [][MCNext]_<<focus, vars, browserVars, outVars, threadsVars>> /\ MCFairness
=============================================================================
