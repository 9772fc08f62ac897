------------------------------ MODULE MCRuntime ------------------------------
(* The long-running parts side by side: the workflow engine, the election of *)
(* the scheduler, the agent loop and the sessions of the browser.  One of    *)
(* them, the focus, takes its steps; the others rest.                        *)
EXTENDS MCWorkflow, SchedulerLeader, Agent, BrowserRefs

CONSTANTS d1, t1, t2, t3, t4
VARIABLE focus

\* Two agent tasks; t3 writes again what t1 wrote, and t4 verifies it.  The
\* plans: no dependencies, a chain, and a task that waits for itself.
MCPlan == <<t1, t2, t3, t4>>
MCRepair == [t \in {t1, t2, t3, t4} |-> IF t = t1 THEN {t3, t4} ELSE {}]
MCShapes == {[t \in {t1, t2, t3, t4} |-> IF t = t2 THEN deps ELSE IF t = t4 THEN {t3} ELSE {}]
                : deps \in {{}, {t1}, {t2}}}

MCInit ==
    /\ focus \in {"workflow", "leader", "agent", "browser"}
    /\ LeaderInit
    /\ Init /\ (focus = "workflow" <=> def.block # {})
    /\ AgentInit /\ (focus # "agent" => dependsOn[t2] = {})
    /\ RefsInit /\ (focus # "browser" => engine = "simulated")

MCNext ==
    /\ UNCHANGED focus
    /\ \/ focus = "workflow" /\ Next /\ UNCHANGED <<leaderVars, agentVars, refVars>>
       \/ focus = "leader" /\ LeaderNext /\ UNCHANGED <<vars, agentVars, refVars>>
       \/ focus = "agent" /\ AgentNext /\ UNCHANGED <<vars, leaderVars, refVars>>
       \/ focus = "browser" /\ RefsNext /\ UNCHANGED <<vars, leaderVars, agentVars>>

\* The fairness of the engine and of the loop, for the one in focus.
MCFairness ==
    /\ WF_vars(focus = "workflow" /\ DriverStep(d1)) /\ WF_vars(focus = "workflow" /\ TimePasses(d1))
    /\ WF_agentVars(focus = "agent" /\ LoopStep)

MCSpec == MCInit /\ [][MCNext]_<<focus, vars, leaderVars, agentVars, refVars>> /\ MCFairness
=============================================================================
