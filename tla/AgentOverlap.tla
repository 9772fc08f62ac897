---------------------------- MODULE AgentOverlap ----------------------------
(***************************************************************************)
(* Two requests for one agent run.  AgentService.continue_run reads the    *)
(* row, resumes from it and writes it when its segment ends, without a     *)
(* lock or a claim: a second request that comes meanwhile resumes from the *)
(* same row, with a budget, tasks and a loop of its own.  Both see the     *)
(* same row and confirmation.                                              *)
(***************************************************************************)
EXTENDS Agent

VARIABLES phase2, task2, status2, attempt2, observed2, budget2, late2, replans2, outcome2

first == <<phase, memory, late>>
second == <<phase2, task2, status2, attempt2, observed2, budget2, late2, replans2, outcome2>>
overlapVars == <<agentVars, second>>

Second == INSTANCE Agent WITH phase <- phase2, task <- task2, status <- status2, attempt <- attempt2,
    observed <- observed2, budget <- budget2, late <- late2, replans <- replans2, outcome <- outcome2

\* The second request has not come yet.
OverlapInit ==
    /\ AgentInit
    /\ phase2 = "idle" /\ task2 = task /\ status2 = status /\ attempt2 = attempt /\ observed2 = observed
    /\ budget2 = budget /\ late2 = late /\ replans2 = replans /\ outcome2 = outcome

\* The thread of the second request: continue_run and what follows.
SecondContinues == Second!ContinueRun /\ UNCHANGED first
SecondRuns == (Second!LoopStep \/ Second!TimeIsUp \/ Second!ProcessStops) /\ UNCHANGED first

OverlapNext ==
    \/ AgentNext /\ UNCHANGED second
    \/ SecondContinues \/ SecondRuns

OverlapSpec == OverlapInit /\ [][OverlapNext]_overlapVars

-----------------------------------------------------------------------------
\* "hard budget caps (iterations, tool calls ...)": what both requests together
\* call stays within the cap of the run, but for lost segments.
CapsHoldTogether == made <= MaxTools * (1 + lost)
=============================================================================
