----------------------------- MODULE MCSchedules ------------------------------
(* What starts work when its time comes, side by side: the scheduler of       *)
(* recurring jobs, the calculation of the next cron run, and the schedules    *)
(* and the admission of workflows.  One of the three, the focus, takes its    *)
(* steps while the others rest.                                               *)
EXTENDS Schedules, MCCron, WorkflowOps

VARIABLE focus

MCInit ==
    /\ focus \in {"scheduler", "cron", "workflows"}
    /\ SchedInit /\ CronInit /\ OpsInit
MCNext ==
    /\ UNCHANGED focus
    /\ \/ focus = "scheduler" /\ SchedNext /\ UNCHANGED <<cronVars, opsVars>>
       \/ focus = "cron" /\ CronNext /\ UNCHANGED <<schedVars, opsVars>>
       \/ focus = "workflows" /\ OpsNext /\ UNCHANGED <<schedVars, cronVars>>

\* The fairness of the scheduler, where it is the focus.
MCFairness ==
    \A p \in Processes :
        /\ WF_schedVars(focus = "scheduler" /\ Work(p))
        /\ SF_schedVars(focus = "scheduler" /\ Submit(p)) /\ SF_schedVars(focus = "scheduler" /\ Advance(p))

MCSpec == MCInit /\ [][MCNext]_<<focus, schedVars, cronVars, opsVars>> /\ MCFairness
=============================================================================
