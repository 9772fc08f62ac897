----------------------------- MODULE MCRecords -----------------------------
(* What threads write to tables under locks and in queues, side by side: the  *)
(* audit chain and the jobs.  One of the two, the focus, takes its steps      *)
(* while the other rests.                                                     *)
EXTENDS AuditChain, Jobs

CONSTANTS t1, t2, t3, p1, p2
VARIABLE focus

\* t1 and t2 share a process, t3 has its own.
Homes == [t \in Threads |-> IF t = t3 THEN p2 ELSE p1]
\* One server for all clients and workers.
OneServer == [x \in Clients \cup Workers |-> p1]

MCInit ==
    /\ focus \in {"audit", "jobs"}
    /\ ChainInit /\ (focus # "audit" => postgres)
    /\ JobsInit
MCNext ==
    /\ UNCHANGED focus
    /\ \/ focus = "audit" /\ ChainNext /\ UNCHANGED jobsVars
       \/ focus = "jobs" /\ JobsNext /\ UNCHANGED chainVars

\* The fairness of each component, for the one in focus.
MCFairness ==
    /\ \A t \in Threads : WF_chainVars(focus = "audit" /\ Step(t))
    /\ \A c \in Clients : WF_jobsVars(focus = "jobs" /\ SubmitStep(c))
    /\ \A w \in Workers : WF_jobsVars(focus = "jobs" /\ Take(w)) /\ WF_jobsVars(focus = "jobs" /\ Run(w))
    /\ \A p \in Servers :
          /\ WF_jobsVars(focus = "jobs" /\ Start(p)) /\ WF_jobsVars(focus = "jobs" /\ Exit(p))
          /\ SF_jobsVars(focus = "jobs" /\ Recover(p))

MCSpec == MCInit /\ [][MCNext]_<<focus, chainVars, jobsVars>> /\ MCFairness
=============================================================================
