-------------------------------- MODULE Agent --------------------------------
(***************************************************************************)
(* One agent run: AgentLoop drives the tasks of a plan in segments, one    *)
(* from the start and one after every pause for a confirmation; the run's  *)
(* row is written when a segment ends, and a process that stops before     *)
(* that loses the segment.  One request drives the run at a time; module   *)
(* AgentOverlap has two.                                                   *)
(***************************************************************************)
EXTENDS Integers, Sequences, FiniteSets

CONSTANTS
    PlanTasks,        \* task ids in the order of the plan, repair tasks last
    Repair,           \* the repair and reverify tasks of a task (fs.write), else none
    Shapes,           \* plans: depends_on per task, cycles included
    Optional,         \* tasks with required = False
    OnceOnly,         \* tasks whose action is non_retryable
    MaxAttempts,      \* max_attempts of a task
    MaxIterations, MaxTools,   \* caps of AgentBudget
    MaxReplans,
    MaxLost,          \* bound on stops of the process
    NoRow

ASSUME AgentAssumption ==
    MaxAttempts \in Nat /\ MaxIterations \in Nat /\ MaxTools \in Nat /\ MaxReplans \in Nat /\ MaxLost \in Nat

Tasks == {PlanTasks[i] : i \in 1..Len(PlanTasks)}
Planned == Tasks \ UNION {Repair[t] : t \in Tasks}

VARIABLES
    dependsOn,     \* the plan
    phase,         \* "new", "idle", "pick", "propose", "call", "verify", "persist"
    task,          \* the task in hand
    status, attempt,   \* TaskManager
    observed,      \* status of the last observation
    budget,        \* iterations and tool calls counted
    late,          \* timeout_seconds of the segment are over
    replans,
    outcome,       \* RunStatus of the segment that ended
    row,           \* agent_runs: NoRow or what _persist wrote
    approval,      \* the confirmation waited for
    said,          \* its first terminal entry in the audit log
    made, lost     \* history: tool calls, lost segments

agentVars == <<dependsOn, phase, task, status, attempt, observed, budget, late, replans, outcome,
               row, approval, said, made, lost>>
memory == <<task, status, attempt, observed, budget, replans, outcome>>
history == <<made, lost>>

Fresh == [iterations |-> 0, tools |-> 0]

AgentInit ==
    /\ dependsOn \in Shapes
    /\ phase = "new"
    /\ task = PlanTasks[1]
    /\ status = [t \in Tasks |-> IF t \in Planned THEN "pending" ELSE "absent"]
    /\ attempt = [t \in Tasks |-> 0]
    /\ observed = "none"
    /\ budget = Fresh /\ late = FALSE /\ replans = 0
    /\ outcome = "running"
    /\ row = NoRow
    /\ approval = "none" /\ said = "none"
    /\ made = 0 /\ lost = 0

\* AgentBudget.check
OverBudget == late \/ budget.iterations > MaxIterations \/ budget.tools > MaxTools

Pending == {t \in Tasks : status[t] = "pending"}
Completed(d) == d \in Tasks /\ status[d] = "completed"
\* next_ready, blocked_pending
ReadyTasks == {t \in Pending : \A d \in dependsOn[t] : Completed(d)}
Next_ready == CHOOSE t \in ReadyTasks : \E i \in 1..Len(PlanTasks) :
                  PlanTasks[i] = t /\ \A j \in 1..(i - 1) : PlanTasks[j] \notin ReadyTasks
Blocked == {t \in Pending : \E d \in dependsOn[t] : d \notin Tasks \/ status[d] \in {"failed", "skipped", "absent"}}

\* _final: the status of the segment.
Final(forced, final) ==
    IF forced = "budget_exceeded" THEN forced
    ELSE IF forced = "waiting_for_user" \/ \E t \in Tasks : final[t] = "waiting" THEN "waiting_for_user"
    ELSE IF \E t \in Tasks \ Optional : final[t] \in {"failed", "skipped"} THEN "failed"
    ELSE "completed"

EndSegment(forced) ==
    /\ outcome' = Final(forced, status')
    /\ phase' = "persist"

\* start_run
StartRun ==
    /\ phase = "new"
    /\ phase' = "pick"
    /\ UNCHANGED <<dependsOn, memory, late, row, approval, said, history>>

\* The head of the loop: the budget gate, a ready task, tasks that can never be
\* ready, or the end.
StopOverBudget ==
    /\ phase = "pick" /\ OverBudget
    /\ EndSegment("budget_exceeded")
    /\ UNCHANGED <<dependsOn, task, status, attempt, observed, budget, late, replans, row, approval, said, history>>

PickTask ==
    /\ phase = "pick" /\ ~OverBudget /\ ReadyTasks # {}
    /\ task' = Next_ready
    /\ status' = [status EXCEPT ![Next_ready] = "running"]
    /\ budget' = [budget EXCEPT !.iterations = @ + 1]
    /\ phase' = "propose"
    /\ UNCHANGED <<dependsOn, attempt, observed, late, replans, outcome, row, approval, said, history>>

\* Mutant: only tasks with a failed dependency are skipped.
Unreachable_BlockedOnly == Blocked

\* Tasks the loop gives up: blocked ones first, then all that are left.
Unreachable == IF Blocked # {} THEN Blocked ELSE Pending

SkipTasks ==
    /\ phase = "pick" /\ ~OverBudget /\ ReadyTasks = {} /\ Pending # {}
    /\ status' = [t \in Tasks |-> IF t \in Unreachable THEN "skipped" ELSE status[t]]
    /\ UNCHANGED <<dependsOn, phase, task, attempt, observed, budget, late, replans, outcome, row, approval, said, history>>

FinishTasks ==
    /\ phase = "pick" /\ ~OverBudget /\ Pending = {}
    /\ status' = status
    /\ EndSegment("completed")
    /\ UNCHANGED <<dependsOn, task, attempt, observed, budget, late, replans, row, approval, said, history>>

\* retry_allowed and retry; the task goes back to pending.
RetryTask ==
    /\ attempt' = [attempt EXCEPT ![task] = @ + 1]
    /\ status' = [status EXCEPT ![task] = "pending"]

FailTask == status' = [status EXCEPT ![task] = "failed"] /\ UNCHANGED attempt

\* prepare or propose_tool_calls raises: _settle_failure.
PrepareFails ==
    /\ phase = "propose"
    /\ IF attempt[task] + 1 < MaxAttempts THEN RetryTask ELSE FailTask
    /\ phase' = "pick"
    /\ UNCHANGED <<dependsOn, task, observed, budget, late, replans, outcome, row, approval, said, history>>

\* No call proposed, or _gate_reject.
GateRejects ==
    /\ phase = "propose"
    /\ FailTask
    /\ phase' = "pick"
    /\ UNCHANGED <<dependsOn, task, observed, budget, late, replans, outcome, row, approval, said, history>>

\* The brain proposed calls and the gate lets them pass.
ProposeCalls ==
    /\ phase = "propose"
    /\ phase' = "call"
    /\ observed' = "none"
    /\ UNCHANGED <<dependsOn, task, status, attempt, budget, late, replans, outcome, row, approval, said, history>>

\* can_tool_call
CallRefused == budget.tools >= MaxTools \/ OverBudget

StopAtToolCap ==
    /\ phase = "call" /\ CallRefused
    /\ status' = status
    /\ EndSegment("budget_exceeded")
    /\ UNCHANGED <<dependsOn, task, attempt, observed, budget, late, replans, row, approval, said, history>>

\* record_tool_call and the request.
SendCall ==
    /\ phase = "call" /\ ~CallRefused
    /\ budget' = [budget EXCEPT !.tools = @ + 1]
    /\ made' = made + 1
    /\ UNCHANGED <<dependsOn, task, late, replans, row, lost>>

\* What a response is to the loop: an observation with a status.
Observations == {"executed", "failed"}

\* A call that comes back, or is approved on the spot by the operator's hook;
\* after one that executed the next proposed call follows, if there is one.
CallTool ==
    /\ SendCall
    /\ observed' \in Observations
    /\ phase' \in IF observed' = "executed" THEN {"call", "verify"} ELSE {"verify"}
    /\ UNCHANGED <<status, attempt, outcome, approval, said>>

\* The call needs a confirmation and nobody is there: pause_for_user.
PauseForUser ==
    /\ SendCall
    /\ status' = [status EXCEPT ![task] = "waiting"]
    /\ EndSegment("waiting_for_user")
    /\ approval' = "pending" /\ said' = "none"
    /\ UNCHANGED <<attempt, observed>>

\* The operator's hook denies.
OperatorDenies ==
    /\ SendCall
    /\ FailTask
    /\ phase' = "pick"
    /\ UNCHANGED <<observed, outcome, approval, said>>

\* The verifier is satisfied.  Its file checks look at the workspace, not at the
\* observation, so a call that failed may verify too.
VerifyOk ==
    /\ phase = "verify"
    /\ status' = [status EXCEPT ![task] = "completed"]
    /\ phase' = "pick"
    /\ UNCHANGED <<dependsOn, task, attempt, observed, budget, late, replans, outcome, row, approval, said, history>>

\* retry_allowed and _automatic_retry_allowed
RetryAllowed == attempt[task] + 1 < MaxAttempts /\ task \notin OnceOnly

\* planner.repair: a file is written and read again by tasks of their own; a
\* second time there is no repair.
Repairs(t) == {u \in Repair[t] : status[u] = "absent"}

\* The verifier is not satisfied: retry, or fail and plan a repair once.
VerifyFails ==
    /\ phase = "verify"
    /\ IF RetryAllowed
       THEN RetryTask /\ UNCHANGED replans
       ELSE IF replans < MaxReplans /\ Repairs(task) # {}
       THEN /\ status' = [t \in Tasks |-> IF t \in Repairs(task) THEN "pending"
                                          ELSE IF t = task THEN "failed" ELSE status[t]]
            /\ replans' = replans + 1
            /\ UNCHANGED attempt
       ELSE FailTask /\ UNCHANGED replans
    /\ phase' = "pick"
    /\ UNCHANGED <<dependsOn, task, observed, budget, late, outcome, row, approval, said, history>>

\* _persist
PersistRun ==
    /\ phase = "persist"
    /\ row' = [outcome |-> outcome, status |-> status, attempt |-> attempt, budget |-> budget]
    /\ phase' = "idle"
    /\ UNCHANGED <<dependsOn, memory, late, approval, said, history>>

\* The wall clock of the segment.
TimeIsUp ==
    /\ phase \in {"pick", "propose", "call", "verify"} /\ ~late
    /\ late' = TRUE
    /\ UNCHANGED <<dependsOn, phase, memory, row, approval, said, history>>

\* The process stops and the segment is lost.
ProcessStops ==
    /\ phase \in {"pick", "propose", "call", "verify", "persist"} /\ lost < MaxLost
    /\ phase' = "idle"
    /\ lost' = lost + 1
    /\ UNCHANGED <<dependsOn, memory, late, row, approval, said, made>>

\* What becomes of the confirmation (ExecutionService): used and then executed or
\* failed, or refused; and a second resolution of it is written down as one that
\* was rejected, also while the first is still being executed.  Two approves that
\* both found it PENDING both run the action: approval says whether one executed.
\* (A status that a late writer overwrites does not show: an entry comes with it,
\* and the first one counts.)
UseApproval == approval = "pending" /\ approval' = "used" /\ UNCHANGED said
ApprovedRuns ==
    /\ approval \in {"used", "failed", "executed"}
    /\ \E result \in {"executed", "failed"} :
         /\ approval' = IF approval = "executed" THEN approval ELSE result
         /\ said' = IF said = "none" THEN result ELSE said
RefuseApproval == approval = "pending" /\ approval' = "refused" /\ said' = "failed"
ResolvedAgain == approval \in {"used", "executed", "failed", "refused"} /\ said = "none" /\ said' = "failed" /\ UNCHANGED approval

Confirmation ==
    /\ UseApproval \/ ApprovedRuns \/ RefuseApproval \/ ResolvedAgain
    /\ UNCHANGED <<dependsOn, phase, memory, late, row, history>>

\* Mutant: a used confirmation counts as executed.
ResolveOne_Used == IF said # "none" THEN said ELSE IF approval = "used" THEN "executed" ELSE "none"

\* _resolve_one: the first terminal entry, then the confirmation's status.
ResolveOne == IF said # "none" THEN said ELSE IF approval = "used" THEN "failed" ELSE "none"

\* Mutant: the counters start afresh.
Restore_Fresh == Fresh

\* AgentBudget.restore, from what the row recorded.
Restore == row.budget

\* AgentLoop.resume: the task that waited is completed or failed.
Resumed(t) ==
    IF row.status[t] # "waiting" THEN row.status[t]
    ELSE IF ResolveOne = "executed" THEN "completed" ELSE "failed"

\* continue_run, for a thread that is free.
ContinueRun ==
    /\ phase = "idle" /\ row # NoRow /\ row.outcome = "waiting_for_user"
    /\ ResolveOne # "none"
    /\ status' = [t \in Tasks |-> Resumed(t)]
    /\ attempt' = row.attempt
    /\ budget' = Restore
    /\ late' = FALSE /\ replans' = 0 /\ observed' = "none"
    /\ phase' = "pick"
    /\ UNCHANGED <<dependsOn, task, outcome, row, approval, said, history>>

LoopStep ==
    \/ StopOverBudget \/ PickTask \/ SkipTasks \/ FinishTasks
    \/ PrepareFails \/ GateRejects \/ ProposeCalls
    \/ StopAtToolCap \/ CallTool \/ PauseForUser \/ OperatorDenies
    \/ VerifyOk \/ VerifyFails \/ PersistRun

AgentNext == StartRun \/ LoopStep \/ TimeIsUp \/ ProcessStops \/ Confirmation \/ ContinueRun

AgentSpec == AgentInit /\ [][AgentNext]_agentVars

-----------------------------------------------------------------------------
\* The caps hold for the run and not for a segment, while one request drives it
\* at a time (two that overlap start from the same counters: AgentOverlap): with
\* every pause and resume counted, no more tools are called than the cap allows, but for what a lost
\* segment had called; and one iteration more than its cap is the most.
CapsHold ==
    /\ made <= MaxTools * (1 + lost)
    /\ budget.iterations <= MaxIterations + 1

\* A task that waited for a confirmation is completed only if the action was
\* executed: the run never takes an approval for its outcome.
ApprovalBelieved ==
    [][phase = "idle" /\ phase' = "pick"
         => \A t \in Tasks : row.status[t] = "waiting" /\ status'[t] = "completed" => approval = "executed"]_agentVars

\* A segment that runs comes to its end: plans with cycles, failing tools and
\* repairs included.
SegmentEnds == (phase \notin {"new", "idle"}) ~> (phase = "idle")
=============================================================================
