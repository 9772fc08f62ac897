------------------------------- MODULE Workflow -------------------------------
(***************************************************************************)
(* The workflow engine: one durable run, driven by the calls start/resume, *)
(* cancel and resolve_ambiguous of WorkflowService.  A driver is one call; *)
(* a step is executed by a worker (a pool thread in a parallel batch, the  *)
(* driver itself otherwise).  Only the run row, the step rows, the         *)
(* confirmations and the admission counter survive a crash.  The run       *)
(* object of a driver is detached between transactions: persisting it      *)
(* writes the columns that differ from what it last loaded or wrote.       *)
(***************************************************************************)
EXTENDS Integers, FiniteSetsExt

CONSTANTS
    Drivers,       \* calls that can be in progress at once
    Steps,         \* step indices, an interval of the integers
    Definitions,   \* workflow definitions to run
    MaxPending,    \* workflow_max_pending_confirmations
    StepBudget,    \* workflow_max_steps_per_run
    MaxApproves,   \* bound on the approves of a run's confirmations
    MaxCur,        \* bound on current_step, which every "continue" increments
    MaxExtra       \* releases past the first that are told apart

Definition == [deps: [Steps -> SUBSET Steps], cond: SUBSET Steps, skip: SUBSET Steps,
               block: SUBSET Steps, cap: Nat]

ASSUME WorkflowAssumption ==
    /\ Steps \subseteq Nat /\ Definitions \subseteq Definition
    /\ MaxPending \in Nat \ {0} /\ StepBudget \in Nat \ {0}
    /\ MaxApproves \in Nat /\ MaxCur \in Nat /\ MaxExtra \in Nat

VARIABLES
    def,        \* the definition the run was started with
    known,      \* the process still has that definition (inline ones die with it)
    run,        \* row: status, current_step
    steps,      \* rows: status of every step
    conf,       \* confirmation of every step, and the approves of it in progress
    used,       \* step budget claimed by the run
    slots,      \* admission slots the run holds: claims less releases
    eng,        \* per driver: where _advance is, its run object, its deadline
    work,       \* per driver and step: where _execute_step is
    effects     \* provider calls made for every step (history)

vars == <<def, known, run, steps, conf, used, slots, eng, work, effects>>

Open == {"PENDING", "RUNNING", "WAITING", "AMBIGUOUS"}
Ended == {"COMPLETED", "FAILED", "CANCELLED"}
\* DENIED: FAILED with no error_code.  SKIPPED: skipped, skipped_conditional.
Results == {"COMPLETED", "SKIPPED", "WAITING", "AMBIGUOUS", "FAILED", "DENIED"}
Settled == Results \ {"WAITING"}

\* A confirmation: its status, its last terminal entry in the audit log, how many
\* approves have read it PENDING, are about to call the provider, or to record
\* the outcome; and how many were let through (history).
Confirmations == [status: {"none", "PENDING", "USED", "DENIED", "EXPIRED"}, last: {"none", "EXECUTED", "FAILED"},
                  reading: Nat, calling: Nat, recording: Nat, approved: Nat]
NoConfirmation == [status |-> "none", last |-> "none", reading |-> 0, calling |-> 0, recording |-> 0, approved |-> 0]

TypeOK ==
    /\ def \in Definitions /\ known \in BOOLEAN
    /\ run \in [status: Open \cup Ended, cur: Nat]
    /\ steps \in [Steps -> Results \cup {"PENDING", "RUNNING"}]
    /\ conf \in [Steps -> Confirmations]
    /\ used \in 0..StepBudget /\ slots \in Int
    /\ eng \in [Drivers -> [pc: {"idle", "look", "work", "refresh", "release"},
                            mem: Open \cup Ended, late: BOOLEAN, allowed: BOOLEAN, batch: SUBSET Steps]]
    /\ work \in [Drivers -> [Steps -> Results \cup {"off", "begin", "claim", "call", "release"}]]
    /\ effects \in [Steps -> Nat]

Off == [s \in Steps |-> "off"]
Idle == [pc |-> "idle", mem |-> "PENDING", late |-> FALSE, allowed |-> TRUE, batch |-> {}]

\* _create_step_rows.
CreateStepRows == [s \in Steps |-> "PENDING"]

\* start: the definition passed validate_workflow_definition, the slots are
\* claimed, and the run row and its step rows are created in one transaction.
Init ==
    /\ def \in Definitions
    /\ known = TRUE
    /\ run = [status |-> "PENDING", cur |-> Min(Steps)]
    /\ steps = CreateStepRows
    /\ conf = [s \in Steps |-> NoConfirmation]
    /\ used = 0
    /\ slots = 1
    /\ eng = [d \in Drivers |-> Idle]
    /\ work = [d \in Drivers |-> Off]
    /\ effects = [s \in Steps |-> 0]

-----------------------------------------------------------------------------
(* Writing the run row *)

Goto(d, pc) == eng' = [eng EXCEPT ![d].pc = pc]

\* Where current_step is moved once a step is settled: the first one open.
NextOpen == LET left == {s \in Steps : steps[s] \in {"PENDING", "RUNNING"}}
            IN  IF left = {} THEN Max(Steps) + 1 ELSE Min(left)

\* _persist_run of the driver's run object, its status set to st.
Persist(d, st, pc) ==
    /\ run' = [run EXCEPT !.status = IF st = eng[d].mem THEN @ ELSE st]
    /\ eng' = [eng EXCEPT ![d].mem = st, ![d].pc = pc]

\* _set_run_failed: the release follows in a transaction of its own.
SetRunFailed(d) == Persist(d, "FAILED", "release")

\* _release_governance, then the call returns.
Release(d) ==
    /\ eng[d].pc = "release"
    /\ slots' = slots - 1
    /\ Goto(d, "idle")
    /\ UNCHANGED <<def, known, run, steps, conf, used, work, effects>>

-----------------------------------------------------------------------------
(* The calls *)

\* start's first _advance, or resume.  The role of the caller may have changed
\* since the start.  A definition the process no longer has fails the run.
Resume(d, allowed) ==
    /\ eng[d].pc = "idle" /\ run.status \in {"PENDING", "RUNNING", "WAITING"}
    /\ IF known
       THEN eng' = [eng EXCEPT ![d] = [Idle EXCEPT !.pc = "look", !.mem = run.status, !.allowed = allowed]]
            /\ UNCHANGED run
       ELSE /\ run' = [run EXCEPT !.status = "FAILED"]
            /\ eng' = [eng EXCEPT ![d] = [Idle EXCEPT !.pc = "release", !.mem = "FAILED"]]
    /\ UNCHANGED <<def, known, steps, conf, used, slots, work, effects>>

\* cancel, and resolve_ambiguous with "abort".
Cancel(d) ==
    /\ eng[d].pc = "idle" /\ run.status \in Open
    /\ run' = [run EXCEPT !.status = "CANCELLED"]
    /\ eng' = [eng EXCEPT ![d] = [Idle EXCEPT !.pc = "release", !.mem = "CANCELLED"]]
    /\ UNCHANGED <<def, known, steps, conf, used, slots, work, effects>>

\* resolve_ambiguous with "continue": the current step is taken as done, never
\* run again, and the engine goes on with every step allowed.
ResolveContinue(d) ==
    /\ eng[d].pc = "idle" /\ run.status = "AMBIGUOUS" /\ run.cur < MaxCur
    /\ steps' = IF run.cur \in Steps /\ steps[run.cur] = "AMBIGUOUS"
                THEN [steps EXCEPT ![run.cur] = "COMPLETED"] ELSE steps
    /\ run' = [status |-> IF known THEN "RUNNING" ELSE "FAILED", cur |-> run.cur + 1]
    /\ eng' = [eng EXCEPT ![d] = IF known THEN [Idle EXCEPT !.pc = "look", !.mem = "RUNNING"]
                                 ELSE [Idle EXCEPT !.pc = "release", !.mem = "FAILED"]]
    /\ UNCHANGED <<def, known, conf, used, slots, work, effects>>

-----------------------------------------------------------------------------
(* The loop of _advance *)

Waiting == {s \in Steps : steps[s] = "WAITING"}
Ambiguous == \E s \in Steps : steps[s] = "AMBIGUOUS"

\* Mutant: the steps a crash left RUNNING are ready again.
Ready_Running == {s \in Steps : /\ steps[s] \in {"PENDING", "RUNNING"}
                                /\ \A t \in def.deps[s] : steps[t] \in {"COMPLETED", "SKIPPED"}}

\* _ready_indices.
Ready == {s \in Steps : /\ steps[s] = "PENDING"
                        /\ \A t \in def.deps[s] : steps[t] \in {"COMPLETED", "SKIPPED"}}

\* _choose_batch: the ready steps of a parallel block up to its bounds, else
\* the first ready step.
Batch ==
    LET group == Ready \cap def.block
        bound == Min({def.cap, MaxPending})
    IN  IF def.cap > 1 /\ Cardinality(group) > 1
        THEN {s \in group : Cardinality({t \in group : t < s}) < bound}
        ELSE {Min(Ready)}

\* _handle_waiting_step; holds: the post-condition still does.
Verdict(s, holds) ==
    CASE conf[s].status = "PENDING" -> "still_waiting"
      [] conf[s].status = "USED" /\ conf[s].last = "EXECUTED" /\ holds -> "next"
      [] conf[s].status = "DENIED" /\ s \in def.skip -> "denied_skip"
      [] conf[s].status = "DENIED" /\ s \notin def.skip -> "denied_stop"
      [] OTHER -> "failed"       \* expired, failed, no outcome recorded yet

\* _revalidate_post_condition: the page is inspected again, and the executed
\* steps' expectations still hold there or not.
StillHold == SUBSET Waiting

\* Waiting steps come first, in order, up to the first that stops the run.
\* denied_stop returns without touching the run.
HandleWaiting(d) == \E good \in StillHold :
    LET verdict == [s \in Waiting |-> Verdict(s, s \in good)]
        stops   == {s \in Waiting : verdict[s] \in {"failed", "denied_stop"}}
        seen    == {s \in Waiting : \A t \in stops : s < t}
        moved   == {s \in seen : verdict[s] # "still_waiting"}
    IN  /\ steps' = [s \in Steps |-> IF s \notin moved THEN steps[s]
                                     ELSE IF verdict[s] = "next" THEN "COMPLETED" ELSE "SKIPPED"]
        /\ CASE stops # {} /\ verdict[Min(stops)] = "failed" -> SetRunFailed(d)
             [] stops # {} /\ verdict[Min(stops)] = "denied_stop" -> Goto(d, "idle") /\ UNCHANGED run
             [] stops = {} /\ moved # {} -> UNCHANGED <<run, eng>>
             [] stops = {} /\ moved = {} -> Persist(d, "WAITING", "idle")
        /\ UNCHANGED <<used, work>>

\* _refresh_run_status: an unknown outcome settles the run, and so does a
\* failure once nothing is pending.
RefreshRunStatus(d) ==
    IF Ambiguous THEN Persist(d, "AMBIGUOUS", "idle")
    ELSE /\ \E s \in Steps : steps[s] = "FAILED"
         /\ \A s \in Steps : steps[s] # "PENDING"
         /\ SetRunFailed(d)

\* Mutant: only an unknown outcome settles the run.
Refreshes_AmbiguousOnly == Ambiguous

Refreshes == Ambiguous \/ ((\E s \in Steps : steps[s] = "FAILED") /\ \A s \in Steps : steps[s] # "PENDING")

\* Nothing is ready: the run is complete, or the call returns as it is.
NothingReady(d) ==
    /\ IF \A s \in Steps : steps[s] \in Settled
       THEN /\ run' = [status |-> "COMPLETED", cur |-> Max(Steps) + 1]
            /\ eng' = [eng EXCEPT ![d].mem = "COMPLETED", ![d].pc = "release"]
       ELSE Goto(d, "idle") /\ UNCHANGED run
    /\ UNCHANGED <<steps, used, work>>

\* _execute_parallel_batch claims the budget of the whole batch first (and each
\* step claims its own again); a breach fails the run and the loop goes on.
BeginBatch(d) ==
    LET fits == used + Cardinality(Batch) <= StepBudget
    IN  /\ used' = IF fits THEN used + Cardinality(Batch) ELSE StepBudget
        /\ IF fits
           THEN /\ run' = [run EXCEPT !.cur = Max(Batch)]
                /\ eng' = [eng EXCEPT ![d].pc = "work", ![d].batch = Batch]
                /\ work' = [work EXCEPT ![d] = [s \in Steps |-> IF s \in Batch THEN "begin" ELSE "off"]]
                /\ UNCHANGED slots
           ELSE /\ run' = [run EXCEPT !.status = IF eng[d].mem = "FAILED" THEN @ ELSE "FAILED"]
                /\ eng' = [eng EXCEPT ![d].mem = "FAILED", ![d].pc = "refresh"]
                /\ slots' = Max({slots - 1, -MaxExtra})
                /\ UNCHANGED work
        /\ UNCHANGED steps

\* _evaluate_condition, over the receipts of earlier steps: one that cannot be
\* evaluated does not skip the step.
ConditionFalse(s) == s \in def.cond

\* One step: the run object is loaded again and written RUNNING.
BeginSingle(d) ==
    LET s == Min(Batch)
    IN  \/ /\ ~eng[d].allowed
           /\ run' = [status |-> "FAILED", cur |-> s]
           /\ eng' = [eng EXCEPT ![d].mem = "FAILED", ![d].pc = "release"]
           /\ UNCHANGED <<steps, work>>
        \/ /\ eng[d].allowed
           /\ run' = [status |-> "RUNNING", cur |-> s]
           /\ \/ /\ ConditionFalse(s)
                 /\ steps' = [steps EXCEPT ![s] = "SKIPPED"]
                 /\ eng' = [eng EXCEPT ![d].mem = "RUNNING"]
                 /\ UNCHANGED work
              \/ /\ eng' = [eng EXCEPT ![d].mem = "RUNNING", ![d].pc = "work", ![d].batch = {s}]
                 /\ work' = [work EXCEPT ![d][s] = "begin"]
                 /\ UNCHANGED steps

\* Mutant: no wall-clock budget.
Look_NoDeadline(d) ==
    /\ eng[d].pc = "look"
    /\ CASE Waiting # {} -> HandleWaiting(d) /\ UNCHANGED slots
         [] Waiting = {} /\ Refreshes -> RefreshRunStatus(d) /\ UNCHANGED <<steps, used, work, slots>>
         [] Waiting = {} /\ ~Refreshes /\ Ready = {} -> NothingReady(d) /\ UNCHANGED slots
         [] Waiting = {} /\ ~Refreshes /\ Ready # {} ->
              IF Cardinality(Batch) > 1 THEN BeginBatch(d) ELSE BeginSingle(d) /\ UNCHANGED <<used, slots>>
    /\ UNCHANGED <<def, known, conf, effects>>

\* One turn of the loop.
Look(d) ==
    /\ eng[d].pc = "look"
    /\ CASE eng[d].late -> SetRunFailed(d) /\ UNCHANGED <<steps, used, work, slots>>
         [] ~eng[d].late /\ Waiting # {} -> HandleWaiting(d) /\ UNCHANGED slots
         [] ~eng[d].late /\ Waiting = {} /\ Refreshes ->
              RefreshRunStatus(d) /\ UNCHANGED <<steps, used, work, slots>>
         [] ~eng[d].late /\ Waiting = {} /\ ~Refreshes /\ Ready = {} -> NothingReady(d) /\ UNCHANGED slots
         [] ~eng[d].late /\ Waiting = {} /\ ~Refreshes /\ Ready # {} ->
              IF Cardinality(Batch) > 1 THEN BeginBatch(d) ELSE BeginSingle(d) /\ UNCHANGED <<used, slots>>
    /\ UNCHANGED <<def, known, conf, effects>>

\* After a batch the rows are read again and settle the run or not.
AfterBatch(d) ==
    /\ eng[d].pc = "refresh"
    /\ IF Refreshes THEN RefreshRunStatus(d) ELSE Goto(d, "look") /\ UNCHANGED run
    /\ UNCHANGED <<def, known, steps, conf, used, slots, work, effects>>

-----------------------------------------------------------------------------
(* _execute_step *)

\* The row is marked RUNNING in a transaction of its own.
MarkRunning(d, s) ==
    /\ work[d][s] = "begin"
    /\ steps' = [steps EXCEPT ![s] = "RUNNING"]
    /\ work' = [work EXCEPT ![d][s] = "claim"]
    /\ UNCHANGED <<def, known, run, conf, used, slots, eng, effects>>

\* claim_step_budget; a breach fails the run before the step.
ClaimBudget(d, s) ==
    /\ work[d][s] = "claim"
    /\ IF used < StepBudget
       THEN /\ used' = used + 1
            /\ work' = [work EXCEPT ![d][s] = "call"]
            /\ UNCHANGED <<run, eng>>
       ELSE /\ work' = [work EXCEPT ![d][s] = "release"]
            /\ run' = [run EXCEPT !.status = IF eng[d].mem = "FAILED" THEN @ ELSE "FAILED"]
            /\ eng' = [eng EXCEPT ![d].mem = "FAILED"]
            /\ UNCHANGED used
    /\ UNCHANGED <<def, known, steps, conf, slots, effects>>

BudgetRelease(d, s) ==
    /\ work[d][s] = "release"
    /\ slots' = slots - 1
    /\ work' = [work EXCEPT ![d][s] = "FAILED"]
    /\ UNCHANGED <<def, known, run, steps, conf, used, eng, effects>>

\* _acquire_target: the page cannot be inspected, or no element or several
\* match the step's target.
NoTarget(d, s) ==
    /\ work[d][s] = "call"
    /\ work' = [work EXCEPT ![d][s] = "FAILED"]
    /\ UNCHANGED <<def, known, run, steps, conf, used, slots, eng, effects>>

\* ExecutionService.request for the step: executed, held for confirmation,
\* denied, of unknown outcome, or failed.
Request(d, s, result) ==
    /\ work[d][s] = "call"
    /\ work' = [work EXCEPT ![d][s] = result]
    /\ conf' = IF result = "WAITING" THEN [conf EXCEPT ![s].status = "PENDING"] ELSE conf
    /\ \E called \in {0, 1} :
         /\ result \in {"COMPLETED"} => called = 1
         /\ result \in {"WAITING", "SKIPPED", "DENIED"} => called = 0
         /\ effects' = [effects EXCEPT ![s] = @ + called]
    /\ result = "SKIPPED" => s \in def.skip
    /\ result = "DENIED" => s \notin def.skip
    /\ UNCHANGED <<def, known, run, steps, used, slots, eng>>

\* _classify_step_outcome.
Classify(d, result) ==
    CASE result \in {"COMPLETED", "SKIPPED"} -> Goto(d, "look") /\ run' = [run EXCEPT !.cur = NextOpen]
      [] result = "WAITING" -> Persist(d, "WAITING", "idle")
      [] result = "AMBIGUOUS" -> Persist(d, "AMBIGUOUS", "idle")
      [] result \in {"FAILED", "DENIED"} -> SetRunFailed(d)

\* _mark_step.
MarkStep(d, s) ==
    /\ work[d][s] \in Results
    /\ steps' = [steps EXCEPT ![s] = work[d][s]]
    /\ work' = [work EXCEPT ![d][s] = "off"]
    /\ UNCHANGED <<def, known, run, conf, used, slots, eng, effects>>

\* The workers are done: a single step is classified, a batch read again.
Joined(d) ==
    /\ eng[d].pc = "work" /\ work[d] = Off
    /\ IF Cardinality(eng[d].batch) > 1
       THEN Goto(d, "refresh") /\ UNCHANGED run
       ELSE Classify(d, steps[Min(eng[d].batch)])
    /\ UNCHANGED <<def, known, steps, conf, used, slots, work, effects>>

-----------------------------------------------------------------------------
(* Everything else *)

\* The approves of the run that read their confirmation PENDING.
Approves == MapThenSumSet(LAMBDA s : conf[s].reading + conf[s].approved, Steps)

\* ExecutionService.approve reads the confirmation and validates it; then marks it
\* USED with its AUTHORIZED entry, whatever its status is by now; calls the
\* provider outside any transaction; and records the outcome.
ApproveRead(s) ==
    /\ conf[s].status = "PENDING" /\ Approves < MaxApproves
    /\ conf' = [conf EXCEPT ![s].reading = @ + 1]
    /\ UNCHANGED effects

ApproveCommit(s) ==
    /\ conf[s].reading > 0
    /\ conf' = [conf EXCEPT ![s].reading = @ - 1, ![s].calling = @ + 1, ![s].approved = @ + 1, ![s].status = "USED"]
    /\ UNCHANGED effects

ApproveCalls(s) ==
    /\ conf[s].calling > 0
    /\ conf' = [conf EXCEPT ![s].calling = @ - 1, ![s].recording = @ + 1]
    /\ effects' = [effects EXCEPT ![s] = @ + 1]

ApproveRecords(s) ==
    /\ conf[s].recording > 0
    /\ \E outcome \in {"EXECUTED", "FAILED"} :
         conf' = [conf EXCEPT ![s].recording = @ - 1, ![s].last = outcome]
    /\ UNCHANGED effects

\* deny after it read PENDING, or an approve by another actor whatever it read:
\* DENIED, with an entry DENIED_BY_USER or REJECTED.
Refuse(s) ==
    /\ conf[s].status # "none"
    /\ conf' = [conf EXCEPT ![s].status = "DENIED", ![s].last = "FAILED"]
    /\ UNCHANGED effects

\* An approve, or the sweeper, that read it PENDING and overdue.  The entry is
\* none of those the engine looks for, if there is one.
Expire(s) ==
    /\ conf[s].status # "none"
    /\ conf' = [conf EXCEPT ![s].status = "EXPIRED"]
    /\ UNCHANGED effects

\* An approve of what is resolved already is recorded as REJECTED.
ResolveAgain(s) ==
    /\ conf[s].status \in {"USED", "DENIED", "EXPIRED"}
    /\ conf' = [conf EXCEPT ![s].last = "FAILED"]
    /\ UNCHANGED effects

ConfirmationStep(s) ==
    /\ \/ ApproveRead(s) \/ ApproveCommit(s) \/ ApproveCalls(s) \/ ApproveRecords(s)
       \/ Refuse(s) \/ Expire(s) \/ ResolveAgain(s)
    /\ UNCHANGED <<def, known, run, steps, used, slots, eng, work>>

\* workflow_max_wallclock_seconds pass while the call is at work.
TimePasses(d) ==
    /\ eng[d].pc \notin {"idle", "release"} /\ ~eng[d].late
    /\ eng' = [eng EXCEPT ![d].late = TRUE]
    /\ UNCHANGED <<def, known, run, steps, conf, used, slots, work, effects>>

\* The process stops and starts again: an inline definition is gone, and so
\* are the calls, the approves and the dispatches in progress.
Crash ==
    /\ known' \in IF known THEN BOOLEAN ELSE {FALSE}
    /\ eng' = [d \in Drivers |-> Idle]
    /\ work' = [d \in Drivers |-> Off]
    /\ conf' = [s \in Steps |-> [conf[s] EXCEPT !.reading = 0, !.calling = 0, !.recording = 0]]
    /\ UNCHANGED <<def, run, steps, used, slots, effects>>

WorkerStep(d) ==
    \E s \in Steps : MarkRunning(d, s) \/ ClaimBudget(d, s) \/ BudgetRelease(d, s) \/ MarkStep(d, s) \/ NoTarget(d, s)
                     \/ \E result \in Results : Request(d, s, result)
DriverStep(d) == Look(d) \/ AfterBatch(d) \/ Joined(d) \/ Release(d) \/ WorkerStep(d)

Next ==
    \/ \E d \in Drivers : DriverStep(d) \/ TimePasses(d)
    \/ \E d \in Drivers : Cancel(d) \/ ResolveContinue(d) \/ \E allowed \in BOOLEAN : Resume(d, allowed)
    \/ \E s \in Steps : ConfirmationStep(s)
    \/ Crash

\* A call goes on while its process lives (every inner dispatch ends: the
\* provider timeout), and time passes.
Spec == Init /\ [][Next]_vars /\ \A d \in Drivers : WF_vars(DriverStep(d)) /\ WF_vars(TimePasses(d))

-----------------------------------------------------------------------------
\* Exactly once: no step of a run makes a second provider call, whatever was
\* resumed, resolved, approved late or left RUNNING by a crash; but for overlapping
\* approves of its confirmation, which ExecutionService lets through, each of which
\* makes one call (and the engine then none).
ExactlyOnce == \A s \in Steps : effects[s] <= 1 \/ effects[s] <= conf[s].approved

\* A run is COMPLETED only when no step failed with a code or is unsettled.
\* (A step the policy denied has none, and can be overlooked: see README.)
CompletedMeansDone ==
    run.status = "COMPLETED" => \A s \in Steps : steps[s] \in {"COMPLETED", "SKIPPED", "DENIED"}

\* Every call returns, budget-starved batches included.
EveryCallReturns == \A d \in Drivers : eng[d].pc # "idle" ~> eng[d].pc = "idle"
=============================================================================
