------------------------------ MODULE Schedules ------------------------------
(***************************************************************************)
(* ScheduleService: recurring schedules, the users that edit them and the  *)
(* scheduler threads that tick.  A tick lists the due schedules, then for  *)
(* each of them submits a job under the key (schedule, due time) and moves *)
(* next_run_at on, in transactions of their own; edits and the ticks of    *)
(* other processes fall in between.  The job table is what module Jobs     *)
(* promises of it: one job per key, IdempotencyConflict for another        *)
(* request under the same key.                                             *)
(***************************************************************************)
EXTENDS Integers, FiniteSets

CONSTANTS
    Ids,         \* schedules
    Processes,   \* processes with a scheduler thread
    Intervals,   \* interval_seconds that users choose
    Params,      \* action parameters that users choose
    Stops,       \* TRUE: scheduler threads stop, or fail in a transaction
    MaxTime,     \* bound on the clock
    MaxEdits,    \* bound on the edits
    None

ASSUME SchedulesAssumption ==
    /\ Intervals \subseteq Nat \ {0}
    /\ Stops \in BOOLEAN /\ MaxTime \in Nat /\ MaxEdits \in Nat
    /\ None \notin Nat

VARIABLES
    now,
    sched,    \* the rows
    ticker,   \* the scheduler thread of each process
    jobs,     \* jobs submitted
    edits     \* edits so far

schedVars == <<now, sched, ticker, jobs, edits>>

Times == 0 .. MaxTime
Nexts == Nat \cup {None}
Row == [enabled: BOOLEAN, interval: Intervals \cup {None}, next: Nexts, params: Params]
\* A due schedule as a tick has read it; a tick has a list of them, and the one
\* whose job it has just submitted.
Item == [id: Ids, due: Nat, interval: Intervals \cup {None}, params: Params]
Job == [id: Ids, due: Nat, params: Params]
Ticker == [at: Times, todo: SUBSET Item, job: Item \cup {None}]
NoTick == [at |-> 0, todo |-> {}, job |-> None]

\* A row before its creation and after its deletion.
Absent == [enabled |-> FALSE, next |-> None, gone |-> FALSE]
Deleted == [Absent EXCEPT !.gone = TRUE]
Exists(s) == sched[s] \notin {Absent, Deleted}

SchedTypeOK ==
    /\ now \in Times
    /\ sched \in [Ids -> Row \cup {Absent, Deleted}]
    /\ ticker \in [Processes -> Ticker]
    /\ jobs \subseteq Job
    /\ edits \in 0 .. MaxEdits

SchedInit ==
    /\ now = 0
    /\ sched = [s \in Ids |-> Absent]
    /\ ticker = [p \in Processes |-> NoTick]
    /\ jobs = {}
    /\ edits = 0

-----------------------------------------------------------------------------
(* Edits by users *)

\* compute_next_run; without an interval there is no next run.
ComputeNextRun(interval, from) == IF interval = None THEN None ELSE from + interval

Recalculated(row) ==
    [row EXCEPT !.next = IF row.enabled THEN ComputeNextRun(row.interval, now) ELSE None]

Edit(s, row) ==
    /\ edits < MaxEdits
    /\ edits' = edits + 1
    /\ sched' = [sched EXCEPT ![s] = row]
    /\ UNCHANGED <<now, ticker, jobs>>

Create(s, i, x) ==
    /\ sched[s] = Absent
    /\ sched' = [sched EXCEPT ![s] = Recalculated(
                   [enabled |-> TRUE, interval |-> i, next |-> None, params |-> x])]
    /\ UNCHANGED <<now, ticker, jobs, edits>>

\* update with a new interval (0 clears it), with enabled, with new parameters.
SetInterval(s, i) ==
    /\ Exists(s) /\ i # sched[s].interval
    /\ Edit(s, Recalculated([sched[s] EXCEPT !.interval = i]))

SetEnabled(s, on) ==
    /\ Exists(s) /\ on # sched[s].enabled
    /\ Edit(s, Recalculated([sched[s] EXCEPT !.enabled = on]))

SetParams(s, x) ==
    /\ Exists(s) /\ x # sched[s].params
    /\ Edit(s, [sched[s] EXCEPT !.params = x])

Delete(s) == Exists(s) /\ Edit(s, Deleted)

-----------------------------------------------------------------------------
(* tick *)

Due(s) == sched[s].enabled /\ sched[s].next # None /\ sched[s].next <= now

\* list_due.  (A tick that finds nothing due changes nothing.)
ListDue(p) ==
    LET due == {s \in Ids : Due(s)}
    IN  /\ ticker[p] = NoTick /\ due # {}
        /\ ticker' = [ticker EXCEPT ![p] = [at |-> now, job |-> None, todo |->
             {[id |-> s, due |-> sched[s].next, interval |-> sched[s].interval,
               params |-> sched[s].params] : s \in due}]]
        /\ UNCHANGED <<now, sched, jobs, edits>>

\* The schedules are served in the order of their due times.
IsNext(p, x) == ticker[p].job = None /\ \A y \in ticker[p].todo : x.due <= y.due

AsJob(x) == [id |-> x.id, due |-> x.due, params |-> x.params]
SameKey(x) == {j \in jobs : j.id = x.id /\ j.due = x.due}

\* job_service.submit under the key sched:<id>:<due>.
Submit(p) == \E x \in ticker[p].todo :
    /\ IsNext(p, x)
    /\ \A j \in SameKey(x) : j = AsJob(x)
    /\ jobs' = jobs \cup {AsJob(x)}
    /\ ticker' = [ticker EXCEPT ![p].job = x, ![p].todo = @ \ {x}]
    /\ UNCHANGED <<now, sched, edits>>

\* The key was used with other parameters: IdempotencyConflict ends the tick.
SubmitConflicts(p) == \E x \in ticker[p].todo :
    /\ IsNext(p, x)
    /\ \E j \in SameKey(x) : j # AsJob(x)
    /\ ticker' = [ticker EXCEPT ![p] = NoTick]
    /\ UNCHANGED <<now, sched, jobs, edits>>

\* The tick goes on with the rest of its list.
Served(p) == IF ticker[p].todo = {} THEN NoTick ELSE [ticker[p] EXCEPT !.job = None]

MoveTo(p, next) ==
    LET x == ticker[p].job
    IN  /\ sched' = IF Exists(x.id) THEN [sched EXCEPT ![x.id].next = next] ELSE sched
        /\ ticker' = [ticker EXCEPT ![p] = Served(p)]
        /\ UNCHANGED <<now, jobs, edits>>

\* Mutants: next_run_at stays; it moves by one.
Advance_Stays(p) == ticker[p].job # None /\ MoveTo(p, ticker[p].job.due)
Advance_TooSoon(p) == ticker[p].job # None /\ MoveTo(p, ticker[p].job.due + 1)

\* next_run_at moves on from the time of the tick by the interval that the
\* tick has read, whatever the row says by now.
Advance(p) ==
    /\ ticker[p].job # None
    /\ MoveTo(p, ComputeNextRun(ticker[p].job.interval, ticker[p].at))

\* The thread stops, or one of its transactions raises: the tick is over.
Stop(p) ==
    /\ Stops /\ ticker[p] # NoTick
    /\ ticker' = [ticker EXCEPT ![p] = NoTick]
    /\ UNCHANGED <<now, sched, jobs, edits>>

Tick ==
    /\ now < MaxTime
    /\ now' = now + 1
    /\ UNCHANGED <<sched, ticker, jobs, edits>>

Work(p) == ListDue(p) \/ Submit(p) \/ SubmitConflicts(p) \/ Advance(p)

SchedNext ==
    \/ \E s \in Ids :
         \/ \E i \in Intervals, x \in Params : Create(s, i, x)
         \/ \E i \in Intervals \cup {None} : SetInterval(s, i)
         \/ \E on \in BOOLEAN : SetEnabled(s, on)
         \/ \E x \in Params : SetParams(s, x)
         \/ Delete(s)
    \/ \E p \in Processes : Work(p) \/ Stop(p)
    \/ Tick

\* Scheduler threads tick again and again, and do not fail every time they
\* come to a step.
Fairness == \A p \in Processes : /\ WF_schedVars(Work(p))
                                 /\ SF_schedVars(Submit(p)) /\ SF_schedVars(Advance(p))

SchedSpec == SchedInit /\ [][SchedNext]_schedVars /\ Fairness

-----------------------------------------------------------------------------
\* Runs of a schedule are at least its (shortest) interval apart.  With one
\* ticking process neither a stopped tick that is repeated nor an edit in the
\* middle of one makes it run an occurrence again, under its own due time or one
\* moved by less than an interval.  scheduler_leader.py:24 says the same of two
\* processes that both tick; of those it is false.
RunsApart == \A j, k \in jobs :
    j.id = k.id /\ j.due < k.due => \E i \in Intervals : k.due >= j.due + i

\* Whatever is due is run and moved on.
DueIsServed == \A s \in Ids : Due(s) ~> ~ Due(s)

\* A due occurrence was submitted with parameters that have been edited since.
Stuck == \E s \in Ids, j \in jobs :
    Due(s) /\ j.id = s /\ j.due = sched[s].next /\ j.params # sched[s].params

\* Unless that happens, whatever is due is run and moved on, however often
\* the scheduler thread stops between the submission and the update.
ServedUnlessStuck == []~ Stuck => DueIsServed
=============================================================================
