----------------------------- MODULE WorkflowOps -----------------------------
(***************************************************************************)
(* The operations layer around the workflow engine: admission of runs      *)
(* (WorkflowGovernanceService over the counters of the repository), the    *)
(* exactly-once start, and the schedule that starts runs (one schedule,    *)
(* any number of ticking processes).                                       *)
(* What a started run does is Workflow's business: here it ends some day,  *)
(* and gives its slots back once, twice (budget breach) or never (crash).  *)
(***************************************************************************)
EXTENDS Integers, FiniteSets

CONSTANTS
    Callers,       \* request threads and scheduler threads
    Actors, Owner, \* the owner of the schedule is one of the actors
    MaxActor, MaxWorkflow, MaxWindow,   \* the three admission caps
    Every,         \* interval_seconds
    MaxOpsTime,    \* bound on the clock
    NoValue

ASSUME OpsAssumption ==
    /\ IsFiniteSet(Callers) /\ IsFiniteSet(Actors) /\ Owner \in Actors
    /\ {"workflow", "window"} \cap Actors = {}
    /\ Every \in Nat /\ MaxOpsTime \in Nat /\ NoValue \notin Int

VARIABLES
    opsNow,
    counters,      \* governance rows by scope, NoValue: no row
    runRows,       \* run rows by token
    caller,        \* where start, or the tick around it, is
    wfSchedule,    \* the schedule row
    extra, leaked,   \* per actor: releases past the first, claims never released (history)
    overlapped       \* callers whose last tick was not the only one all along (history)

opsVars == <<opsNow, counters, runRows, caller, wfSchedule, extra, leaked, overlapped>>

\* A request has one token, a scheduled start one for each due instant.
Tokens == Actors \cup 0..MaxOpsTime
ActorOf(token) == IF token \in Actors THEN token ELSE Owner
Resting == [pc |-> "idle", token |-> 0, sched |-> FALSE, at |-> 0]
NoSchedule == [row |-> "none", enabled |-> FALSE, next |-> NoValue]

OpsInit ==
    /\ opsNow = 0
    /\ counters = [scope \in Actors \cup {"workflow", "window"} |-> NoValue]
    /\ runRows = [token \in Tokens |-> "absent"]
    /\ caller = [c \in Callers |-> Resting]
    /\ wfSchedule = NoSchedule
    /\ extra = [a \in Actors |-> 0]
    /\ leaked = [a \in Actors |-> 0]
    /\ overlapped = {}

-----------------------------------------------------------------------------
(* Admission *)

\* SQLiteWorkflowGovernanceRepo.bump: a first claim inserts the row, whatever
\* the cap; later ones are refused above it.
Bump(rows, scope, delta) == [rows EXCEPT ![scope] = IF @ = NoValue THEN delta ELSE @ + delta]
Admits(rows, scope, cap) == rows[scope] = NoValue \/ rows[scope] + 1 <= cap

\* claim_start: one transaction, rolled back as a whole.
ClaimStart(c) ==
    LET actor == ActorOf(caller[c].token)
        fits  == /\ Admits(counters, actor, MaxActor)
                 /\ Admits(counters, "workflow", MaxWorkflow)
                 /\ Admits(counters, "window", MaxWindow)
    IN  /\ caller[c].pc = "claim"
        /\ caller' = [caller EXCEPT ![c].pc = IF fits THEN "create" ELSE "refuse"]
        /\ counters' = IF fits THEN Bump(Bump(Bump(counters, actor, 1), "workflow", 1), "window", 1)
                       ELSE counters
        /\ UNCHANGED <<opsNow, runRows, wfSchedule, extra, leaked, overlapped>>

\* start: a token that has a run returns that run.
Start(c, token) ==
    /\ caller[c].pc = "idle" /\ token \in Actors
    /\ runRows[token] = "absent"
    /\ caller' = [caller EXCEPT ![c] = [Resting EXCEPT !.pc = "claim", !.token = token]]
    /\ UNCHANGED <<opsNow, counters, runRows, wfSchedule, extra, leaked, overlapped>>

Return(c, pc) == caller' = [caller EXCEPT ![c] = IF pc = "idle" THEN Resting ELSE [@ EXCEPT !.pc = pc]]

\* (actor, run_token) is unique: a second insert raises, out of start and out of
\* tick, and the claim it may have made stays.
InsertRun(c, status, claimed) ==
    LET token == caller[c].token
    IN  /\ IF runRows[token] = "absent"
           THEN /\ runRows' = [runRows EXCEPT ![token] = status]
                /\ Return(c, IF caller[c].sched THEN "advance" ELSE "idle")
                /\ UNCHANGED leaked
           ELSE /\ Return(c, "idle")
                /\ leaked' = [leaked EXCEPT ![ActorOf(token)] = @ + claimed]
                /\ UNCHANGED runRows
        /\ UNCHANGED <<opsNow, counters, wfSchedule, extra, overlapped>>

\* The run row and its steps ...
CreateRun(c) == caller[c].pc = "create" /\ InsertRun(c, "open", 1)

\* ... or _create_failed_run, for a run that was not admitted.
CreateFailedRun(c) == caller[c].pc = "refuse" /\ InsertRun(c, "refused", 0)

EndRun(token) ==
    /\ runRows[token] = "open"
    /\ runRows' = [runRows EXCEPT ![token] = "ended"]
    /\ UNCHANGED <<opsNow, counters, caller, wfSchedule, extra, leaked, overlapped>>

\* Mutant: only the slot of the actor is given back.
ReleaseStart_ActorOnly(token, times) ==
    LET actor == ActorOf(token)
    IN  /\ runRows[token] = "ended"
        /\ runRows' = [runRows EXCEPT ![token] = "released"]
        /\ counters' = Bump(counters, actor, -times)
        /\ extra' = [extra EXCEPT ![actor] = @ + times - 1]
        /\ UNCHANGED <<opsNow, caller, wfSchedule, leaked, overlapped>>

\* release_start, once or (step budget exceeded) twice.
ReleaseStart(token, times) ==
    LET actor == ActorOf(token)
    IN  /\ runRows[token] = "ended"
        /\ runRows' = [runRows EXCEPT ![token] = "released"]
        /\ counters' = Bump(Bump(counters, actor, -times), "workflow", -times)
        /\ extra' = [extra EXCEPT ![actor] = @ + times - 1]
        /\ UNCHANGED <<opsNow, caller, wfSchedule, leaked, overlapped>>

-----------------------------------------------------------------------------
(* WorkflowScheduleService *)

\* create.  A name that is taken, a workflow that does not resolve, another
\* version and a step the role may not run are refused, and leave no row.
CreateSchedule(enabled) ==
    /\ wfSchedule.row = "none"
    /\ wfSchedule' = [row |-> "there", enabled |-> enabled,
                      next |-> IF enabled THEN opsNow + Every ELSE NoValue]
    /\ UNCHANGED <<opsNow, counters, runRows, caller, extra, leaked, overlapped>>

\* update of the switch (or of the interval, to the same effect): the next run
\* is computed from now, or cleared.
UpdateSchedule(enabled) ==
    /\ wfSchedule.row = "there"
    /\ wfSchedule' = [wfSchedule EXCEPT !.enabled = enabled,
                      !.next = IF enabled THEN opsNow + Every ELSE NoValue]
    /\ UNCHANGED <<opsNow, counters, runRows, caller, extra, leaked, overlapped>>

\* delete.  Another schedule has another id, and other tokens.
DeleteSchedule ==
    /\ wfSchedule.row = "there"
    /\ wfSchedule' = [NoSchedule EXCEPT !.row = "deleted"]
    /\ UNCHANGED <<opsNow, counters, runRows, caller, extra, leaked, overlapped>>

\* Mutant: the schedule is advanced before the run is started.
OpsTick_AdvanceFirst(c) ==
    LET due == wfSchedule.next
    IN  /\ caller[c].pc = "idle"
        /\ wfSchedule.enabled /\ due # NoValue /\ due <= opsNow
        /\ wfSchedule' = [wfSchedule EXCEPT !.next = opsNow + Every]
        /\ caller' = [caller EXCEPT ![c] = [pc |-> "claim", token |-> due, sched |-> TRUE, at |-> opsNow]]
        /\ UNCHANGED <<opsNow, counters, runRows, extra, leaked, overlapped>>

\* tick for a due schedule: a token that has its run only advances it.
OpsTick(c) ==
    LET due == wfSchedule.next
        others == {d \in Callers \ {c} : caller[d].sched}
    IN  /\ caller[c].pc = "idle"
        /\ wfSchedule.enabled /\ due # NoValue /\ due <= opsNow
        /\ caller' = [caller EXCEPT ![c] = [pc |-> IF runRows[due] = "absent" THEN "claim" ELSE "advance",
                                            token |-> due, sched |-> TRUE, at |-> opsNow]]
        /\ overlapped' = IF others = {} THEN overlapped \ {c} ELSE overlapped \cup others \cup {c}
        /\ UNCHANGED <<opsNow, counters, runRows, wfSchedule, extra, leaked>>

\* The row is read again (an edit, or another tick, may have come between) and its
\* next run is overwritten, unless it is deleted: the next instant after this tick
\* began, or none when compute_next_run raises.
AdvanceSchedule(c) ==
    /\ caller[c].pc = "advance"
    /\ \E next \in {caller[c].at + Every, NoValue} :
         wfSchedule' = IF wfSchedule.row = "there" THEN [wfSchedule EXCEPT !.next = next] ELSE wfSchedule
    /\ Return(c, "idle")
    /\ UNCHANGED <<opsNow, counters, runRows, extra, leaked, overlapped>>

-----------------------------------------------------------------------------
OpsTime == opsNow < MaxOpsTime /\ opsNow' = opsNow + 1 /\ UNCHANGED <<counters, runRows, caller, wfSchedule, extra, leaked, overlapped>>

\* Every process stops and starts again.
OpsCrash ==
    /\ caller' = [c \in Callers |-> Resting]
    /\ runRows' = [t \in Tokens |-> IF runRows[t] = "ended" THEN "leaked" ELSE runRows[t]]
    /\ leaked' = [a \in Actors |-> leaked[a]
                  + Cardinality({c \in Callers : caller[c].pc = "create" /\ ActorOf(caller[c].token) = a})
                  + Cardinality({t \in Tokens : runRows[t] = "ended" /\ ActorOf(t) = a})]
    /\ UNCHANGED <<opsNow, counters, wfSchedule, extra, overlapped>>

OpsNext ==
    \/ \E c \in Callers : ClaimStart(c) \/ CreateRun(c) \/ CreateFailedRun(c) \/ OpsTick(c) \/ AdvanceSchedule(c)
                          \/ \E token \in Actors : Start(c, token)
    \/ \E token \in Tokens : EndRun(token) \/ \E times \in 1..2 : ReleaseStart(token, times)
    \/ \E enabled \in BOOLEAN : CreateSchedule(enabled) \/ UpdateSchedule(enabled)
    \/ DeleteSchedule
    \/ OpsTime
    \/ OpsCrash

OpsSpec == OpsInit /\ [][OpsNext]_opsVars

-----------------------------------------------------------------------------
Held(scope) == IF counters[scope] = NoValue THEN 0 ELSE counters[scope]
Holding(a) == {t \in Tokens : runRows[t] \in {"open", "ended"} /\ ActorOf(t) = a}
Claiming(a) == {c \in Callers : caller[c].pc = "create" /\ ActorOf(caller[c].token) = a}

SumOverActors(h) ==
    LET total[S \in SUBSET Actors] ==
          IF S = {} THEN 0 ELSE LET a == CHOOSE x \in S : TRUE IN h[a] + total[S \ {a}]
    IN  total[Actors]

\* The admission counters account for every run and every claim, leaked ones and
\* double releases included: each counter is what is held and leaked, less what
\* was given back too often.
AdmissionAccounts ==
    /\ \A a \in Actors : Held(a) = Cardinality(Holding(a)) + Cardinality(Claiming(a)) + leaked[a] - extra[a]
    /\ Held("workflow") = SumOverActors([a \in Actors |-> Held(a)])

\* The schedule is due, and the instant it is due for has no run.
DueWithoutRun ==
    /\ wfSchedule.enabled /\ wfSchedule.next # NoValue /\ wfSchedule.next <= opsNow
    /\ runRows[wfSchedule.next] = "absent"

\* A tick that no other tick overlapped never puts a due schedule off before the
\* instant it is due for has its run, wherever earlier ticks crashed and however
\* the schedule was edited meanwhile: the schedule stays due (or has no next run,
\* if none can be computed).
NoDueSkipped ==
    [][\A c \in Callers \ overlapped : DueWithoutRun /\ caller'[c] # caller[c]
         => wfSchedule'.next = NoValue \/ wfSchedule'.next <= opsNow]_opsVars
=============================================================================
