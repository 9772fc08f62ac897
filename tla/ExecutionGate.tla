---------------------------- MODULE ExecutionGate ----------------------------
(***************************************************************************)
(* The execution gate: ExecutionService with the ConfirmationService, the  *)
(* DualApprovalService and the ConfirmationSweeper it shares the database  *)
(* with.  Every call of the HTTP API runs in a worker thread; a database   *)
(* transaction is a read of committed rows followed, later, by a write     *)
(* that commits everything at once (SQLite in WAL mode: SELECTs take no    *)
(* lock, the first write takes the single writer lock until the commit,    *)
(* and an UPDATE is addressed by primary key only).  Another thread may    *)
(* therefore commit between the read and the write of a transaction.       *)
(*                                                                         *)
(* An action of the system (type and parameters) is an opaque value; its   *)
(* fingerprint is the value itself.  The audit log is a set of rows: its   *)
(* hash chain is the subject of module AuditChain.                         *)
(***************************************************************************)
EXTENDS Naturals, FiniteSets, Sequences

CONSTANTS
    Threads,      \* worker threads serving API calls
    Actors,       \* authenticated principals
    Operators,    \* principals with the operator review permission
    Actions,      \* (action type, parameters) pairs
    Forbidden,    \* the FORBIDDEN ones
    Dual,         \* the FINANCIAL and BOOKING ones
    Registered,   \* those with a provider in the tool registry
    Confs,        \* confirmation identifiers the database may hold
    Policies,     \* what each policy version decides, action by action
    TTL,          \* lifetime of a confirmation
    BatchSize,    \* confirmation_sweeper.BATCH_SIZE
    MaxTime,      \* bound on the clock
    MaxOps,       \* bound on the number of calls
    Faults,       \* TRUE: crashes and failing commits happen
    SweeperRuns,  \* TRUE: something calls ConfirmationSweeper.sweep
    NoConf,       \* the absent confirmation id of a direct call
    NoCall        \* the call of a thread that serves none

Decisions == {"ALLOW", "CONFIRM", "CONFIRM_STRONG", "DENY"}

ASSUME GateAssumption ==
    /\ Operators \subseteq Actors
    /\ Forbidden \subseteq Actions
    /\ Dual \subseteq Actions
    /\ Registered \subseteq Actions
    /\ Policies \subseteq [Actions -> Decisions]
    /\ TTL \in Nat /\ MaxTime \in Nat /\ MaxOps \in Nat
    /\ BatchSize \in Nat \ {0}
    /\ Faults \in BOOLEAN /\ SweeperRuns \in BOOLEAN
    /\ NoConf \notin Confs

Terminal == {"USED", "DENIED", "EXPIRED"}
NoRow == [status |-> "NONE"]
Confirmation == [status: {"PENDING"} \cup Terminal, action: Actions, owner: Actors,
                 decision: {"CONFIRM", "CONFIRM_STRONG"}, expires: Nat]
Approval == [actor: Actors, status: {"GRANTED", "DENIED"}]

DispatchOutcomes == {"EXECUTED", "FAILED", "REJECTED"}
Outcomes == DispatchOutcomes \cup
            {"AUTHORIZED", "PENDING", "DENIED_BY_POLICY", "DENIED_BY_USER", "EXPIRED"}

\* What approve() has concluded when it comes to write.
Verdicts == {"unknown", "forbidden", "otherActor", "redundant", "expired", "mismatch",
             "dualFull", "dualDenied", "awaiting", "ballot", "ok"}

\* A call in progress.  `by' tells an ordinary call from one made with
\* allow_cross_actor; `note' is the verdict of an approve, the decision of a
\* request, the vote of an operator or the outcome of a dispatch.
Call == [op: 1..MaxOps, action: Actions, actor: Actors, by: {"requester", "operator"},
         challenge: {"right", "wrong"}, cid: Confs \cup {NoConf}, decision: Decisions,
         note: Verdicts \cup DispatchOutcomes \cup {"GRANTED", "DENIED", "-"}]

\* One dispatch, as the provider sees it.
Job == [op: 1..MaxOps, action: Actions, actor: Actors, by: {"requester", "operator"},
        challenge: {"right", "wrong"}, cid: Confs \cup {NoConf}]

VARIABLES
    now,        \* wall clock
    policy,     \* current policy version
    conf,       \* table pending_confirmation
    approvals,  \* table confirmation_approval, per confirmation, in insert order
    audit,      \* audit rows committed so far
    pc,         \* where each thread is
    call,       \* the call each thread serves
    batch,      \* rows the sweeper has selected and not yet updated
    running,    \* provider executions in progress (abandoned ones included)
    effects,    \* provider executions whose side effect has happened
    ops         \* calls received so far

vars == <<now, policy, conf, approvals, audit, pc, call, batch, running, effects, ops>>

dbVars == <<conf, approvals, audit>>
provVars == <<running, effects>>

PCs == {"idle", "decided", "tally", "resolve", "deny", "vote", "dispatch", "wait", "record"}

TypeOK ==
    /\ now \in 0..MaxTime
    /\ policy \in Policies
    /\ conf \in [Confs -> Confirmation \cup {NoRow}]
    /\ approvals \in [Confs -> Seq(Approval)]
    /\ audit \subseteq [op: 1..MaxOps, outcome: Outcomes, action: Actions,
                        cid: Confs \cup {NoConf}, decision: Decisions]
    /\ pc \in [Threads -> PCs]
    /\ call \in [Threads -> Call \cup {NoCall}]
    /\ \A t \in Threads : pc[t] # "idle" => call[t] \in Call
    /\ batch \subseteq Confs
    /\ running \subseteq Job
    /\ effects \subseteq Job
    /\ ops \in 0..MaxOps

Init ==
    /\ now = 0
    /\ policy \in Policies
    /\ conf = [c \in Confs |-> NoRow]
    /\ approvals = [c \in Confs |-> <<>>]
    /\ audit = {}
    /\ pc = [t \in Threads |-> "idle"]
    /\ call = [t \in Threads |-> NoCall]
    /\ batch = {}
    /\ running = {}
    /\ effects = {}
    /\ ops = 0

-----------------------------------------------------------------------------
(* Helpers *)

JobOf(k) == [op |-> k.op, action |-> k.action, actor |-> k.actor, by |-> k.by,
             challenge |-> k.challenge, cid |-> k.cid]

AuditRow(k, outcome) == [op |-> k.op, outcome |-> outcome, action |-> k.action,
                         cid |-> k.cid, decision |-> k.decision]

Record(k, outcome) == audit' = audit \cup {AuditRow(k, outcome)}

MarkStatus(c, status) == conf' = [conf EXCEPT ![c].status = status]

\* A thread takes up a call: it stands at `where' with the record k.
Accept(t, k, where) ==
    /\ pc[t] = "idle"
    /\ ops < MaxOps
    /\ ops' = ops + 1
    /\ pc' = [pc EXCEPT ![t] = where]
    /\ call' = [call EXCEPT ![t] = k]

Goto(t, where, note) ==
    /\ pc' = [pc EXCEPT ![t] = where]
    /\ call' = [call EXCEPT ![t].note = note]

Return(t) ==
    /\ pc' = [pc EXCEPT ![t] = "idle"]
    /\ call' = [call EXCEPT ![t] = NoCall]

\* DualApprovalService.state_in_session over a list of approvals.
Granters(list) == {list[i].actor : i \in {j \in DOMAIN list : list[j].status = "GRANTED"}}
AnyDenied(list) == \E i \in DOMAIN list : list[i].status = "DENIED"
\* Mutant: counts approval rows instead of distinct granting actors.
Tally_CountsRows(list) == IF AnyDenied(list) THEN "dualDenied"
                          ELSE IF Len(list) = 2 THEN "ok"
                          ELSE "awaiting"
Tally(list) == IF AnyDenied(list) THEN "dualDenied"
               ELSE IF Cardinality(Granters(list)) = 2 THEN "ok"
               ELSE "awaiting"

RowsBy(list, actor) == {i \in DOMAIN list : list[i].actor = actor}

\* Mutants of the validation: no fingerprint, no status check.
Validate_NoFingerprint(row, k) ==
    IF row = NoRow THEN "unknown"
    ELSE IF k.action \in Forbidden THEN "forbidden"
    ELSE IF k.by = "requester" /\ row.owner # k.actor THEN "otherActor"
    ELSE IF row.status # "PENDING" THEN "redundant" ELSE "ok"
Validate_NoStatus(row, k) ==
    IF row = NoRow THEN "unknown"
    ELSE IF k.action \in Forbidden THEN "forbidden"
    ELSE IF k.by = "requester" /\ row.owner # k.actor THEN "otherActor"
    ELSE IF row.action # k.action THEN "mismatch" ELSE "ok"

\* The checks of approve() on the confirmation it has read, in their order:
\* existence, forbidden actions, actor binding, ConfirmationService.validate.
Validate(row, k) ==
    IF row = NoRow THEN "unknown"
    ELSE IF row.action \in Forbidden \/ k.action \in Forbidden THEN "forbidden"
    ELSE IF k.by = "requester" /\ row.owner # k.actor THEN "otherActor"
    ELSE IF row.status # "PENDING" THEN "redundant"
    ELSE IF now > row.expires THEN "expired"
    ELSE IF row.action # k.action THEN "mismatch"
    ELSE IF row.decision = "CONFIRM_STRONG" /\ k.challenge = "wrong" THEN "mismatch"
    ELSE "ok"

-----------------------------------------------------------------------------
(* request *)

\* request() reads the current policy and evaluates it.  A forbidden action is
\* denied whatever the policy says.
Request(t, a, actor) ==
    /\ Accept(t, [op |-> ops + 1, action |-> a, actor |-> actor, by |-> "requester",
                  challenge |-> "wrong", cid |-> NoConf,
                  decision |-> IF a \in Forbidden THEN "DENY" ELSE policy[a],
                  note |-> "-"], "decided")
    /\ UNCHANGED <<now, policy, dbVars, batch, provVars>>

RefuseRequest(t) ==
    /\ pc[t] = "decided" /\ call[t].decision = "DENY"
    /\ Record(call[t], "DENIED_BY_POLICY")
    /\ Return(t)
    /\ UNCHANGED <<now, policy, conf, approvals, batch, provVars, ops>>

\* _require_confirmation: the row and its PENDING audit record, in one commit.
RequireConfirmation(t, c) ==
    /\ pc[t] = "decided" /\ call[t].decision \in {"CONFIRM", "CONFIRM_STRONG"}
    /\ conf[c] = NoRow
    /\ conf' = [conf EXCEPT ![c] =
                 [status |-> "PENDING", action |-> call[t].action, owner |-> call[t].actor,
                  decision |-> call[t].decision, expires |-> now + TTL]]
    /\ Record([call[t] EXCEPT !.cid = c], "PENDING")
    /\ Return(t)
    /\ UNCHANGED <<now, policy, approvals, batch, provVars, ops>>

\* Phase A of a direct call: AUTHORIZED is committed before anything is run.
Authorize(t) ==
    /\ pc[t] = "decided" /\ call[t].decision = "ALLOW"
    /\ Record(call[t], "AUTHORIZED")
    /\ Goto(t, "dispatch", "-")
    /\ UNCHANGED <<now, policy, conf, approvals, batch, provVars, ops>>

-----------------------------------------------------------------------------
(* approve and deny *)

\* approve() reads the confirmation and validates what it has read; a valid
\* FINANCIAL/BOOKING confirmation goes on to the dual approval.
ApproveRead(t, c, a, actor, by, challenge) ==
    LET k == [op |-> ops + 1, action |-> a, actor |-> actor, by |-> by,
              challenge |-> challenge, cid |-> c,
              decision |-> IF conf[c] = NoRow THEN "DENY" ELSE conf[c].decision,
              note |-> "-"]
        verdict == Validate(conf[c], k)
    IN  /\ by = "operator" => actor \in Operators /\ challenge = "wrong"
        /\ Accept(t, [k EXCEPT !.note = verdict],
                  IF verdict = "ok" /\ a \in Dual THEN "tally" ELSE "resolve")
        /\ UNCHANGED <<now, policy, dbVars, batch, provVars>>

\* The approvals are read: has this actor voted, and is there still room?
ReadApprovals(t) ==
    LET list == approvals[call[t].cid]
        mine == RowsBy(list, call[t].actor)
    IN  /\ pc[t] = "tally"
        /\ Cardinality(mine) <= 1
        /\ Goto(t, "resolve", IF mine # {} THEN Tally(list)
                              ELSE IF Len(list) >= 2 THEN "dualFull" ELSE "ballot")
        /\ UNCHANGED <<now, policy, dbVars, batch, provVars, ops>>

\* get_by_actor finds two rows of one actor: scalar_one_or_none raises, the
\* transaction is rolled back and the call fails.
ReadApprovalsRaises(t) ==
    /\ pc[t] = "tally"
    /\ Cardinality(RowsBy(approvals[call[t].cid], call[t].actor)) > 1
    /\ Return(t)
    /\ UNCHANGED <<now, policy, dbVars, batch, provVars, ops>>

\* What the commit of approve() writes: the status of the confirmation (or
\* nothing) and the outcome of the audit row.
StatusFor(verdict) == IF verdict = "ok" THEN "USED"
                      ELSE IF verdict = "expired" THEN "EXPIRED" ELSE "DENIED"
OutcomeFor(verdict) == CASE verdict = "ok" -> "AUTHORIZED"
                         [] verdict = "expired" -> "EXPIRED"
                         [] verdict = "forbidden" -> "DENIED_BY_POLICY"
                         [] verdict = "dualDenied" -> "DENIED_BY_USER"
                         [] verdict = "awaiting" -> "PENDING"
                         [] OTHER -> "REJECTED"

\* Mutant: the confirmation is consumed without the AUTHORIZED row.
Resolve_AuditLater(t, verdict) ==
    /\ IF verdict \in {"unknown", "redundant", "awaiting"}
       THEN UNCHANGED conf
       ELSE MarkStatus(call[t].cid, StatusFor(verdict))
    /\ IF verdict = "ok" THEN UNCHANGED audit ELSE Record(call[t], OutcomeFor(verdict))
    /\ IF verdict = "ok" THEN Goto(t, "dispatch", "-") ELSE Return(t)

\* The commit, with the verdict that the transaction comes to when it writes.
Resolve(t, verdict) ==
    /\ IF verdict \in {"unknown", "redundant", "awaiting"}
       THEN UNCHANGED conf
       ELSE MarkStatus(call[t].cid, StatusFor(verdict))
    /\ Record(call[t], OutcomeFor(verdict))
    /\ IF verdict = "ok" THEN Goto(t, "dispatch", "-") ELSE Return(t)

ApproveCommit(t) ==
    /\ pc[t] = "resolve" /\ call[t].note # "ballot"
    /\ Resolve(t, call[t].note)
    /\ UNCHANGED <<now, policy, approvals, batch, provVars, ops>>

\* The actor's own grant is inserted first, so the tally is taken inside the
\* write transaction and sees every committed approval.
ApproveCommitBallot(t) ==
    LET c == call[t].cid
        list == Append(approvals[c], [actor |-> call[t].actor, status |-> "GRANTED"])
    IN  /\ pc[t] = "resolve" /\ call[t].note = "ballot"
        /\ approvals' = [approvals EXCEPT ![c] = list]
        /\ Resolve(t, Tally(list))
        /\ UNCHANGED <<now, policy, batch, provVars, ops>>

\* deny() returns without a write unless it reads a PENDING confirmation of
\* its own actor.
DenyRead(t, c, actor) ==
    /\ conf[c].status = "PENDING"
    /\ conf[c].owner = actor
    /\ Accept(t, [op |-> ops + 1, action |-> conf[c].action, actor |-> actor,
                  by |-> "requester", challenge |-> "wrong", cid |-> c,
                  decision |-> conf[c].decision, note |-> "-"], "deny")
    /\ UNCHANGED <<now, policy, dbVars, batch, provVars>>

DenyCommit(t) ==
    /\ pc[t] = "deny"
    /\ MarkStatus(call[t].cid, "DENIED")
    /\ Record(call[t], "DENIED_BY_USER")
    /\ Return(t)
    /\ UNCHANGED <<now, policy, approvals, batch, provVars, ops>>

-----------------------------------------------------------------------------
(* Operator approvals and the sweeper *)

\* record_approval: the checks on what was read, then an insert of one row.
\* Confirmations of other risk levels take one approval, dual ones two.
RequiredApprovals(a) == IF a \in Dual THEN 2 ELSE 1

VoteRead(t, c, operator, vote) ==
    /\ operator \in Operators
    /\ conf[c].status = "PENDING"
    /\ RowsBy(approvals[c], operator) = {}
    /\ Len(approvals[c]) < RequiredApprovals(conf[c].action)
    /\ Accept(t, [op |-> ops + 1, action |-> conf[c].action, actor |-> operator,
                  by |-> "operator", challenge |-> "wrong", cid |-> c,
                  decision |-> conf[c].decision, note |-> vote], "vote")
    /\ UNCHANGED <<now, policy, dbVars, batch, provVars>>

VoteCommit(t) ==
    /\ pc[t] = "vote"
    /\ approvals' = [approvals EXCEPT ![call[t].cid] =
                       Append(@, [actor |-> call[t].actor, status |-> call[t].note])]
    /\ Return(t)
    /\ UNCHANGED <<now, policy, conf, audit, batch, provVars, ops>>

Overdue == {c \in Confs : conf[c].status = "PENDING" /\ conf[c].expires <= now}

SweepSelect ==
    /\ SweeperRuns
    /\ batch = {}
    /\ \E rows \in SUBSET Overdue :
          /\ rows # {}
          /\ Cardinality(rows) <= BatchSize
          /\ rows = Overdue \/ Cardinality(rows) = BatchSize
          /\ batch' = rows
    /\ UNCHANGED <<now, policy, dbVars, pc, call, provVars, ops>>

SweepCommit ==
    /\ batch # {}
    /\ conf' = [c \in Confs |-> IF c \in batch THEN [conf[c] EXCEPT !.status = "EXPIRED"]
                                ELSE conf[c]]
    /\ batch' = {}
    /\ UNCHANGED <<now, policy, approvals, audit, pc, call, provVars, ops>>

-----------------------------------------------------------------------------
(* Dispatch (Phase B), outside any transaction *)

\* No provider; or the circuit breaker is open, or validation refuses: the
\* provider's execute is not entered.
RefuseDispatch(t, outcome) ==
    /\ pc[t] = "dispatch"
    /\ call[t].action \notin Registered => outcome = "REJECTED"
    /\ Goto(t, "record", outcome)
    /\ UNCHANGED <<now, policy, dbVars, batch, provVars, ops>>

StartExecute(t) ==
    /\ pc[t] = "dispatch"
    /\ call[t].action \in Registered
    /\ running' = running \cup {JobOf(call[t])}
    /\ Goto(t, "wait", "-")
    /\ UNCHANGED <<now, policy, dbVars, batch, effects, ops>>

\* The provider's side effect happens, in the daemon thread of run_with_timeout.
ProviderActs(j) ==
    /\ j \in running
    /\ effects' = effects \cup {j}
    /\ UNCHANGED <<now, policy, dbVars, pc, call, batch, running, ops>>

\* The provider returns or raises before the timeout.  It reports success only
\* when it has acted.
ProviderReturns(t, outcome) ==
    /\ pc[t] = "wait"
    /\ outcome = "EXECUTED" => JobOf(call[t]) \in effects
    /\ running' = running \ {JobOf(call[t])}
    /\ Goto(t, "record", outcome)
    /\ UNCHANGED <<now, policy, dbVars, batch, effects, ops>>

ProviderTimesOut_Never(t) == FALSE /\ UNCHANGED vars /\ pc[t] = "wait"

\* The call overruns: FAILED with TIMEOUT, and the daemon thread goes on.
ProviderTimesOut(t) ==
    /\ pc[t] = "wait"
    /\ Goto(t, "record", "FAILED")
    /\ UNCHANGED <<now, policy, dbVars, batch, provVars, ops>>

WorkerEnds(j) ==
    /\ j \in running
    /\ \A t \in Threads : pc[t] = "wait" => call[t].op # j.op
    /\ running' = running \ {j}
    /\ UNCHANGED <<now, policy, dbVars, pc, call, batch, effects, ops>>

\* Phase C.
RecordOutcome(t) ==
    /\ pc[t] = "record"
    /\ Record(call[t], call[t].note)
    /\ Return(t)
    /\ UNCHANGED <<now, policy, conf, approvals, batch, provVars, ops>>

-----------------------------------------------------------------------------
(* Environment *)

Tick ==
    /\ now < MaxTime
    /\ now' = now + 1
    /\ UNCHANGED <<policy, dbVars, pc, call, batch, provVars, ops>>

\* PolicyService.create_version (its own audit row concerns no dispatch).
CreateVersion(p) ==
    /\ p # policy
    /\ policy' = p
    /\ UNCHANGED <<now, dbVars, pc, call, batch, provVars, ops>>

\* The process dies: open transactions roll back, threads and provider workers
\* are gone, the database stays.
Crash ==
    /\ Faults
    /\ batch # {} \/ running # {} \/ \E t \in Threads : pc[t] # "idle"
    /\ pc' = [t \in Threads |-> "idle"]
    /\ call' = [t \in Threads |-> NoCall]
    /\ batch' = {}
    /\ running' = {}
    /\ UNCHANGED <<now, policy, dbVars, effects, ops>>

\* A commit raises (the audit sequence number is taken, see AuditChain, or the
\* database is locked): the transaction rolls back and the call fails.
CommitFails(t) ==
    /\ Faults
    /\ pc[t] \in {"decided", "resolve", "deny", "vote", "record"}
    /\ Return(t)
    /\ UNCHANGED <<now, policy, dbVars, batch, provVars, ops>>

ThreadStep(t) ==
    \/ RefuseRequest(t)
    \/ \E c \in Confs : RequireConfirmation(t, c)
    \/ Authorize(t)
    \/ ReadApprovals(t)
    \/ ReadApprovalsRaises(t)
    \/ ApproveCommit(t)
    \/ ApproveCommitBallot(t)
    \/ DenyCommit(t)
    \/ VoteCommit(t)
    \/ \E outcome \in {"FAILED", "REJECTED"} : RefuseDispatch(t, outcome)
    \/ StartExecute(t)
    \/ ProviderTimesOut(t)
    \/ RecordOutcome(t)

NewCall(t) ==
    \/ \E a \in Actions, actor \in Actors : Request(t, a, actor)
    \/ \E c \in Confs, a \in Actions, actor \in Actors, by \in {"requester", "operator"},
          challenge \in {"right", "wrong"} : ApproveRead(t, c, a, actor, by, challenge)
    \/ \E c \in Confs, actor \in Actors : DenyRead(t, c, actor)
    \/ \E c \in Confs, o \in Operators, vote \in {"GRANTED", "DENIED"} : VoteRead(t, c, o, vote)

Next ==
    \/ \E t \in Threads : NewCall(t) \/ ThreadStep(t) \/ CommitFails(t)
    \/ \E t \in Threads, outcome \in {"EXECUTED", "FAILED"} : ProviderReturns(t, outcome)
    \/ SweepSelect
    \/ SweepCommit
    \/ \E j \in running : ProviderActs(j) \/ WorkerEnds(j)
    \/ Tick
    \/ \E p \in Policies : CreateVersion(p)
    \/ Crash

\* A worker thread that has taken up a call runs to its end, the timeout
\* included, and the clock advances.  Nothing obliges a client to call, nor a
\* provider to act or to return; nothing in the program calls the sweeper.
Fairness ==
    /\ \A t \in Threads : WF_vars(ThreadStep(t))
    /\ WF_vars(Tick)

Spec == Init /\ [][Next]_vars /\ Fairness

-----------------------------------------------------------------------------
(* Properties *)

\* Audit before execute: whatever order threads, crashes and failing commits
\* come in, the side effect of a dispatch is preceded by a committed AUTHORIZED
\* row for that very call, action and confirmation (Phase A before Phase B), a
\* forbidden action is never run, and a run without a confirmation was ALLOWed
\* by the policy the call read.
AuditBeforeExecute ==
    \A e \in effects :
        /\ e.action \notin Forbidden
        /\ \E r \in audit : /\ r.op = e.op /\ r.outcome = "AUTHORIZED"
                            /\ r.action = e.action /\ r.cid = e.cid
                            /\ e.cid = NoConf => r.decision = "ALLOW"

\* A confirmed dispatch ran the action the confirmation was created for, on
\* behalf of its owner (or of an operator's explicit review), with the challenge
\* of a CONFIRM_STRONG confirmation answered, and the confirmation is no longer
\* open: validate() and mark_status in approve().
BoundToConfirmation ==
    \A e \in effects : e.cid # NoConf =>
        LET row == conf[e.cid] IN
        /\ row.status \in Terminal
        /\ row.action = e.action
        /\ e.by = "requester" => row.owner = e.actor
        /\ row.decision = "CONFIRM_STRONG" => e.challenge = "right"

\* A FINANCIAL/BOOKING side effect has two distinct actors' grants on record,
\* under every interleaving of requester approvals and operator votes.
TwoDistinctGranters ==
    \A e \in effects : e.cid # NoConf /\ e.action \in Dual =>
        \E a, b \in Granters(approvals[e.cid]) : a # b

\* A confirmation is consumed together with its audit row, in one transaction:
\* no crash leaves a USED confirmation without the AUTHORIZED row.
UsedIsAudited ==
    \A c \in Confs : conf[c].status = "USED" =>
        \E r \in audit : r.cid = c /\ r.outcome = "AUTHORIZED"

\* A resolved confirmation never becomes PENDING again, nor does its action,
\* owner, decision or deadline ever change.
NeverReopened ==
    [][\A c \in Confs : conf[c] # NoRow =>
          /\ conf[c].status \in Terminal => conf'[c].status \in Terminal
          /\ conf'[c].action = conf[c].action /\ conf'[c].owner = conf[c].owner
          /\ conf'[c].decision = conf[c].decision
          /\ conf'[c].expires = conf[c].expires]_vars

\* Confirmations are single-use (confirmation_service.py): no two dispatches
\* are authorised by the same confirmation.
SingleUse ==
    \A r, s \in audit :
        (r.outcome = "AUTHORIZED" /\ s.outcome = "AUTHORIZED" /\ r.cid = s.cid /\ r.cid # NoConf)
            => r.op = s.op

\* Every authorised dispatch gets its outcome row, when no fault intervenes:
\* the timeout ends a provider that never returns.
EveryDispatchReported ==
    \A i \in 1..MaxOps :
        (\E r \in audit : r.op = i /\ r.outcome = "AUTHORIZED")
            ~> (\E r \in audit : r.op = i /\ r.outcome \in DispatchOutcomes)
=============================================================================
