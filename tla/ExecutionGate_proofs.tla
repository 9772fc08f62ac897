------------------------ MODULE ExecutionGate_proofs ------------------------
(***************************************************************************)
(* Proofs about ExecutionGate, for every set of threads, actors, actions,  *)
(* confirmations and policies.                                             *)
(*                                                                         *)
(* The properties of a side effect are not inductive: what a dispatch may  *)
(* rely on was established several steps earlier, by transactions of other *)
(* threads.  The invariant therefore records, at each place a thread can   *)
(* be in, what its call has already secured (PlaceOK), and the argument    *)
(* rests on one frame lemma: audit rows, the binding of a confirmation,    *)
(* its being resolved, and grants are never taken back (StepGrows).        *)
(***************************************************************************)
EXTENDS ExecutionGate, FiniteSetTheorems, TLAPS

TwoGranters(list) == \E a, b \in Granters(list) : a # b

\* The confirmation a call refers to exists, and is for this action, this
\* actor and this challenge.
Matches(k) ==
    /\ k.cid \in Confs /\ conf[k.cid] # NoRow
    /\ conf[k.cid].action = k.action
    /\ k.by = "requester" => conf[k.cid].owner = k.actor
    /\ conf[k.cid].decision = "CONFIRM_STRONG" => k.challenge = "right"

\* All that the code promises of a dispatch.
Authorised(j) ==
    /\ j.action \notin Forbidden
    /\ \E r \in audit : /\ r.op = j.op /\ r.outcome = "AUTHORIZED"
                        /\ r.action = j.action /\ r.cid = j.cid
                        /\ j.cid = NoConf => r.decision = "ALLOW"
    /\ j.cid # NoConf => Matches(j) /\ conf[j.cid].status \in Terminal
    /\ j.cid # NoConf /\ j.action \in Dual => TwoGranters(approvals[j.cid])

\* What the call of thread t has secured, by the place it stands at.
PlaceOK(t) ==
    /\ pc[t] = "decided" =>
         /\ call[t].cid = NoConf
         /\ call[t].action \in Forbidden => call[t].decision = "DENY"
    /\ pc[t] \in {"tally", "resolve", "deny", "vote"} => call[t].cid \in Confs
    /\ pc[t] \in {"tally", "deny", "vote"} => conf[call[t].cid] # NoRow
    /\ pc[t] = "vote" => call[t].note \in {"GRANTED", "DENIED"}
    /\ pc[t] = "resolve" =>
         /\ call[t].note \in Verdicts
         /\ call[t].note # "unknown" => conf[call[t].cid] # NoRow
    /\ pc[t] = "record" => call[t].note \in DispatchOutcomes
    /\ (pc[t] = "tally" \/ (pc[t] = "resolve" /\ call[t].note \in {"ok", "ballot"})) =>
         Matches(call[t]) /\ call[t].action \notin Forbidden
    /\ (pc[t] = "resolve" /\ call[t].note = "ok" /\ call[t].action \in Dual) =>
         TwoGranters(approvals[call[t].cid])
    /\ pc[t] \in {"dispatch", "wait", "record"} => Authorised(JobOf(call[t]))

\* The inductive invariant.
GateInv ==
    /\ TypeOK
    /\ \A t \in Threads : PlaceOK(t)
    /\ \A c \in batch : conf[c] # NoRow
    /\ \A j \in running : Authorised(j)
    /\ \A e \in effects : Authorised(e)
    /\ UsedIsAudited

\* What no step takes back.
Grows ==
    /\ audit \subseteq audit'
    /\ \A c \in Confs : conf[c] # NoRow =>
          /\ conf'[c] # NoRow
          /\ conf[c].status \in Terminal => conf'[c].status \in Terminal
          /\ conf'[c].action = conf[c].action /\ conf'[c].owner = conf[c].owner
          /\ conf'[c].decision = conf[c].decision
          /\ conf'[c].expires = conf[c].expires
    /\ \A c \in Confs : Granters(approvals[c]) \subseteq Granters(approvals'[c])

-----------------------------------------------------------------------------
(* Lemmas on the operators *)

\* The tally of two distinct granting actors really names two of them.
LEMMA TallyOk ==
    ASSUME NEW list \in Seq(Approval), Tally(list) = "ok"
    PROVE  TwoGranters(list)
<1>1. Cardinality(Granters(list)) = 2
  BY DEF Tally
<1>2. ASSUME NEW a PROVE ~(Granters(list) \subseteq {a})
  <2>1. SUFFICES ASSUME Granters(list) \subseteq {a} PROVE FALSE
    OBVIOUS
  <2>2. IsFiniteSet({a}) /\ Cardinality({a}) = 1
    BY FS_Singleton
  <2>3. Cardinality(Granters(list)) <= 1
    BY <2>1, <2>2, FS_Subset
  <2> QED BY <2>3, <1>1
<1>3. PICK a \in Granters(list) : TRUE
  BY <1>2
<1> QED BY <1>2, <1>3 DEF TwoGranters

\* Appending an approval keeps every granter.
LEMMA AppendGranters ==
    ASSUME NEW list \in Seq(Approval), NEW x \in Approval
    PROVE  /\ Append(list, x) \in Seq(Approval)
           /\ Granters(list) \subseteq Granters(Append(list, x))
BY DEF Granters

\* A tally is one of three verdicts.
LEMMA TallyValues ==
    ASSUME NEW list PROVE Tally(list) \in {"dualDenied", "ok", "awaiting"}
BY DEF Tally
\* The binding of a job survives every growing step.
LEMMA AuthorisedStable ==
    ASSUME NEW j \in Job, Authorised(j), Grows
    PROVE  Authorised(j)'
<1>1. (\E r \in audit : /\ r.op = j.op /\ r.outcome = "AUTHORIZED"
                        /\ r.action = j.action /\ r.cid = j.cid
                        /\ j.cid = NoConf => r.decision = "ALLOW")'
  BY DEF Authorised, Grows
<1>2. (j.cid # NoConf => Matches(j) /\ conf[j.cid].status \in Terminal)'
  BY DEF Authorised, Grows, Matches
<1>3. (j.cid # NoConf /\ j.action \in Dual => TwoGranters(approvals[j.cid]))'
  BY DEF Authorised, Grows, Matches, TwoGranters
<1>4. (j.action \notin Forbidden)'
  BY DEF Authorised
<1> QED BY <1>1, <1>2, <1>3, <1>4 DEF Authorised

\* What mark_status does to a row that exists.
LEMMA MarkStatusGrows ==
    ASSUME TypeOK, NEW c \in Confs, conf[c] # NoRow, NEW s \in Terminal, MarkStatus(c, s)
    PROVE  /\ conf' \in [Confs -> Confirmation \cup {NoRow}]
           /\ conf'[c].status = s
           /\ \A d \in Confs : d # c => conf'[d] = conf[d]
           /\ \A d \in Confs : conf[d] # NoRow =>
                 /\ conf'[d] # NoRow
                 /\ conf[d].status \in Terminal => conf'[d].status \in Terminal
                 /\ conf'[d].action = conf[d].action /\ conf'[d].owner = conf[d].owner
                 /\ conf'[d].decision = conf[d].decision
                 /\ conf'[d].expires = conf[d].expires
<1>1. conf[c] \in Confirmation
  BY DEF TypeOK
<1>2. conf' = [conf EXCEPT ![c] = [conf[c] EXCEPT !.status = s]]
  BY DEF MarkStatus
<1>3. [conf[c] EXCEPT !.status = s] \in Confirmation
  BY <1>1 DEF Confirmation
<1>4. [conf[c] EXCEPT !.status = s] # NoRow
  BY <1>1 DEF Confirmation, NoRow, Terminal
<1> QED BY <1>1, <1>2, <1>3, <1>4 DEF TypeOK, Confirmation

\* The commit of approve() writes a terminal status to an existing row.
LEMMA ResolveGrows ==
    ASSUME TypeOK, NEW t \in Threads, NEW v \in Verdicts, call[t].cid \in Confs,
           v # "unknown" => conf[call[t].cid] # NoRow, Resolve(t, v)
    PROVE  /\ conf' \in [Confs -> Confirmation \cup {NoRow}]
           /\ audit \subseteq audit'
           /\ \A d \in Confs : conf[d] # NoRow =>
                 /\ conf'[d] # NoRow
                 /\ conf[d].status \in Terminal => conf'[d].status \in Terminal
                 /\ conf'[d].action = conf[d].action /\ conf'[d].owner = conf[d].owner
                 /\ conf'[d].decision = conf[d].decision
                 /\ conf'[d].expires = conf[d].expires
<1>1. audit \subseteq audit'
  BY DEF Resolve, Record
<1>2. CASE v \in {"unknown", "redundant", "awaiting"}
  BY <1>1, <1>2 DEF Resolve, TypeOK
<1>3. CASE v \notin {"unknown", "redundant", "awaiting"}
  <2>1. MarkStatus(call[t].cid, StatusFor(v)) /\ StatusFor(v) \in Terminal
    BY <1>3 DEF Resolve, StatusFor, Terminal
  <2> QED BY <1>1, <1>3, <2>1, MarkStatusGrows
<1> QED BY <1>2, <1>3

\* Every step grows: audit rows, bindings, resolutions and grants stay.
LEMMA StepGrows ==
    ASSUME GateInv, [Next]_vars
    PROVE  Grows
<1> USE DEF GateInv
<1>0. ASSUME UNCHANGED dbVars PROVE Grows
  BY <1>0 DEF dbVars, Grows
<1>1. ASSUME NEW t \in Threads, RefuseRequest(t) PROVE Grows
  BY <1>1 DEF RefuseRequest, Record, Grows
<1>2. ASSUME NEW t \in Threads, NEW c \in Confs, RequireConfirmation(t, c) PROVE Grows
  BY <1>2 DEF RequireConfirmation, Record, Grows, TypeOK
<1>3. ASSUME NEW t \in Threads, Authorize(t) PROVE Grows
  BY <1>3 DEF Authorize, Record, Grows
<1>4. ASSUME NEW t \in Threads, ApproveCommit(t) PROVE Grows
  <2>1. /\ call[t].note \in Verdicts /\ call[t].cid \in Confs
        /\ call[t].note # "unknown" => conf[call[t].cid] # NoRow
        /\ Resolve(t, call[t].note) /\ UNCHANGED approvals
    BY <1>4 DEF ApproveCommit, PlaceOK
  <2> QED BY <2>1, ResolveGrows DEF Grows
<1>5. ASSUME NEW t \in Threads, ApproveCommitBallot(t) PROVE Grows
  <2> DEFINE x == [actor |-> call[t].actor, status |-> "GRANTED"]
             list == Append(approvals[call[t].cid], x)
  <2>1. /\ call[t].cid \in Confs /\ conf[call[t].cid] # NoRow
        /\ approvals[call[t].cid] \in Seq(Approval) /\ x \in Approval
    BY <1>5 DEF ApproveCommitBallot, PlaceOK, TypeOK, Call, Approval, Verdicts
  <2>2. Resolve(t, Tally(list)) /\ Tally(list) \in Verdicts
        /\ approvals' = [approvals EXCEPT ![call[t].cid] = list]
    BY <1>5, TallyValues DEF ApproveCommitBallot, Verdicts
  <2>3. \A c \in Confs : Granters(approvals[c]) \subseteq Granters(approvals'[c])
    <3>1. Granters(approvals[call[t].cid]) \subseteq Granters(list)
      BY <2>1, AppendGranters
    <3>2. ASSUME NEW c \in Confs PROVE Granters(approvals[c]) \subseteq Granters(approvals'[c])
      <4>1. CASE c = call[t].cid BY <4>1, <3>1, <2>2 DEF TypeOK
      <4>2. CASE c # call[t].cid
        <5>1. approvals'[c] = approvals[c] BY <4>2, <2>2 DEF TypeOK
        <5> QED BY <5>1
      <4> QED BY <4>1, <4>2
    <3> QED BY <3>2
  <2> QED BY <2>1, <2>2, <2>3, ResolveGrows DEF Grows
<1>6. ASSUME NEW t \in Threads, DenyCommit(t) PROVE Grows
  <2>1. call[t].cid \in Confs /\ conf[call[t].cid] # NoRow /\ MarkStatus(call[t].cid, "DENIED")
    BY <1>6 DEF DenyCommit, PlaceOK
  <2> QED BY <1>6, <2>1, MarkStatusGrows DEF Grows, DenyCommit, Record, Terminal
<1>7. ASSUME NEW t \in Threads, VoteCommit(t) PROVE Grows
  <2> DEFINE x == [actor |-> call[t].actor, status |-> call[t].note]
             list == Append(approvals[call[t].cid], x)
  <2>1. /\ call[t].cid \in Confs
        /\ approvals[call[t].cid] \in Seq(Approval) /\ x \in Approval
        /\ approvals' = [approvals EXCEPT ![call[t].cid] = list]
    BY <1>7 DEF VoteCommit, PlaceOK, TypeOK, Call, Approval
  <2>2. Granters(approvals[call[t].cid]) \subseteq Granters(list)
    BY <2>1, AppendGranters
  <2>3. ASSUME NEW c \in Confs PROVE Granters(approvals[c]) \subseteq Granters(approvals'[c])
    <3>1. CASE c = call[t].cid BY <3>1, <2>1, <2>2 DEF TypeOK
    <3>2. CASE c # call[t].cid
      <4>1. approvals'[c] = approvals[c] BY <3>2, <2>1 DEF TypeOK
      <4> QED BY <4>1
    <3> QED BY <3>1, <3>2
  <2> QED BY <1>7, <2>3 DEF Grows, VoteCommit
<1>8. ASSUME SweepCommit PROVE Grows
  BY <1>8 DEF SweepCommit, Grows, TypeOK, Confirmation, NoRow, Terminal
<1>9. ASSUME NEW t \in Threads, RecordOutcome(t) PROVE Grows
  BY <1>9 DEF RecordOutcome, Record, Grows
<1>10. ASSUME NEW t \in Threads, NewCall(t) PROVE UNCHANGED dbVars
  <2>1. ASSUME NEW a \in Actions, NEW u \in Actors, Request(t, a, u) PROVE UNCHANGED dbVars
    BY <2>1 DEF Request
  <2>2. ASSUME NEW c \in Confs, NEW a \in Actions, NEW u \in Actors, NEW by, NEW ch,
               ApproveRead(t, c, a, u, by, ch)
        PROVE  UNCHANGED dbVars
    BY <2>2 DEF ApproveRead
  <2>3. ASSUME NEW c \in Confs, NEW u \in Actors, DenyRead(t, c, u) PROVE UNCHANGED dbVars
    BY <2>3 DEF DenyRead
  <2>4. ASSUME NEW c \in Confs, NEW u \in Operators, NEW v, VoteRead(t, c, u, v)
        PROVE  UNCHANGED dbVars
    BY <2>4 DEF VoteRead
  <2> QED BY <1>10, <2>1, <2>2, <2>3, <2>4 DEF NewCall
<1>11. ASSUME NEW t \in Threads,
              \/ CommitFails(t) \/ ReadApprovals(t) \/ ReadApprovalsRaises(t)
              \/ StartExecute(t) \/ ProviderTimesOut(t)
              \/ (\E outcome \in {"FAILED", "REJECTED"} : RefuseDispatch(t, outcome))
              \/ (\E outcome \in {"EXECUTED", "FAILED"} : ProviderReturns(t, outcome))
       PROVE  UNCHANGED dbVars
  BY <1>11 DEF CommitFails, ReadApprovals, ReadApprovalsRaises, StartExecute, ProviderTimesOut,
               RefuseDispatch, ProviderReturns
<1>12. ASSUME \/ SweepSelect \/ Tick \/ Crash \/ (\E p \in Policies : CreateVersion(p))
              \/ (\E j \in running : ProviderActs(j) \/ WorkerEnds(j))
              \/ UNCHANGED vars
       PROVE  UNCHANGED dbVars
  BY <1>12 DEF SweepSelect, Tick, Crash, CreateVersion, ProviderActs, WorkerEnds, vars, dbVars
<1> QED BY <1>0, <1>1, <1>2, <1>3, <1>4, <1>5, <1>6, <1>7, <1>8, <1>9, <1>10, <1>11, <1>12
           DEF Next, ThreadStep
-----------------------------------------------------------------------------
(* Type correctness *)

AuditRows == [op: 1..MaxOps, outcome: Outcomes, action: Actions,
              cid: Confs \cup {NoConf}, decision: Decisions]

\* The row of a typed call with a typed outcome is typed.
LEMMA RecordType ==
    ASSUME TypeOK, NEW k \in Call, NEW o \in Outcomes, Record(k, o)
    PROVE  audit' \subseteq AuditRows
<1>1. AuditRow(k, o) \in AuditRows
  BY DEF AuditRow, AuditRows, Call
<1> QED BY <1>1 DEF Record, TypeOK, AuditRows

\* A thread that returns, moves on or takes up a call keeps the typing of
\* pc and call.
LEMMA ReturnType ==
    ASSUME TypeOK, NEW t \in Threads, Return(t)
    PROVE  /\ pc' \in [Threads -> PCs] /\ call' \in [Threads -> Call \cup {NoCall}]
           /\ \A u \in Threads : pc'[u] # "idle" => call'[u] \in Call
           /\ \A u \in Threads : u # t => pc'[u] = pc[u] /\ call'[u] = call[u]
           /\ pc'[t] = "idle"
BY DEF Return, TypeOK, PCs

\* A thread of ExecutionGate that moves on inside a call stays typed.
LEMMA GotoType ==
    ASSUME TypeOK, NEW t \in Threads, NEW w \in PCs, call[t] \in Call,
           NEW n \in Verdicts \cup DispatchOutcomes \cup {"GRANTED", "DENIED", "-"},
           Goto(t, w, n)
    PROVE  /\ pc' \in [Threads -> PCs] /\ call' \in [Threads -> Call \cup {NoCall}]
           /\ \A u \in Threads : pc'[u] # "idle" => call'[u] \in Call
           /\ \A u \in Threads : u # t => pc'[u] = pc[u] /\ call'[u] = call[u]
           /\ pc'[t] = w
           /\ call'[t] = [call[t] EXCEPT !.note = n]
<1>1. [call[t] EXCEPT !.note = n] \in Call
  BY DEF Call
<1>2. call' = [call EXCEPT ![t] = [call[t] EXCEPT !.note = n]]
  BY DEF Goto
<1> QED BY <1>1, <1>2 DEF Goto, TypeOK, PCs

\* A thread that takes a new call (request, approve, deny, a vote) is typed.
LEMMA AcceptType ==
    ASSUME TypeOK, NEW t \in Threads, NEW w \in PCs, NEW k \in Call, Accept(t, k, w)
    PROVE  /\ pc' \in [Threads -> PCs] /\ call' \in [Threads -> Call \cup {NoCall}]
           /\ \A u \in Threads : pc'[u] # "idle" => call'[u] \in Call
           /\ \A u \in Threads : u # t => pc'[u] = pc[u] /\ call'[u] = call[u]
           /\ pc'[t] = w /\ call'[t] = k
           /\ ops' \in 0..MaxOps
BY GateAssumption DEF Accept, TypeOK, PCs

\* The commit of approve() keeps its thread, the audit table and the
\* confirmation table typed.
LEMMA ResolveType ==
    ASSUME TypeOK, NEW t \in Threads, NEW v \in Verdicts \ {"ballot"}, call[t] \in Call,
           Resolve(t, v)
    PROVE  /\ pc' \in [Threads -> PCs] /\ call' \in [Threads -> Call \cup {NoCall}]
           /\ \A u \in Threads : pc'[u] # "idle" => call'[u] \in Call
           /\ \A u \in Threads : u # t => pc'[u] = pc[u] /\ call'[u] = call[u]
           /\ audit' \subseteq AuditRows
           /\ v = "ok" => pc'[t] = "dispatch" /\ call'[t] = [call[t] EXCEPT !.note = "-"]
           /\ v # "ok" => pc'[t] = "idle"
<1>1. OutcomeFor(v) \in Outcomes
  BY DEF OutcomeFor, Outcomes, DispatchOutcomes
<1>2. audit' \subseteq AuditRows
  BY <1>1, RecordType DEF Resolve
<1>3. CASE v = "ok"
  <2>1. Goto(t, "dispatch", "-")
    BY <1>3 DEF Resolve
  <2> QED BY <1>2, <1>3, <2>1, GotoType DEF PCs
<1>4. CASE v # "ok"
  <2>1. Return(t)
    BY <1>4 DEF Resolve
  <2> QED BY <1>2, <1>4, <2>1, ReturnType
<1> QED BY <1>3, <1>4

-----------------------------------------------------------------------------
(* The inductive step *)

\* A binding survives every growing step.
LEMMA MatchesStable ==
    ASSUME NEW k, Matches(k), Grows
    PROVE  Matches(k)'
BY DEF Matches, Grows

\* A thread that a growing step leaves where it is keeps what it has secured.
LEMMA PlaceStable ==
    ASSUME TypeOK, Grows, NEW t \in Threads, PlaceOK(t), pc'[t] = pc[t], call'[t] = call[t]
    PROVE  PlaceOK(t)'
<1>1. CASE pc[t] = "idle"
  BY <1>1 DEF PlaceOK
<1>2. CASE pc[t] = "decided"
  BY <1>2 DEF PlaceOK
<1>3. CASE pc[t] \in {"deny", "vote"}
  BY <1>3 DEF PlaceOK, Grows
<1>4. CASE pc[t] = "tally"
  BY <1>4 DEF PlaceOK, Grows, Matches
<1>5. CASE pc[t] = "resolve"
  <2>1. (call[t].note \in {"ok", "ballot"} => Matches(call[t]) /\ call[t].action \notin Forbidden)'
    BY <1>5 DEF PlaceOK, Grows, Matches
  <2>2. (call[t].note = "ok" /\ call[t].action \in Dual => TwoGranters(approvals[call[t].cid]))'
    BY <1>5 DEF PlaceOK, Grows, TwoGranters
  <2>3. (/\ call[t].cid \in Confs /\ call[t].note \in Verdicts
         /\ call[t].note # "unknown" => conf[call[t].cid] # NoRow)'
    BY <1>5 DEF PlaceOK, Grows
  <2>4. pc'[t] = "resolve"
    BY <1>5
  <2> QED BY <2>1, <2>2, <2>3, <2>4 DEF PlaceOK
<1>6. CASE pc[t] \in {"dispatch", "wait", "record"}
  <2>1. JobOf(call[t]) \in Job
    BY <1>6 DEF TypeOK, Call, Job, JobOf
  <2>2. Authorised(JobOf(call[t]))
    BY <1>6 DEF PlaceOK
  <2>3. PICK j \in Job : j = JobOf(call[t]) /\ Authorised(j)
    BY <2>1, <2>2
  <2>4. Authorised(j)'
    BY <2>3, AuthorisedStable
  <2>5. JobOf(call[t])' = j
    BY <2>3 DEF JobOf
  <2>6. Authorised(JobOf(call[t]))'
    BY <2>4, <2>5 DEF Authorised, Matches
  <2>7. (pc[t] = "record" => call[t].note \in DispatchOutcomes)'
    BY DEF PlaceOK
  <2> QED BY <1>6, <2>6, <2>7 DEF PlaceOK
<1> QED BY <1>1, <1>2, <1>3, <1>4, <1>5, <1>6 DEF TypeOK, PCs

\* The part of the invariant that is not about the acting thread.
LEMMA Frame ==
    ASSUME GateInv, Grows, TypeOK',
           \A u \in Threads : PlaceOK(u)' \/ (pc'[u] = pc[u] /\ call'[u] = call[u]),
           \A c \in batch' : c \in batch \/ conf[c] # NoRow,
           \A j \in running' : j \in running \/ Authorised(j),
           \A e \in effects' : e \in effects \/ e \in running,
           UsedIsAudited'
    PROVE  GateInv'
<1>1. \A u \in Threads : PlaceOK(u)'
  BY PlaceStable DEF GateInv
<1>2. ASSUME NEW c \in batch' PROVE conf'[c] # NoRow
  BY DEF GateInv, Grows, TypeOK
<1>3. ASSUME NEW j \in running' PROVE Authorised(j)'
  <2>1. Authorised(j)
    BY DEF GateInv
  <2>2. j \in Job
    BY DEF TypeOK
  <2> QED BY <2>1, <2>2, AuthorisedStable
<1>4. ASSUME NEW e \in effects' PROVE Authorised(e)'
  <2>1. Authorised(e)
    BY DEF GateInv
  <2>2. e \in Job
    BY DEF TypeOK
  <2> QED BY <2>1, <2>2, AuthorisedStable
<1> QED BY <1>1, <1>2, <1>3, <1>4 DEF GateInv

\* A consumed confirmation stays audited when no row becomes USED.
LEMMA UsedStable ==
    ASSUME GateInv, Grows,
           \A c \in Confs : conf'[c].status = "USED" =>
               \/ conf[c].status = "USED"
               \/ \E r \in audit' : r.cid = c /\ r.outcome = "AUTHORIZED"
    PROVE  UsedIsAudited'
BY DEF GateInv, Grows, UsedIsAudited

\* Reads: taking up a call.
LEMMA NewCallStep ==
    ASSUME GateInv, Grows, NEW t \in Threads, NewCall(t)
    PROVE  GateInv'
<1> USE DEF GateInv
<1>0. ASSUME NEW k \in Call, NEW w \in PCs, Accept(t, k, w),
             UNCHANGED <<now, policy, dbVars, batch, provVars>>, PlaceOK(t)'
      PROVE  GateInv'
  <2>1. TypeOK'
    BY <1>0, AcceptType DEF TypeOK, dbVars, provVars
  <2>2. \A u \in Threads : PlaceOK(u)' \/ (pc'[u] = pc[u] /\ call'[u] = call[u])
    BY <1>0, AcceptType
  <2>3. UsedIsAudited'
    BY <1>0, UsedStable DEF dbVars
  <2> QED BY <1>0, <2>1, <2>2, <2>3, Frame DEF provVars
<1>1. ops + 1 \in 1..MaxOps
  <2>1. ASSUME NEW a \in Actions, NEW u \in Actors, Request(t, a, u) PROVE ops < MaxOps
    BY <2>1 DEF Request, Accept
  <2>2. ASSUME NEW c \in Confs, NEW a \in Actions, NEW u \in Actors, NEW by, NEW ch,
               ApproveRead(t, c, a, u, by, ch)
        PROVE  ops < MaxOps
    BY <2>2 DEF ApproveRead, Accept
  <2>3. ASSUME NEW c \in Confs, NEW u \in Actors, DenyRead(t, c, u) PROVE ops < MaxOps
    BY <2>3 DEF DenyRead, Accept
  <2>4. ASSUME NEW c \in Confs, NEW u \in Operators, NEW v, VoteRead(t, c, u, v)
        PROVE  ops < MaxOps
    BY <2>4 DEF VoteRead, Accept
  <2>5. ops < MaxOps
    BY <2>1, <2>2, <2>3, <2>4 DEF NewCall
  <2> QED BY <2>5, GateAssumption DEF TypeOK
<1>2. ASSUME NEW a \in Actions, NEW u \in Actors, Request(t, a, u) PROVE GateInv'
  <2> DEFINE k == [op |-> ops + 1, action |-> a, actor |-> u, by |-> "requester",
                   challenge |-> "wrong", cid |-> NoConf,
                   decision |-> IF a \in Forbidden THEN "DENY" ELSE policy[a], note |-> "-"]
  <2>1. k.decision \in Decisions
    BY GateAssumption DEF TypeOK, Decisions
  <2>2. k \in Call
    BY <1>1, <2>1 DEF Call
  <2>3. Accept(t, k, "decided")
    BY <1>2 DEF Request
  <2>4. PlaceOK(t)'
    BY <2>2, <2>3, AcceptType DEF PlaceOK, PCs
  <2> QED BY <1>0, <1>2, <2>2, <2>3, <2>4 DEF Request, PCs
<1>3. ASSUME NEW c \in Confs, NEW u \in Actors, DenyRead(t, c, u) PROVE GateInv'
  <2> DEFINE k == [op |-> ops + 1, action |-> conf[c].action, actor |-> u,
                   by |-> "requester", challenge |-> "wrong", cid |-> c,
                   decision |-> conf[c].decision, note |-> "-"]
  <2>1. conf[c] # NoRow /\ conf[c] \in Confirmation
    BY <1>3 DEF DenyRead, TypeOK, NoRow
  <2>2. k \in Call
    BY <1>1, <2>1 DEF Call, Confirmation, Decisions
  <2>3. Accept(t, k, "deny")
    BY <1>3 DEF DenyRead
  <2>4. PlaceOK(t)'
    BY <1>3, <2>1, <2>2, <2>3, AcceptType DEF PlaceOK, PCs, DenyRead, dbVars
  <2> QED BY <1>0, <1>3, <2>2, <2>3, <2>4 DEF DenyRead, PCs
<1>4. ASSUME NEW c \in Confs, NEW u \in Operators, NEW v \in {"GRANTED", "DENIED"},
             VoteRead(t, c, u, v)
      PROVE  GateInv'
  <2> DEFINE k == [op |-> ops + 1, action |-> conf[c].action, actor |-> u,
                   by |-> "operator", challenge |-> "wrong", cid |-> c,
                   decision |-> conf[c].decision, note |-> v]
  <2>1. conf[c] # NoRow /\ conf[c] \in Confirmation
    BY <1>4 DEF VoteRead, TypeOK, NoRow
  <2>2. k \in Call
    BY <1>1, <2>1, GateAssumption DEF Call, Confirmation, Decisions
  <2>3. Accept(t, k, "vote")
    BY <1>4 DEF VoteRead
  <2>4. PlaceOK(t)'
    BY <1>4, <2>1, <2>2, <2>3, AcceptType DEF PlaceOK, PCs, VoteRead, dbVars
  <2> QED BY <1>0, <1>4, <2>2, <2>3, <2>4 DEF VoteRead, PCs
<1>5. ASSUME NEW c \in Confs, NEW a \in Actions, NEW u \in Actors,
             NEW by \in {"requester", "operator"}, NEW ch \in {"right", "wrong"},
             ApproveRead(t, c, a, u, by, ch)
      PROVE  GateInv'
  <2> DEFINE k == [op |-> ops + 1, action |-> a, actor |-> u, by |-> by,
                   challenge |-> ch, cid |-> c,
                   decision |-> IF conf[c] = NoRow THEN "DENY" ELSE conf[c].decision,
                   note |-> "-"]
             v == Validate(conf[c], k)
             w == IF v = "ok" /\ a \in Dual THEN "tally" ELSE "resolve"
             kv == [k EXCEPT !.note = v]
  <2>1. conf[c] # NoRow => conf[c] \in Confirmation
    BY DEF TypeOK
  <2>2. v \in Verdicts \ {"ballot"}
    BY DEF Validate, Verdicts
  <2>3. k.decision \in Decisions
    BY <2>1 DEF Confirmation, Decisions
  <2>4. kv \in Call
    BY <1>1, <2>2, <2>3 DEF Call
  <2>5. Accept(t, kv, w) /\ w \in {"tally", "resolve"}
    BY <1>5 DEF ApproveRead
  <2>6. v # "unknown" => conf[c] # NoRow
    BY DEF Validate
  <2>7. v = "ok" => Matches(kv) /\ a \notin Forbidden
    BY <2>1 DEF Validate, Matches, Confirmation
  <2>8. pc'[t] = w /\ call'[t] = kv
    BY <2>4, <2>5, AcceptType DEF PCs
  <2>9. UNCHANGED <<conf, approvals>>
    BY <1>5 DEF ApproveRead, dbVars
  <2>10. PlaceOK(t)'
    <3>1. CASE v = "ok" /\ a \in Dual
      BY <2>2, <2>7, <2>8, <2>9, <3>1 DEF PlaceOK, Matches
    <3>2. CASE v = "ok" /\ a \notin Dual
      BY <2>2, <2>7, <2>8, <2>9, <3>2 DEF PlaceOK, Matches
    <3>3. CASE v # "ok"
      BY <2>2, <2>6, <2>8, <2>9, <3>3 DEF PlaceOK
    <3> QED BY <3>1, <3>2, <3>3
  <2> QED BY <1>0, <1>5, <2>4, <2>5, <2>10 DEF ApproveRead, PCs
<1> QED BY <1>2, <1>3, <1>4, <1>5 DEF NewCall

\* The steps of a thread serving a call.
LEMMA ThreadStepInv ==
    ASSUME GateInv, Grows, NEW t \in Threads,
           \/ ThreadStep(t) \/ CommitFails(t)
           \/ \E outcome \in {"EXECUTED", "FAILED"} : ProviderReturns(t, outcome)
    PROVE  GateInv'
<1> USE DEF GateInv
\* A step that ends the call, with an audit row and no change of the tables.
<1>0. ASSUME Return(t), UNCHANGED <<now, policy, conf, approvals, batch, provVars, ops>>,
             audit' \subseteq AuditRows
      PROVE  GateInv'
  <2>1. TypeOK'
    BY <1>0, ReturnType DEF TypeOK, AuditRows, provVars
  <2>2. \A u \in Threads : PlaceOK(u)' \/ (pc'[u] = pc[u] /\ call'[u] = call[u])
    BY <1>0, ReturnType DEF PlaceOK
  <2>3. UsedIsAudited'
    BY <1>0, UsedStable
  <2> QED BY <1>0, <2>1, <2>2, <2>3, Frame DEF provVars
\* A step that moves on, leaving the confirmations and approvals alone.
<1>00. ASSUME NEW w \in PCs, call[t] \in Call,
              NEW n \in Verdicts \cup DispatchOutcomes \cup {"GRANTED", "DENIED", "-"},
              Goto(t, w, n), PlaceOK(t)', audit' \subseteq AuditRows,
              UNCHANGED <<now, policy, conf, approvals, batch, effects, ops>>,
              running' \subseteq Job, \A j \in running' : j \in running \/ Authorised(j)
      PROVE  GateInv'
  <2>1. TypeOK'
    BY <1>00, GotoType DEF TypeOK, AuditRows
  <2>2. \A u \in Threads : PlaceOK(u)' \/ (pc'[u] = pc[u] /\ call'[u] = call[u])
    BY <1>00, GotoType
  <2>3. UsedIsAudited'
    BY <1>00, UsedStable
  <2> QED BY <1>00, <2>1, <2>2, <2>3, Frame
<1>a. pc[t] # "idle" => call[t] \in Call
  BY DEF TypeOK
<1>b. audit \subseteq AuditRows
  BY DEF TypeOK, AuditRows
<1>1. ASSUME RefuseRequest(t) PROVE GateInv'
  BY <1>a, <1>1, <1>0, RecordType DEF RefuseRequest, Outcomes
<1>2. ASSUME NEW c \in Confs, RequireConfirmation(t, c) PROVE GateInv'
  <2> DEFINE row == [status |-> "PENDING", action |-> call[t].action, owner |-> call[t].actor,
                     decision |-> call[t].decision, expires |-> now + TTL]
             k == [call[t] EXCEPT !.cid = c]
  <2>1. call[t] \in Call /\ k \in Call
    BY <1>a, <1>2 DEF RequireConfirmation, Call
  <2>2. row \in Confirmation
    BY <1>2, <2>1, GateAssumption DEF RequireConfirmation, Call, Confirmation, TypeOK
  <2>3. conf' \in [Confs -> Confirmation \cup {NoRow}]
    BY <1>2, <2>2 DEF RequireConfirmation, TypeOK
  <2>4. audit' \subseteq AuditRows
    BY <1>2, <2>1, RecordType DEF RequireConfirmation, Outcomes
  <2>5. TypeOK'
    BY <1>2, <2>3, <2>4, ReturnType DEF RequireConfirmation, TypeOK, AuditRows, provVars
  <2>6. \A u \in Threads : PlaceOK(u)' \/ (pc'[u] = pc[u] /\ call'[u] = call[u])
    BY <1>2, ReturnType DEF PlaceOK, RequireConfirmation
  <2>7. \A d \in Confs : conf'[d].status = "USED" => conf[d].status = "USED"
    BY <1>2 DEF RequireConfirmation, TypeOK
  <2>8. UsedIsAudited'
    BY <2>7, UsedStable
  <2> QED BY <1>2, <2>5, <2>6, <2>8, Frame DEF RequireConfirmation, provVars
<1>3. ASSUME Authorize(t) PROVE GateInv'
  <2>1. call[t] \in Call /\ call[t].cid = NoConf /\ call[t].action \notin Forbidden
    BY <1>a, <1>3 DEF Authorize, PlaceOK
  <2>2. audit' \subseteq AuditRows
    BY <1>3, <2>1, RecordType DEF Authorize, Outcomes
  <2>3. pc'[t] = "dispatch" /\ call'[t] = [call[t] EXCEPT !.note = "-"]
    BY <1>3, <2>1, GotoType DEF Authorize, PCs
  <2>4. AuditRow(call[t], "AUTHORIZED") \in audit'
    BY <1>3 DEF Authorize, Record
  <2>5. JobOf(call'[t]) = JobOf(call[t])
    BY <2>1, <2>3 DEF JobOf, Call
  <2>6. Authorised(JobOf(call[t]))'
    BY <1>3, <2>1, <2>4, <2>5 DEF Authorised, JobOf, AuditRow, Authorize
  <2>7. PlaceOK(t)'
    BY <2>3, <2>6 DEF PlaceOK
  <2> QED BY <1>00, <1>3, <2>1, <2>2, <2>7 DEF Authorize, PCs, TypeOK, provVars
<1>4. ASSUME ReadApprovals(t) PROVE GateInv'
  <2> DEFINE list == approvals[call[t].cid]
             mine == RowsBy(list, call[t].actor)
             n == IF mine # {} THEN Tally(list)
                  ELSE IF Len(list) >= 2 THEN "dualFull" ELSE "ballot"
  <2>1. /\ call[t] \in Call /\ Matches(call[t]) /\ call[t].action \notin Forbidden
        /\ call[t].cid \in Confs /\ conf[call[t].cid] # NoRow
    BY <1>a, <1>4 DEF ReadApprovals, PlaceOK
  <2>2. Goto(t, "resolve", n)
    BY <1>4 DEF ReadApprovals
  <2>3. n \in Verdicts \ {"unknown"}
    BY TallyValues DEF Verdicts
  <2>4. pc'[t] = "resolve" /\ call'[t] = [call[t] EXCEPT !.note = n]
    BY <2>1, <2>2, <2>3, GotoType DEF PCs
  <2>5. list \in Seq(Approval)
    BY <2>1 DEF TypeOK
  <2>6. n = "ok" => TwoGranters(list)
    BY <2>5, TallyOk
  <2>7. UNCHANGED <<conf, approvals>>
    BY <1>4 DEF ReadApprovals, dbVars
  <2>8. /\ call'[t].cid = call[t].cid /\ call'[t].note = n /\ call'[t].action = call[t].action
        /\ call'[t].by = call[t].by /\ call'[t].actor = call[t].actor
        /\ call'[t].challenge = call[t].challenge
    BY <2>1, <2>4 DEF Call
  <2>9. Matches(call[t])'
    BY <2>1, <2>7, <2>8 DEF Matches
  <2>10. TwoGranters(list) => TwoGranters(approvals[call[t].cid])'
    BY <2>7, <2>8 DEF TwoGranters
  <2>11. PlaceOK(t)'
    BY <2>1, <2>3, <2>4, <2>6, <2>7, <2>8, <2>9, <2>10 DEF PlaceOK
  <2> QED BY <1>00, <1>b, <1>4, <2>1, <2>2, <2>3, <2>11
          DEF ReadApprovals, PCs, TypeOK, provVars, dbVars
<1>5. ASSUME ReadApprovalsRaises(t) \/ CommitFails(t) PROVE GateInv'
  BY <1>0, <1>b, <1>5 DEF ReadApprovalsRaises, CommitFails, dbVars
\* The two forms of the commit of approve().
<1>6. ASSUME NEW v \in Verdicts \ {"ballot"}, Resolve(t, v), call[t] \in Call,
             call[t].cid \in Confs, v # "unknown" => conf[call[t].cid] # NoRow,
             v = "ok" => Matches(call[t]) /\ call[t].action \notin Forbidden,
             v = "ok" /\ call[t].action \in Dual => TwoGranters(approvals'[call[t].cid]),
             approvals' \in [Confs -> Seq(Approval)],
             UNCHANGED <<now, policy, batch, provVars, ops>>
      PROVE  GateInv'
  <2>1. conf' \in [Confs -> Confirmation \cup {NoRow}]
    BY <1>6, ResolveGrows
  <2>2. TypeOK'
    BY <1>6, <2>1, ResolveType DEF TypeOK, AuditRows, provVars
  <2>3. AuditRow(call[t], OutcomeFor(v)) \in audit'
    BY <1>6 DEF Resolve, Record
  <2>4. UsedIsAudited'
    <3>1. ASSUME NEW c \in Confs, conf'[c].status = "USED", conf[c].status # "USED"
          PROVE  c = call[t].cid /\ v = "ok"
      <4>1. CASE v \in {"unknown", "redundant", "awaiting"}
        BY <1>6, <3>1, <4>1 DEF Resolve
      <4>2. CASE v \notin {"unknown", "redundant", "awaiting"}
        <5>1. MarkStatus(call[t].cid, StatusFor(v)) /\ StatusFor(v) \in Terminal
          BY <1>6, <4>2 DEF Resolve, StatusFor, Terminal
        <5>2. conf'[call[t].cid].status = StatusFor(v) /\ (c # call[t].cid => conf'[c] = conf[c])
          BY <1>6, <4>2, <5>1, MarkStatusGrows
        <5> QED BY <3>1, <5>2 DEF StatusFor
      <4> QED BY <4>1, <4>2
    <3>2. v = "ok" => \E r \in audit' : r.cid = call[t].cid /\ r.outcome = "AUTHORIZED"
      BY <2>3 DEF OutcomeFor, AuditRow
    <3> QED BY <3>1, <3>2, UsedStable
  <2>5. PlaceOK(t)'
    <3>1. CASE v # "ok"
      BY <1>6, <3>1, ResolveType DEF PlaceOK
    <3>2. CASE v = "ok"
      <4>1. pc'[t] = "dispatch" /\ call'[t] = [call[t] EXCEPT !.note = "-"]
        BY <1>6, <3>2, ResolveType
      <4>2. /\ call'[t].cid = call[t].cid /\ call'[t].action = call[t].action
            /\ call'[t].by = call[t].by /\ call'[t].actor = call[t].actor
            /\ call'[t].challenge = call[t].challenge /\ call'[t].op = call[t].op
        BY <1>6, <4>1 DEF Call
      <4>3. conf'[call[t].cid].status = "USED"
        <5>1. MarkStatus(call[t].cid, "USED")
          BY <1>6, <3>2 DEF Resolve, StatusFor
        <5> QED BY <1>6, <3>2, <5>1, MarkStatusGrows DEF Terminal
      <4>4. Matches(call[t])'
        BY <1>6, <3>2, <4>2, MatchesStable DEF Matches, Grows
      <4>5. (call[t].action \in Dual => TwoGranters(approvals[call[t].cid]))'
        BY <1>6, <3>2, <4>2 DEF TwoGranters
      <4>6. (\E r \in audit : /\ r.op = call[t].op /\ r.outcome = "AUTHORIZED"
                              /\ r.action = call[t].action /\ r.cid = call[t].cid)'
        BY <2>3, <3>2, <4>2 DEF OutcomeFor, AuditRow
      <4>7. (call[t].cid # NoConf /\ conf[call[t].cid].status \in Terminal
             /\ call[t].action \notin Forbidden)'
        BY <1>6, <3>2, <4>2, <4>3, GateAssumption DEF Terminal
      <4>8. Authorised(JobOf(call[t]))'
        BY <4>4, <4>5, <4>6, <4>7 DEF Authorised, JobOf, Matches
      <4> QED BY <4>1, <4>8 DEF PlaceOK
    <3> QED BY <3>1, <3>2
  <2>6. \A u \in Threads : PlaceOK(u)' \/ (pc'[u] = pc[u] /\ call'[u] = call[u])
    BY <1>6, <2>5, ResolveType
  <2> QED BY <1>6, <2>2, <2>4, <2>6, Frame DEF provVars
<1>7. ASSUME ApproveCommit(t) PROVE GateInv'
  <2>1. /\ call[t] \in Call /\ call[t].cid \in Confs
        /\ call[t].note \in Verdicts \ {"ballot"}
        /\ call[t].note # "unknown" => conf[call[t].cid] # NoRow
        /\ call[t].note = "ok" => Matches(call[t]) /\ call[t].action \notin Forbidden
        /\ call[t].note = "ok" /\ call[t].action \in Dual => TwoGranters(approvals[call[t].cid])
    BY <1>a, <1>7 DEF ApproveCommit, PlaceOK
  <2>2. approvals' = approvals /\ Resolve(t, call[t].note)
        /\ UNCHANGED <<now, policy, batch, provVars, ops>>
    BY <1>7 DEF ApproveCommit
  <2> QED BY <1>6, <2>1, <2>2 DEF TypeOK
<1>8. ASSUME ApproveCommitBallot(t) PROVE GateInv'
  <2> DEFINE c == call[t].cid
             x == [actor |-> call[t].actor, status |-> "GRANTED"]
             list == Append(approvals[c], x)
  <2>1. /\ call[t] \in Call /\ c \in Confs /\ conf[c] # NoRow
        /\ Matches(call[t]) /\ call[t].action \notin Forbidden
    BY <1>a, <1>8 DEF ApproveCommitBallot, PlaceOK
  <2>2. approvals[c] \in Seq(Approval) /\ x \in Approval
    BY <2>1 DEF TypeOK, Call, Approval
  <2>3. list \in Seq(Approval)
    BY <2>2, AppendGranters
  <2>4. /\ Resolve(t, Tally(list)) /\ approvals' = [approvals EXCEPT ![c] = list]
        /\ UNCHANGED <<now, policy, batch, provVars, ops>>
    BY <1>8 DEF ApproveCommitBallot
  <2>5. approvals' \in [Confs -> Seq(Approval)] /\ approvals'[c] = list
    BY <2>1, <2>3, <2>4 DEF TypeOK
  <2>6. Tally(list) \in Verdicts \ {"ballot", "unknown"}
    BY TallyValues DEF Verdicts
  <2>7. Tally(list) = "ok" => TwoGranters(approvals'[c])
    BY <2>3, <2>5, TallyOk
  <2> QED BY <1>6, <2>1, <2>4, <2>5, <2>6, <2>7
<1>9. ASSUME DenyCommit(t) PROVE GateInv'
  <2>1. /\ call[t] \in Call /\ call[t].cid \in Confs /\ conf[call[t].cid] # NoRow
        /\ MarkStatus(call[t].cid, "DENIED")
    BY <1>a, <1>9 DEF DenyCommit, PlaceOK
  <2>2. audit' \subseteq AuditRows
    BY <1>9, <2>1, RecordType DEF DenyCommit, Outcomes
  <2>3. /\ conf' \in [Confs -> Confirmation \cup {NoRow}]
        /\ \A d \in Confs : conf'[d].status = "USED" => conf[d].status = "USED"
    BY <2>1, MarkStatusGrows DEF Terminal
  <2>4. TypeOK'
    BY <1>9, <2>2, <2>3, ReturnType DEF DenyCommit, TypeOK, AuditRows, provVars
  <2>5. \A u \in Threads : PlaceOK(u)' \/ (pc'[u] = pc[u] /\ call'[u] = call[u])
    BY <1>9, ReturnType DEF PlaceOK, DenyCommit
  <2>6. UsedIsAudited'
    BY <2>3, UsedStable
  <2> QED BY <1>9, <2>4, <2>5, <2>6, Frame DEF DenyCommit, provVars
<1>10. ASSUME VoteCommit(t) PROVE GateInv'
  <2> DEFINE c == call[t].cid
             x == [actor |-> call[t].actor, status |-> call[t].note]
             list == Append(approvals[c], x)
  <2>1. c \in Confs /\ approvals[c] \in Seq(Approval) /\ x \in Approval
    BY <1>a, <1>10 DEF VoteCommit, PlaceOK, TypeOK, Call, Approval
  <2>2. list \in Seq(Approval)
    BY <2>1, AppendGranters
  <2>3. approvals' \in [Confs -> Seq(Approval)]
    BY <1>10, <2>1, <2>2 DEF VoteCommit, TypeOK
  <2>4. TypeOK'
    BY <1>10, <2>3, ReturnType DEF VoteCommit, TypeOK, provVars
  <2>5. \A u \in Threads : PlaceOK(u)' \/ (pc'[u] = pc[u] /\ call'[u] = call[u])
    BY <1>10, ReturnType DEF PlaceOK, VoteCommit
  <2>6. UsedIsAudited'
    BY <1>10, UsedStable DEF VoteCommit
  <2> QED BY <1>10, <2>4, <2>5, <2>6, Frame DEF VoteCommit, provVars
\* Phase B and C: the job of the call stays the one that was authorised.
<1>11. ASSUME NEW w \in {"wait", "record"}, NEW n \in DispatchOutcomes \cup {"-"},
              Goto(t, w, n), w = "record" => n \in DispatchOutcomes,
              pc[t] \in {"dispatch", "wait"},
              UNCHANGED <<now, policy, dbVars, batch, effects, ops>>,
              running' \subseteq running \cup {JobOf(call[t])}
       PROVE  GateInv'
  <2>1. call[t] \in Call /\ Authorised(JobOf(call[t])) /\ JobOf(call[t]) \in Job
    BY <1>a, <1>11 DEF PlaceOK, JobOf, Job, Call
  <2>2. pc'[t] = w /\ call'[t] = [call[t] EXCEPT !.note = n]
    BY <1>11, <2>1, GotoType DEF PCs
  <2>3. /\ call'[t].cid = call[t].cid /\ call'[t].action = call[t].action
        /\ call'[t].by = call[t].by /\ call'[t].actor = call[t].actor
        /\ call'[t].challenge = call[t].challenge /\ call'[t].op = call[t].op
        /\ call'[t].note = n
    BY <2>1, <2>2 DEF Call
  <2>4. PICK j \in Job : j = JobOf(call[t]) /\ Authorised(j)
    BY <2>1
  <2>5. Authorised(j)'
    BY <2>4, AuthorisedStable
  <2>6. JobOf(call[t])' = j
    BY <2>3, <2>4 DEF JobOf
  <2>7. Authorised(JobOf(call[t]))'
    BY <2>5, <2>6 DEF Authorised, Matches
  <2>8. PlaceOK(t)'
    BY <1>11, <2>2, <2>3, <2>7 DEF PlaceOK
  <2>9. running' \subseteq Job /\ \A i \in running' : i \in running \/ Authorised(i)
    BY <1>11, <2>1 DEF TypeOK
  <2> QED BY <1>00, <1>b, <1>11, <2>1, <2>8, <2>9 DEF PCs, dbVars
<1>12. ASSUME NEW o \in {"FAILED", "REJECTED"}, RefuseDispatch(t, o) PROVE GateInv'
  BY <1>11, <1>12 DEF RefuseDispatch, DispatchOutcomes, provVars
<1>13. ASSUME StartExecute(t) PROVE GateInv'
  BY <1>11, <1>13 DEF StartExecute
<1>14. ASSUME ProviderTimesOut(t) PROVE GateInv'
  BY <1>11, <1>14 DEF ProviderTimesOut, DispatchOutcomes, provVars
<1>15. ASSUME RecordOutcome(t) PROVE GateInv'
  <2>1. call[t] \in Call /\ call[t].note \in Outcomes
    BY <1>a, <1>15 DEF RecordOutcome, PlaceOK, Outcomes
  <2>2. audit' \subseteq AuditRows
    BY <1>15, <2>1, RecordType DEF RecordOutcome
  <2> QED BY <1>0, <1>15, <2>2 DEF RecordOutcome
<1>16. ASSUME NEW o \in {"EXECUTED", "FAILED"}, ProviderReturns(t, o) PROVE GateInv'
  BY <1>11, <1>16 DEF ProviderReturns, DispatchOutcomes
<1> QED BY <1>1, <1>2, <1>3, <1>4, <1>5, <1>7, <1>8, <1>9, <1>10, <1>12, <1>13, <1>14, <1>15,
           <1>16 DEF ThreadStep

\* The steps of the sweeper, the providers, the clock, the policy and a crash.
LEMMA OtherStepInv ==
    ASSUME GateInv, Grows,
           \/ SweepSelect \/ SweepCommit \/ Tick \/ Crash
           \/ (\E p \in Policies : CreateVersion(p))
           \/ (\E j \in running : ProviderActs(j) \/ WorkerEnds(j))
           \/ UNCHANGED vars
    PROVE  GateInv'
<1> USE DEF GateInv
<1>1. ASSUME SweepSelect PROVE GateInv'
  <2>1. batch' \subseteq Confs /\ \A c \in batch' : conf[c] # NoRow
    BY <1>1 DEF SweepSelect, Overdue, NoRow
  <2>2. TypeOK'
    BY <1>1, <2>1 DEF SweepSelect, TypeOK, dbVars, provVars
  <2>3. UsedIsAudited'
    BY <1>1, UsedStable DEF SweepSelect, dbVars
  <2> QED BY <1>1, <2>1, <2>2, <2>3, Frame DEF SweepSelect, provVars
<1>2. ASSUME SweepCommit PROVE GateInv'
  <2>1. \A c \in batch : [conf[c] EXCEPT !.status = "EXPIRED"] \in Confirmation
    BY DEF TypeOK, Confirmation, Terminal
  <2>2. TypeOK'
    BY <1>2, <2>1 DEF SweepCommit, TypeOK, provVars
  <2>3. \A c \in Confs : conf'[c].status = "USED" => conf[c].status = "USED"
    BY <1>2, <2>1 DEF SweepCommit, TypeOK, Confirmation
  <2>4. UsedIsAudited'
    BY <2>3, UsedStable
  <2> QED BY <1>2, <2>2, <2>4, Frame DEF SweepCommit, provVars
<1>3. ASSUME Tick PROVE GateInv'
  <2>1. TypeOK'
    BY <1>3, GateAssumption DEF Tick, TypeOK, dbVars, provVars
  <2>2. UsedIsAudited'
    BY <1>3, UsedStable DEF Tick, dbVars
  <2> QED BY <1>3, <2>1, <2>2, Frame DEF Tick, provVars
<1>4. ASSUME Crash PROVE GateInv'
  <2>1. TypeOK'
    BY <1>4 DEF Crash, TypeOK, dbVars, PCs
  <2>2. \A u \in Threads : PlaceOK(u)'
    BY <1>4 DEF Crash, PlaceOK
  <2>3. UsedIsAudited'
    BY <1>4, UsedStable DEF Crash, dbVars
  <2> QED BY <1>4, <2>1, <2>2, <2>3, Frame DEF Crash
<1>5. ASSUME NEW p \in Policies, CreateVersion(p) PROVE GateInv'
  <2>1. TypeOK'
    BY <1>5 DEF CreateVersion, TypeOK, dbVars, provVars
  <2>2. UsedIsAudited'
    BY <1>5, UsedStable DEF CreateVersion, dbVars
  <2> QED BY <1>5, <2>1, <2>2, Frame DEF CreateVersion, provVars
<1>6. ASSUME NEW j \in running, ProviderActs(j) PROVE GateInv'
  <2>1. TypeOK'
    BY <1>6 DEF ProviderActs, TypeOK, dbVars
  <2>2. UsedIsAudited'
    BY <1>6, UsedStable DEF ProviderActs, dbVars
  <2> QED BY <1>6, <2>1, <2>2, Frame DEF ProviderActs
<1>7. ASSUME NEW j \in running, WorkerEnds(j) PROVE GateInv'
  <2>1. TypeOK'
    BY <1>7 DEF WorkerEnds, TypeOK, dbVars
  <2>2. UsedIsAudited'
    BY <1>7, UsedStable DEF WorkerEnds, dbVars
  <2> QED BY <1>7, <2>1, <2>2, Frame DEF WorkerEnds
<1>8. ASSUME UNCHANGED vars PROVE GateInv'
  <2>1. TypeOK'
    BY <1>8 DEF vars, TypeOK
  <2>2. UsedIsAudited'
    BY <1>8, UsedStable DEF vars
  <2> QED BY <1>8, <2>1, <2>2, Frame DEF vars
<1> QED BY <1>1, <1>2, <1>3, <1>4, <1>5, <1>6, <1>7, <1>8

\* The initial state satisfies the invariant.
LEMMA InitInv ==
    ASSUME Init PROVE GateInv
<1>1. TypeOK
  BY GateAssumption DEF Init, TypeOK, PCs
<1> QED BY <1>1 DEF Init, GateInv, PlaceOK, UsedIsAudited, NoRow

\* Every step preserves the invariant.
LEMMA StepInv ==
    ASSUME GateInv, [Next]_vars PROVE GateInv'
<1>1. Grows
  BY StepGrows
<1> QED BY <1>1, NewCallStep, ThreadStepInv, OtherStepInv DEF Next

\* The invariant holds throughout.
THEOREM GateInvariant == Spec => []GateInv
<1>1. Init => GateInv
  BY InitInv
<1>2. GateInv /\ [Next]_vars => GateInv'
  BY StepInv
<1> QED BY <1>1, <1>2, PTL DEF Spec

-----------------------------------------------------------------------------
(* The properties *)

\* Every variable keeps its type.
THEOREM TypeCorrect == Spec => []TypeOK
<1>1. GateInv => TypeOK
  BY DEF GateInv
<1> QED BY <1>1, GateInvariant, PTL

\* Audit before execute, for every number of threads and every interleaving
\* with crashes and failing commits: no side effect of execute() without its
\* committed AUTHORIZED row, none of a FORBIDDEN action.
THEOREM AuditBeforeExecuteHolds == Spec => []AuditBeforeExecute
<1>1. GateInv => AuditBeforeExecute
  BY DEF GateInv, Authorised, AuditBeforeExecute
<1> QED BY <1>1, GateInvariant, PTL

\* What approve() dispatches is the action that was confirmed, for its owner
\* or a reviewing operator, with the challenge answered.
THEOREM BoundToConfirmationHolds == Spec => []BoundToConfirmation
<1>1. GateInv => BoundToConfirmation
  BY DEF GateInv, Authorised, Matches, BoundToConfirmation
<1> QED BY <1>1, GateInvariant, PTL

\* No FINANCIAL or BOOKING side effect without the grants of two distinct
\* actors, however approvals and operator votes interleave.
THEOREM TwoDistinctGrantersHolds == Spec => []TwoDistinctGranters
<1>1. GateInv => TwoDistinctGranters
  BY DEF GateInv, Authorised, TwoGranters, TwoDistinctGranters
<1> QED BY <1>1, GateInvariant, PTL

\* A consumed confirmation always has its AUTHORIZED row.
THEOREM UsedIsAuditedHolds == Spec => []UsedIsAudited
<1>1. GateInv => UsedIsAudited
  BY DEF GateInv
<1> QED BY <1>1, GateInvariant, PTL

\* No step reopens a resolved confirmation or changes what it is bound to.
THEOREM NeverReopenedHolds == Spec => NeverReopened
<1>1. GateInv /\ [Next]_vars =>
        [\A c \in Confs : conf[c] # NoRow =>
          /\ conf[c].status \in Terminal => conf'[c].status \in Terminal
          /\ conf'[c].action = conf[c].action /\ conf'[c].owner = conf[c].owner
          /\ conf'[c].decision = conf[c].decision
          /\ conf'[c].expires = conf[c].expires]_vars
  BY StepGrows DEF Grows
<1> QED BY <1>1, GateInvariant, PTL DEF Spec, NeverReopened

-----------------------------------------------------------------------------
(* Single use, when one thread serves the calls *)

\* A dispatch was authorised by confirmation c.
Spent(c) == \E r \in audit : r.outcome = "AUTHORIZED" /\ r.cid = c

\* The approve of thread t may still find in favour of its confirmation.
Deciding(t) == pc[t] = "tally" \/ (pc[t] = "resolve" /\ call[t].note \in {"ok", "ballot"})

\* What was spent is resolved, and what is being decided is not spent.
OnceInv(t) ==
    /\ SingleUse
    /\ \A c \in Confs : Spent(c) => conf[c] # NoRow /\ conf[c].status \in Terminal
    /\ Deciding(t) => ~Spent(call[t].cid)

\* A step that authorises nothing by a confirmation.
LEMMA NothingSpent ==
    ASSUME NEW t \in Threads, GateInv, Grows, OnceInv(t),
           \A r \in audit' : r.outcome = "AUTHORIZED" /\ r.cid # NoConf => r \in audit,
           Deciding(t)' =>
              /\ call'[t].cid \in Confs
              /\ \/ Deciding(t) /\ call'[t].cid = call[t].cid
                 \/ conf[call'[t].cid].status = "PENDING"
    PROVE  OnceInv(t)'
<1>1. SingleUse'
  BY DEF OnceInv, SingleUse
<1>2. \A c \in Confs : Spent(c)' => Spent(c)
  BY GateAssumption DEF Spent
<1>3. \A c \in Confs : Spent(c)' => conf'[c] # NoRow /\ conf'[c].status \in Terminal
  BY <1>2 DEF OnceInv, Grows
<1>4. (Deciding(t) => ~Spent(call[t].cid))'
  <2>1. SUFFICES ASSUME Deciding(t)', \E r \in audit' : r.outcome = "AUTHORIZED" /\ r.cid = call'[t].cid
                 PROVE  FALSE
    BY DEF Spent
  <2>2. PICK c \in Confs : c = call'[t].cid
    BY <2>1
  <2>3. Spent(c)
    <3>1. Spent(c)'
      BY <2>1, <2>2 DEF Spent
    <3> QED BY <1>2, <3>1
  <2>4. conf[c].status # "PENDING"
    BY <2>3 DEF OnceInv, Terminal
  <2> QED BY <2>1, <2>2, <2>3, <2>4 DEF OnceInv
<1> QED BY <1>1, <1>3, <1>4 DEF OnceInv

\* A commit of approve() authorises by a confirmation that was not spent.
LEMMA ResolveOnce ==
    ASSUME NEW t \in Threads, GateInv, Grows, OnceInv(t), Deciding(t), pc[t] = "resolve",
           NEW v \in Verdicts, Resolve(t, v)
    PROVE  OnceInv(t)'
<1>1. PICK c \in Confs : c = call[t].cid
  BY DEF GateInv, PlaceOK
<1>2. call[t] \in Call /\ TypeOK /\ conf[c] # NoRow
  BY <1>1 DEF GateInv, TypeOK, Deciding, PlaceOK, Matches
<1>3. CASE v # "ok"
  <2>1. audit' = audit \cup {AuditRow(call[t], OutcomeFor(v))} /\ pc'[t] = "idle"
    BY <1>2, <1>3 DEF Resolve, Record, Return, TypeOK
  <2>2. AuditRow(call[t], OutcomeFor(v)).outcome # "AUTHORIZED"
    BY <1>3 DEF AuditRow, OutcomeFor
  <2>3. ~Deciding(t)'
    BY <2>1 DEF Deciding
  <2> QED BY <2>1, <2>2, <2>3, NothingSpent
<1>4. CASE v = "ok"
  <2>1. PICK r : r = AuditRow(call[t], "AUTHORIZED")
    OBVIOUS
  <2>2. audit' = audit \cup {r} /\ MarkStatus(c, "USED") /\ pc'[t] = "dispatch"
    BY <1>1, <1>2, <1>4, <2>1 DEF Resolve, Record, OutcomeFor, StatusFor, Goto, TypeOK
  <2>3. r.outcome = "AUTHORIZED" /\ r.cid = c
    BY <1>1, <2>1 DEF AuditRow
  <2>4. \A s \in audit : ~(s.outcome = "AUTHORIZED" /\ s.cid = c)
    BY <1>1 DEF OnceInv, Spent
  <2>5. SingleUse'
    BY <2>2, <2>3, <2>4 DEF OnceInv, SingleUse
  <2>6. conf'[c] # NoRow /\ conf'[c].status \in Terminal
    BY <1>2, <2>2, MarkStatusGrows DEF Terminal
  <2>7. ASSUME NEW d \in Confs, Spent(d)' PROVE conf'[d] # NoRow /\ conf'[d].status \in Terminal
    <3>1. d = c \/ Spent(d)
      BY <2>2, <2>3, <2>7 DEF Spent
    <3> QED BY <2>6, <3>1 DEF OnceInv, Grows
  <2>8. ~Deciding(t)'
    BY <2>2 DEF Deciding
  <2> QED BY <2>5, <2>7, <2>8 DEF OnceInv
<1> QED BY <1>3, <1>4

\* Every step keeps it.
LEMMA OnceStep ==
    ASSUME NEW t, Threads = {t}, GateInv, OnceInv(t), [Next]_vars
    PROVE  OnceInv(t)'
<1>0. t \in Threads /\ Grows /\ TypeOK
  BY StepGrows DEF GateInv
<1>1. ASSUME UNCHANGED audit, ~Deciding(t)' PROVE OnceInv(t)'
  BY <1>0, <1>1, NothingSpent
<1>2. ASSUME UNCHANGED <<audit, pc, call>> PROVE OnceInv(t)'
  <2>1. Deciding(t)' => Deciding(t) /\ call'[t].cid = call[t].cid /\ call[t].cid \in Confs
    BY <1>0, <1>2 DEF Deciding, GateInv, PlaceOK
  <2> QED BY <1>0, <1>2, <2>1, NothingSpent
<1>3. CASE UNCHANGED vars \/ SweepSelect \/ SweepCommit \/ Tick
           \/ (\E p \in Policies : CreateVersion(p)) \/ (\E j \in running : ProviderActs(j) \/ WorkerEnds(j))
  BY <1>2, <1>3 DEF vars, SweepSelect, SweepCommit, Tick, CreateVersion, ProviderActs, WorkerEnds, dbVars
<1>4. CASE Crash
  BY <1>0, <1>1, <1>4 DEF Crash, Deciding, dbVars
<1>5. CASE CommitFails(t) \/ ReadApprovalsRaises(t) \/ VoteCommit(t)
  BY <1>0, <1>1, <1>5 DEF CommitFails, ReadApprovalsRaises, VoteCommit, Return, Deciding, dbVars, TypeOK
<1>6. CASE StartExecute(t) \/ ProviderTimesOut(t)
           \/ (\E outcome \in {"FAILED", "REJECTED"} : RefuseDispatch(t, outcome))
           \/ (\E outcome \in {"EXECUTED", "FAILED"} : ProviderReturns(t, outcome))
  BY <1>0, <1>1, <1>6 DEF StartExecute, ProviderTimesOut, RefuseDispatch, ProviderReturns, Goto, Deciding,
                          dbVars, TypeOK
<1>7. ASSUME NEW a \in Actions, NEW u \in Actors, Request(t, a, u) PROVE OnceInv(t)'
  BY <1>0, <1>1, <1>7 DEF Request, Accept, Deciding, dbVars, TypeOK
<1>8. ASSUME NEW c \in Confs, NEW a \in Actions, NEW u \in Actors, NEW by, NEW ch,
             ApproveRead(t, c, a, u, by, ch)
      PROVE  OnceInv(t)'
  <2>1. PICK k : k = [op |-> ops + 1, action |-> a, actor |-> u, by |-> by, challenge |-> ch, cid |-> c,
                      decision |-> IF conf[c] = NoRow THEN "DENY" ELSE conf[c].decision, note |-> "-"]
    OBVIOUS
  <2>2. PICK verdict : verdict = Validate(conf[c], k)
    OBVIOUS
  <2>3. /\ UNCHANGED audit /\ call'[t] = [k EXCEPT !.note = verdict]
        /\ pc'[t] = IF verdict = "ok" /\ a \in Dual THEN "tally" ELSE "resolve"
    BY <1>0, <1>8, <2>1, <2>2 DEF ApproveRead, Accept, dbVars, TypeOK
  <2>4. call'[t].cid = c /\ call'[t].note = verdict
    BY <2>1, <2>3
  <2>5. verdict # "ballot" /\ (verdict = "ok" => conf[c].status = "PENDING")
    BY <2>2 DEF Validate
  <2>6. Deciding(t)' => conf[c].status = "PENDING"
    BY <2>3, <2>4, <2>5 DEF Deciding
  <2> QED BY <1>0, <2>3, <2>4, <2>6, NothingSpent
<1>9. ASSUME NEW c \in Confs, NEW u \in Actors, DenyRead(t, c, u) PROVE OnceInv(t)'
  BY <1>0, <1>1, <1>9 DEF DenyRead, Accept, Deciding, dbVars, TypeOK
<1>10. ASSUME NEW c \in Confs, NEW u \in Operators, NEW v, VoteRead(t, c, u, v) PROVE OnceInv(t)'
  BY <1>0, <1>1, <1>10 DEF VoteRead, Accept, Deciding, dbVars, TypeOK
<1>11. ASSUME NEW outcome, NEW k, outcome # "AUTHORIZED" \/ k.cid = NoConf, Record(k, outcome), ~Deciding(t)'
       PROVE  OnceInv(t)'
  <2>1. audit' = audit \cup {AuditRow(k, outcome)}
    BY <1>11 DEF Record
  <2>2. AuditRow(k, outcome).outcome = outcome /\ AuditRow(k, outcome).cid = k.cid
    BY DEF AuditRow
  <2> QED BY <1>0, <1>11, <2>1, <2>2, NothingSpent
<1>12. CASE RefuseRequest(t)
  BY <1>0, <1>11, <1>12 DEF RefuseRequest, Return, Deciding, TypeOK
<1>13. ASSUME NEW c \in Confs, RequireConfirmation(t, c) PROVE OnceInv(t)'
  BY <1>0, <1>11, <1>13 DEF RequireConfirmation, Return, Deciding, TypeOK
<1>14. CASE Authorize(t)
  <2>1. call[t].cid = NoConf
    BY <1>0, <1>14 DEF Authorize, GateInv, PlaceOK
  <2> QED BY <1>0, <1>11, <1>14, <2>1 DEF Authorize, Goto, Deciding, TypeOK
<1>15. CASE DenyCommit(t)
  BY <1>0, <1>11, <1>15 DEF DenyCommit, Return, Deciding, TypeOK
<1>16. CASE RecordOutcome(t)
  <2>1. call[t].note # "AUTHORIZED"
    BY <1>0, <1>16 DEF RecordOutcome, GateInv, PlaceOK, DispatchOutcomes
  <2> QED BY <1>0, <1>11, <1>16, <2>1 DEF RecordOutcome, Return, Deciding, TypeOK
<1>17. CASE ReadApprovals(t)
  <2>1. pc[t] = "tally" /\ UNCHANGED audit /\ pc'[t] = "resolve" /\ call[t] \in Call
    BY <1>0, <1>17 DEF ReadApprovals, Goto, dbVars, TypeOK
  <2>2. PICK note : call' = [call EXCEPT ![t].note = note]
    BY <1>17 DEF ReadApprovals, Goto
  <2>3. call'[t].cid = call[t].cid
    BY <1>0, <2>1, <2>2 DEF TypeOK, Call
  <2>4. Deciding(t) /\ call[t].cid \in Confs
    BY <1>0, <2>1 DEF Deciding, GateInv, PlaceOK
  <2> QED BY <1>0, <2>1, <2>3, <2>4, NothingSpent
<1>18. CASE ApproveCommit(t)
  <2>1. /\ pc[t] = "resolve" /\ Resolve(t, call[t].note) /\ call[t].note \in Verdicts
        /\ call[t].note # "ballot" /\ call[t] \in Call
    BY <1>0, <1>18 DEF ApproveCommit, GateInv, PlaceOK, TypeOK
  <2>2. CASE Deciding(t)
    BY <1>0, <2>1, <2>2, ResolveOnce
  <2>3. CASE ~Deciding(t)
    <3>1. call[t].note # "ok"
      BY <2>1, <2>3 DEF Deciding
    <3>2. Record(call[t], OutcomeFor(call[t].note)) /\ ~Deciding(t)'
      BY <1>0, <2>1, <3>1 DEF Resolve, Return, Deciding, TypeOK
    <3>3. OutcomeFor(call[t].note) # "AUTHORIZED"
      BY <3>1 DEF OutcomeFor
    <3> QED BY <1>11, <3>2, <3>3
  <2> QED BY <2>2, <2>3
<1>19. CASE ApproveCommitBallot(t)
  <2>1. PICK list : list = Append(approvals[call[t].cid], [actor |-> call[t].actor, status |-> "GRANTED"])
    OBVIOUS
  <2>2. pc[t] = "resolve" /\ Deciding(t) /\ Resolve(t, Tally(list)) /\ Tally(list) \in Verdicts
    BY <1>19, <2>1, TallyValues DEF ApproveCommitBallot, Deciding, Verdicts
  <2> QED BY <1>0, <2>2, ResolveOnce
<1>20. CASE NewCall(t)
  BY <1>7, <1>8, <1>9, <1>10, <1>20 DEF NewCall
<1>21. CASE ThreadStep(t)
  BY <1>5, <1>6, <1>12, <1>13, <1>14, <1>15, <1>16, <1>17, <1>18, <1>19, <1>21 DEF ThreadStep
<1> QED BY <1>3, <1>4, <1>5, <1>6, <1>20, <1>21 DEF Next

\* When one thread serves the calls, no confirmation authorises two dispatches,
\* whatever the sweeper, crashes, failing commits and operators do meanwhile.
\* (Two threads can: both may read the row as PENDING before either commits.)
THEOREM SingleUseHolds == ASSUME NEW t, Threads = {t} PROVE Spec => []SingleUse
<1>1. Init => OnceInv(t)
  BY DEF Init, OnceInv, SingleUse, Spent, Deciding
<1>2. GateInv /\ OnceInv(t) /\ [Next]_vars => OnceInv(t)'
  BY OnceStep
<1>3. OnceInv(t) => SingleUse
  BY DEF OnceInv
<1> QED BY <1>1, <1>2, <1>3, GateInvariant, PTL DEF Spec
=============================================================================
