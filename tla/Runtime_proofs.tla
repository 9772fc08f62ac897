--------------------------- MODULE Runtime_proofs ---------------------------
(***************************************************************************)
(* Proofs about the parts that run for long: the workflow engine with one  *)
(* call at a time for a run, the agent loop, the sort of the steps that a  *)
(* definition has to pass first, and the election of the scheduler.        *)
(***************************************************************************)
EXTENDS Workflow, WorkflowDefinitions, Agent, SchedulerLeader, WellFoundedInduction, FiniteSetTheorems, TLAPS

-----------------------------------------------------------------------------
(* The workflow engine *)

\* A driver's record, and the places of its workers.
EngineRecords == [pc: {"idle", "look", "work", "refresh", "release"}, mem: Open \cup Ended,
                  late: BOOLEAN, allowed: BOOLEAN, batch: SUBSET Steps]
WorkerPlaces == Results \cup {"off", "begin", "claim", "call", "release"}

\* What a step row can say.
StepStates == Results \cup {"PENDING", "RUNNING"}

\* The shapes the argument needs: run.cur, used and slots may hold anything.
EngineTypes ==
    /\ def \in Definitions /\ "status" \in DOMAIN run
    /\ eng \in [Drivers -> EngineRecords]
    /\ work \in [Drivers -> [Steps -> WorkerPlaces]]
    /\ steps \in [Steps -> StepStates]
    /\ conf \in [Steps -> Confirmations]
    /\ effects \in [Steps -> Nat]

\* There is no confirmation, and nobody approves one.
Unasked(c) == c.status = "none" /\ c.reading = 0 /\ c.calling = 0 /\ c.recording = 0 /\ c.approved = 0

\* Why a step is called once.  A PENDING step was never called and has no
\* confirmation; a worker marks the row before it calls; and a step with a
\* confirmation was called by approves that were let through, and by nobody else.
StepOnce(d, s) ==
    /\ conf[s].status = "none" => effects[s] <= 1 /\ Unasked(conf[s])
    /\ conf[s].status # "none" => effects[s] + conf[s].calling <= conf[s].approved
    /\ steps[s] = "PENDING" => effects[s] = 0 /\ Unasked(conf[s])
    /\ work[d][s] = "begin" => steps[s] = "PENDING"
    /\ work[d][s] \notin {"off", "begin"} => steps[s] # "PENDING"
    /\ work[d][s] \in {"claim", "call"} => effects[s] = 0 /\ Unasked(conf[s])

\* The step is settled, and without a failure that has a code.
Finished(s) == steps[s] \in {"COMPLETED", "SKIPPED", "DENIED"}

\* The workers that are off have left a result in the row of their step.
BatchInHand(d) == eng[d].batch # {} /\ \A s \in eng[d].batch : work[d][s] = "off" => steps[s] \in Results

\* The inductive invariant, for the one driver d.
WorkflowInv(d) ==
    /\ EngineTypes
    /\ eng[d].pc # "work" => work[d] = Off
    /\ eng[d].pc = "work" => BatchInHand(d)
    /\ \A s \in Steps : StepOnce(d, s)
    /\ run.status = "COMPLETED" => eng[d].pc \in {"idle", "release"} /\ \A s \in Steps : Finished(s)

\* A nonempty set of step indices has a least one.
LEMMA MinIsMember ==
    ASSUME NEW S \in SUBSET Nat, S # {}
    PROVE  Min(S) \in S /\ \A y \in S : Min(S) <= y
  <1>1. \E x \in S : \A y \in S : ~ (<<y, x>> \in OpToRel(<, Nat))
    BY NatLessThanWellFounded, WFMin
  <1>2. \E x \in S : \A y \in S : x <= y
    <2>1. PICK x \in S : \A y \in S : ~ (<<y, x>> \in OpToRel(<, Nat))
      BY <1>1
    <2>2. ASSUME NEW y \in S PROVE x <= y
      <3>1. x \in Nat /\ y \in Nat
        OBVIOUS
      <3>2. y < x => <<y, x>> \in OpToRel(<, Nat)
        BY <3>1 DEF OpToRel
      <3>3. ~(y < x)
        BY <2>1, <3>2, Zenon
      <3> QED
        BY <3>1, <3>3
    <2> QED
      BY <2>2
  <1> QED
    BY <1>2 DEF Min

\* _choose_batch takes ready steps only, and takes one if there is any.
LEMMA BatchIsReady ==
    ASSUME EngineTypes, Ready # {}
    PROVE  Batch \subseteq Ready /\ Batch # {} /\ Min(Batch) \in Ready
  <1>0. Ready \subseteq Steps /\ Ready \subseteq Nat /\ MaxPending \in Nat \ {0}
    BY WorkflowAssumption DEF Ready
  <1>c. def.cap \in Nat
    BY WorkflowAssumption DEF EngineTypes, Definition
  <1>1. CASE def.cap > 1 /\ Cardinality(Ready \cap def.block) > 1
    <2> DEFINE group == Ready \cap def.block
    <2> DEFINE bound == Min({def.cap, MaxPending})
    <2>1. Batch = {s \in group : Cardinality({t \in group : t < s}) < bound}
      BY <1>1 DEF Batch
    <2>2. group # {}
      BY <1>1, FS_EmptySet
    <2>3. bound \in Nat /\ bound > 0
      <3>1. bound \in {def.cap, MaxPending}
        BY <1>0, <1>c, MinIsMember
      <3> QED
        BY <1>0, <1>1, <1>c, <3>1
    <2>4. Min(group) \in group /\ \A y \in group : Min(group) <= y
      BY <1>0, <2>2, MinIsMember
    <2> HIDE DEF bound
    <2>5. {t \in group : t < Min(group)} = {}
      <3>1. ASSUME NEW t \in group PROVE ~(t < Min(group))
        <4>1. t \in Nat /\ Min(group) \in Nat /\ Min(group) <= t
          BY <1>0, <2>4
        <4> QED
          BY <4>1
      <3> QED
        BY <3>1
    <2>6. Min(group) \in Batch
      BY <2>1, <2>3, <2>4, <2>5, FS_EmptySet
    <2>7. Batch \subseteq Ready
      BY <2>1
    <2> QED
      BY <1>0, <2>6, <2>7, MinIsMember
  <1>2. CASE ~(def.cap > 1 /\ Cardinality(Ready \cap def.block) > 1)
    <2>1. Batch = {Min(Ready)}
      BY <1>2 DEF Batch
    <2>2. Min(Ready) \in Ready
      BY <1>0, MinIsMember
    <2>3. Batch \in SUBSET Nat /\ Batch # {} /\ Batch \subseteq Ready
      BY <1>0, <2>1, <2>2
    <2> QED
      BY <2>3, MinIsMember
  <1> QED
    BY <1>1, <1>2

\* Steps of the engine itself: no step becomes PENDING again, and the workers stay.
LEMMA EngineMoves ==
    ASSUME NEW d, Drivers = {d}, WorkflowInv(d), UNCHANGED <<def, work, conf, effects>>,
           steps' \in [Steps -> StepStates], \A s \in Steps : steps'[s] = "PENDING" => steps[s] = "PENDING",
           eng' \in [Drivers -> EngineRecords],
           \/ eng'[d].pc # "work" /\ work[d] = Off
           \/ eng'[d].pc = "work" /\ eng[d].pc = "work" /\ eng'[d].batch = eng[d].batch /\ UNCHANGED steps,
           "status" \in DOMAIN run',
           run'.status = "COMPLETED" => eng'[d].pc \in {"idle", "release"} /\ \A s \in Steps : Finished(s)'
    PROVE  WorkflowInv(d)'
  <1>1. EngineTypes'
    BY DEF WorkflowInv, EngineTypes
  <1>2. ASSUME NEW s \in Steps PROVE StepOnce(d, s)'
    <2>1. StepOnce(d, s) /\ (work[d] = Off => work[d][s] = "off")
      BY DEF WorkflowInv, Off
    <2>2. (steps'[s] = "PENDING" => steps[s] = "PENDING") /\ (work[d][s] = "off" \/ UNCHANGED steps)
      BY <2>1
    <2> QED
      BY <2>1, <2>2 DEF StepOnce
  <1>3. eng'[d].pc # "work" => work'[d] = Off'
    BY DEF Off
  <1>4. eng'[d].pc = "work" => BatchInHand(d)'
    BY DEF WorkflowInv, BatchInHand
  <1> QED
    BY <1>1, <1>2, <1>3, <1>4 DEF WorkflowInv

\* What a loop step does to the rows of the steps.
StepsForward ==
    /\ steps' \in [Steps -> StepStates]
    /\ \A s \in Steps : steps'[s] = "PENDING" => steps[s] = "PENDING"

\* _persist_run with a status other than COMPLETED.
LEMMA PersistKeeps ==
    ASSUME NEW d, Drivers = {d}, WorkflowInv(d), eng[d].pc \in {"look", "refresh", "work"}, work[d] = Off,
           NEW st \in (Open \cup Ended) \ {"COMPLETED"}, NEW pc \in {"idle", "look", "refresh", "release"},
           Persist(d, st, pc), StepsForward, UNCHANGED <<def, work, conf, effects>>
    PROVE  WorkflowInv(d)'
  <1>1. eng' \in [Drivers -> EngineRecords] /\ eng'[d].pc = pc
    <2>1. eng \in [Drivers -> EngineRecords]
      BY DEF WorkflowInv, EngineTypes
    <2>2. eng' = [eng EXCEPT ![d].mem = st, ![d].pc = pc]
      BY DEF Persist
    <2>3. st \in Open \cup Ended /\ pc \in {"idle", "look", "work", "refresh", "release"}
      OBVIOUS
    <2>4. PICK e \in EngineRecords : e = eng[d]
      BY <2>1
    <2>5. PICK f : f = [e EXCEPT !.mem = st, !.pc = pc]
      OBVIOUS
    <2>6. f \in EngineRecords /\ f.pc = pc
      BY <2>3, <2>5 DEF EngineRecords
    <2>7. eng' = [eng EXCEPT ![d] = f]
      BY <2>1, <2>2, <2>4, <2>5
    <2> QED
      BY <2>1, <2>6, <2>7
  <1>2. "status" \in DOMAIN run /\ run.status # "COMPLETED"
    BY DEF WorkflowInv, EngineTypes
  <1>3. "status" \in DOMAIN run' /\ run'.status # "COMPLETED"
    BY <1>2 DEF Persist
  <1> QED
    BY <1>1, <1>3, EngineMoves DEF StepsForward

\* The driver moves and the run row stays.
LEMMA GotoKeeps ==
    ASSUME NEW d, Drivers = {d}, WorkflowInv(d), eng[d].pc \in {"look", "refresh", "work"}, work[d] = Off,
           NEW pc \in {"idle", "look", "refresh", "release"},
           Goto(d, pc), UNCHANGED run, StepsForward, UNCHANGED <<def, work, conf, effects>>
    PROVE  WorkflowInv(d)'
  <1>1. eng' \in [Drivers -> EngineRecords] /\ eng'[d].pc = pc
    <2>1. eng \in [Drivers -> EngineRecords]
      BY DEF WorkflowInv, EngineTypes
    <2>2. eng' = [eng EXCEPT ![d].pc = pc]
      BY DEF Goto
    <2> QED
      BY <2>1, <2>2 DEF EngineRecords
  <1>2. "status" \in DOMAIN run /\ run.status # "COMPLETED"
    BY DEF WorkflowInv, EngineTypes
  <1> QED
    BY <1>1, <1>2, EngineMoves DEF StepsForward

\* Rows that nobody writes.
LEMMA StepsStay == ASSUME EngineTypes, UNCHANGED steps PROVE StepsForward
  BY DEF EngineTypes, StepsForward

\* One worker's step for its own step row.
LEMMA WorkerMoves ==
    ASSUME NEW d, Drivers = {d}, WorkflowInv(d), NEW s \in Steps, NEW w \in WorkerPlaces,
           work[d][s] # "off", work' = [work EXCEPT ![d][s] = w], UNCHANGED def,
           eng' \in [Drivers -> EngineRecords], eng'[d].pc = eng[d].pc, eng'[d].batch = eng[d].batch,
           w = "off" => steps'[s] \in Results,
           "status" \in DOMAIN run', run'.status = "COMPLETED" => run.status = "COMPLETED",
           steps' \in [Steps -> StepStates], conf' \in [Steps -> Confirmations], effects' \in [Steps -> Nat],
           \A r \in Steps \ {s} : steps'[r] = steps[r] /\ conf'[r] = conf[r] /\ effects'[r] = effects[r],
           StepOnce(d, s)'
    PROVE  WorkflowInv(d)'
  <1>1. work \in [Drivers -> [Steps -> WorkerPlaces]]
    BY DEF WorkflowInv, EngineTypes
  <1>2. work' \in [Drivers -> [Steps -> WorkerPlaces]] /\ \A r \in Steps \ {s} : work'[d][r] = work[d][r]
    BY <1>1
  <1>3. EngineTypes'
    BY <1>2 DEF WorkflowInv, EngineTypes
  <1>4. work[d] # Off
    BY DEF Off
  <1>5. eng[d].pc = "work"
    BY <1>4 DEF WorkflowInv
  <1>6. run.status # "COMPLETED"
    BY <1>5 DEF WorkflowInv
  <1>7. ASSUME NEW r \in Steps \ {s} PROVE StepOnce(d, r)'
    <2>1. StepOnce(d, r) /\ steps'[r] = steps[r] /\ conf'[r] = conf[r] /\ effects'[r] = effects[r] /\ work'[d][r] = work[d][r]
      BY <1>2 DEF WorkflowInv
    <2> QED
      BY <2>1 DEF StepOnce
  <1>8. BatchInHand(d)'
    <2>1. BatchInHand(d) /\ eng \in [Drivers -> EngineRecords]
      BY <1>5 DEF WorkflowInv, EngineTypes
    <2>2. eng[d].batch \subseteq Steps /\ work'[d][s] = w
      BY <1>1, <2>1 DEF EngineRecords
    <2> QED
      BY <1>2, <2>1, <2>2 DEF BatchInHand
  <1> QED
    BY <1>3, <1>5, <1>6, <1>7, <1>8 DEF WorkflowInv

\* The calls (start and resume, cancel, resolve_ambiguous) begin in an idle driver.
LEMMA CallKeeps ==
    ASSUME NEW d, Drivers = {d}, WorkflowInv(d),
           Cancel(d) \/ ResolveContinue(d) \/ \E allowed \in BOOLEAN : Resume(d, allowed)
    PROVE  WorkflowInv(d)'
  <1>0. EngineTypes /\ eng \in [Drivers -> EngineRecords]
    BY DEF WorkflowInv, EngineTypes
  <1>1. eng[d].pc = "idle" /\ UNCHANGED <<def, work, conf, effects>>
    BY DEF Cancel, ResolveContinue, Resume
  <1>2. work[d] = Off
    BY <1>1 DEF WorkflowInv
  <1>3. \E r \in EngineRecords : r.pc # "work" /\ eng' = [eng EXCEPT ![d] = r]
    <2>i. Idle \in EngineRecords
      BY DEF Idle, EngineRecords, Open
    <2>1. CASE Cancel(d)
      BY <2>1, <2>i DEF Cancel, EngineRecords, Ended, Idle
    <2>2. CASE ResolveContinue(d)
      BY <2>2, <2>i DEF ResolveContinue, EngineRecords, Open, Ended, Idle
    <2>3. ASSUME NEW allowed \in BOOLEAN, Resume(d, allowed) PROVE \E r \in EngineRecords : r.pc # "work" /\ eng' = [eng EXCEPT ![d] = r]
      <3>1. CASE known
        <4>1. run.status \in Open
          BY <2>3 DEF Resume, Open
        <4> DEFINE r == [Idle EXCEPT !.pc = "look", !.mem = run.status, !.allowed = allowed]
        <4>2. r \in EngineRecords /\ r.pc # "work"
          BY <2>i, <4>1 DEF EngineRecords, Idle
        <4>3. eng' = [eng EXCEPT ![d] = r]
          BY <2>3, <3>1 DEF Resume
        <4> QED
          BY <4>2, <4>3
      <3>2. CASE ~known
        <4>1. [Idle EXCEPT !.pc = "release", !.mem = "FAILED"] \in EngineRecords
          BY <2>i DEF EngineRecords, Ended
        <4> QED
          BY <2>3, <3>2, <4>1 DEF Resume, Idle
      <3> QED
        BY <3>1, <3>2
    <2> QED
      BY <2>1, <2>2, <2>3
  <1>4. eng' \in [Drivers -> EngineRecords] /\ eng'[d].pc # "work"
    BY <1>0, <1>3
  <1>5. StepsForward
    <2>1. CASE UNCHANGED steps
      BY <1>0, <2>1, StepsStay
    <2>2. CASE ResolveContinue(d)
      <3>1. UNCHANGED steps \/ (run.cur \in Steps /\ steps[run.cur] = "AMBIGUOUS" /\ steps' = [steps EXCEPT ![run.cur] = "COMPLETED"])
        BY <2>2 DEF ResolveContinue
      <3> QED
        BY <1>0, <2>1, <3>1 DEF StepsForward, EngineTypes, StepStates, Results
    <2> QED
      BY <2>1, <2>2 DEF Cancel, Resume
  <1>6. "status" \in DOMAIN run' /\ run'.status # "COMPLETED"
    <2>1. "status" \in DOMAIN run
      BY <1>0 DEF EngineTypes
    <2>2. CASE Cancel(d)
      BY <2>1, <2>2 DEF Cancel
    <2>3. CASE ResolveContinue(d)
      BY <2>3 DEF ResolveContinue
    <2>4. ASSUME NEW allowed \in BOOLEAN, Resume(d, allowed) PROVE "status" \in DOMAIN run' /\ run'.status # "COMPLETED"
      BY <2>1, <2>4 DEF Resume
    <2> QED
      BY <2>2, <2>3, <2>4
  <1> QED
    BY <1>1, <1>2, <1>4, <1>5, <1>6, EngineMoves DEF StepsForward

\* _release_governance.
LEMMA ReleaseKeeps == ASSUME NEW d, Drivers = {d}, WorkflowInv(d), Release(d) PROVE WorkflowInv(d)'
  <1>0. EngineTypes /\ eng \in [Drivers -> EngineRecords] /\ "status" \in DOMAIN run
    BY DEF WorkflowInv, EngineTypes
  <1>1. eng[d].pc = "release" /\ eng' = [eng EXCEPT ![d].pc = "idle"] /\ UNCHANGED <<def, run, steps, work, conf, effects>>
    BY DEF Release, Goto
  <1>2. eng' \in [Drivers -> EngineRecords] /\ eng'[d].pc = "idle"
    BY <1>0, <1>1 DEF EngineRecords
  <1>3. work[d] = Off /\ (run.status = "COMPLETED" => \A s \in Steps : Finished(s))
    BY <1>1 DEF WorkflowInv
  <1>4. run'.status = "COMPLETED" => \A s \in Steps : Finished(s)'
    BY <1>1, <1>3 DEF Finished
  <1>5. StepsForward
    BY <1>0, <1>1, StepsStay
  <1> QED
    BY <1>0, <1>1, <1>2, <1>3, <1>4, <1>5, EngineMoves DEF StepsForward

\* The deadline of a call passes.
LEMMA TimeKeeps == ASSUME NEW d, Drivers = {d}, WorkflowInv(d), TimePasses(d) PROVE WorkflowInv(d)'
  <1>0. EngineTypes /\ eng \in [Drivers -> EngineRecords] /\ "status" \in DOMAIN run
    BY DEF WorkflowInv, EngineTypes
  <1>1. eng[d].pc # "idle" /\ eng[d].pc # "release" /\ eng' = [eng EXCEPT ![d].late = TRUE] /\ UNCHANGED <<def, run, steps, work, conf, effects>>
    BY DEF TimePasses
  <1>2. eng' \in [Drivers -> EngineRecords] /\ eng'[d].pc = eng[d].pc /\ eng'[d].batch = eng[d].batch
    BY <1>0, <1>1 DEF EngineRecords
  <1>3. (work[d] = Off \/ eng[d].pc = "work") /\ run.status # "COMPLETED"
    BY <1>1 DEF WorkflowInv
  <1>5. StepsForward
    BY <1>0, <1>1, StepsStay
  <1> QED
    BY <1>0, <1>1, <1>2, <1>3, <1>5, EngineMoves DEF StepsForward

\* _refresh_run_status.
LEMMA RefreshKeeps ==
    ASSUME NEW d, Drivers = {d}, WorkflowInv(d), eng[d].pc \in {"look", "refresh"}, RefreshRunStatus(d),
           UNCHANGED <<def, steps, work, conf, effects>>
    PROVE  WorkflowInv(d)'
  <1>1. EngineTypes /\ work[d] = Off
    BY DEF WorkflowInv
  <1>2. StepsForward
    BY <1>1, StepsStay
  <1>3. CASE Persist(d, "AMBIGUOUS", "idle")
    BY <1>1, <1>2, <1>3, PersistKeeps DEF Open
  <1>4. CASE Persist(d, "FAILED", "release")
    BY <1>1, <1>2, <1>4, PersistKeeps DEF Ended
  <1> QED
    BY <1>3, <1>4 DEF RefreshRunStatus, SetRunFailed

\* After a batch the rows settle the run, or the loop goes on.
LEMMA AfterBatchKeeps == ASSUME NEW d, Drivers = {d}, WorkflowInv(d), AfterBatch(d) PROVE WorkflowInv(d)'
  <1>1. eng[d].pc = "refresh" /\ UNCHANGED <<def, steps, work, conf, effects>>
    BY DEF AfterBatch
  <1>2. EngineTypes /\ work[d] = Off
    BY <1>1 DEF WorkflowInv
  <1>3. StepsForward
    BY <1>1, <1>2, StepsStay
  <1>4. CASE Refreshes
    BY <1>1, <1>4, RefreshKeeps DEF AfterBatch
  <1>5. CASE ~Refreshes
    BY <1>1, <1>2, <1>3, <1>5, GotoKeeps DEF AfterBatch
  <1> QED
    BY <1>4, <1>5

\* A step has ended: _classify_step_outcome, or the end of a batch.
LEMMA JoinedKeeps == ASSUME NEW d, Drivers = {d}, WorkflowInv(d), Joined(d) PROVE WorkflowInv(d)'
  <1>1. eng[d].pc = "work" /\ work[d] = Off /\ UNCHANGED <<def, steps, work, conf, effects>>
    BY DEF Joined
  <1>2. EngineTypes /\ eng \in [Drivers -> EngineRecords] /\ "status" \in DOMAIN run /\ run.status # "COMPLETED"
    BY <1>1 DEF WorkflowInv, EngineTypes
  <1>3. StepsForward
    BY <1>1, <1>2, StepsStay
  <1>4. CASE Cardinality(eng[d].batch) > 1
    BY <1>1, <1>3, <1>4, GotoKeeps DEF Joined
  <1>5. ASSUME NEW result \in Results, Classify(d, result) PROVE WorkflowInv(d)'
    <2>1. CASE result \in {"COMPLETED", "SKIPPED"}
      <3>1. eng' = [eng EXCEPT ![d].pc = "look"] /\ run' = [run EXCEPT !.cur = NextOpen]
        BY <1>5, <2>1 DEF Classify, Goto
      <3>2. eng' \in [Drivers -> EngineRecords] /\ eng'[d].pc # "work"
        BY <1>2, <3>1 DEF EngineRecords
      <3>3. "status" \in DOMAIN run' /\ run'.status # "COMPLETED"
        BY <1>2, <3>1
      <3> QED
        BY <1>1, <1>3, <3>2, <3>3, EngineMoves DEF StepsForward
    <2>2. CASE result = "WAITING"
      <3>1. Persist(d, "WAITING", "idle")
        BY <1>5, <2>2 DEF Classify
      <3> QED
        BY <1>1, <1>3, <3>1, PersistKeeps DEF Open
    <2>3. CASE result = "AMBIGUOUS"
      <3>1. Persist(d, "AMBIGUOUS", "idle")
        BY <1>5, <2>3 DEF Classify
      <3> QED
        BY <1>1, <1>3, <3>1, PersistKeeps DEF Open
    <2>4. CASE result \in {"FAILED", "DENIED"}
      <3>1. Persist(d, "FAILED", "release")
        BY <1>5, <2>4 DEF Classify, SetRunFailed
      <3> QED
        BY <1>1, <1>3, <3>1, PersistKeeps DEF Ended
    <2> QED
      BY <2>1, <2>2, <2>3, <2>4 DEF Results
  <1>6. steps[Min(eng[d].batch)] \in Results
    <2>1. eng[d].batch \in SUBSET Nat /\ eng[d].batch # {} /\ eng[d].batch \subseteq Steps
      BY <1>1, <1>2, WorkflowAssumption DEF WorkflowInv, BatchInHand, EngineRecords
    <2>2. Min(eng[d].batch) \in eng[d].batch
      BY <2>1, MinIsMember
    <2>3. work[d][Min(eng[d].batch)] = "off"
      BY <1>1, <2>1, <2>2 DEF Off
    <2> QED
      BY <1>1, <2>2, <2>3 DEF WorkflowInv, BatchInHand
  <1> QED
    BY <1>4, <1>5, <1>6 DEF Joined

\* _handle_waiting_step for every waiting step: none of them is PENDING after it.
LEMMA WaitingKeeps ==
    ASSUME NEW d, Drivers = {d}, WorkflowInv(d), eng[d].pc = "look", HandleWaiting(d),
           UNCHANGED <<def, conf, effects>>
    PROVE  WorkflowInv(d)'
  <1>0. EngineTypes /\ work[d] = Off /\ run.status # "COMPLETED"
    BY DEF WorkflowInv
  <1>1. PICK good \in StillHold :
    LET verdict == [s \in Waiting |-> Verdict(s, s \in good)]
        stops   == {s \in Waiting : verdict[s] \in {"failed", "denied_stop"}}
        judged  == {s \in Waiting : \A t \in stops : s < t}
        moved   == {s \in judged : verdict[s] # "still_waiting"}
    IN  /\ steps' = [s \in Steps |-> IF s \notin moved THEN steps[s]
                                     ELSE IF verdict[s] = "next" THEN "COMPLETED" ELSE "SKIPPED"]
        /\ CASE stops # {} /\ verdict[Min(stops)] = "failed" -> SetRunFailed(d)
             [] stops # {} /\ verdict[Min(stops)] = "denied_stop" -> Goto(d, "idle") /\ UNCHANGED run
             [] stops = {} /\ moved # {} -> UNCHANGED <<run, eng>>
             [] stops = {} /\ moved = {} -> Persist(d, "WAITING", "idle")
        /\ UNCHANGED <<used, work>>
    BY DEF HandleWaiting
  <1> DEFINE verdict == [s \in Waiting |-> Verdict(s, s \in good)]
  <1> DEFINE stops == {s \in Waiting : verdict[s] \in {"failed", "denied_stop"}}
  <1> DEFINE moved == {s \in {u \in Waiting : \A t \in stops : u < t} : verdict[s] # "still_waiting"}
  <1>2. /\ steps' = [s \in Steps |-> IF s \notin moved THEN steps[s]
                                     ELSE IF verdict[s] = "next" THEN "COMPLETED" ELSE "SKIPPED"]
        /\ UNCHANGED work
    BY <1>1
  <1>3. (CASE stops # {} /\ verdict[Min(stops)] = "failed" -> SetRunFailed(d)
           [] stops # {} /\ verdict[Min(stops)] = "denied_stop" -> Goto(d, "idle") /\ UNCHANGED run
           [] stops = {} /\ moved # {} -> UNCHANGED <<run, eng>>
           [] stops = {} /\ moved = {} -> Persist(d, "WAITING", "idle"))
    BY <1>1
  <1>4. stops # {} => verdict[Min(stops)] \in {"failed", "denied_stop"}
    <2>1. stops \in SUBSET Nat
      BY WorkflowAssumption DEF Waiting
    <2>2. stops # {} => Min(stops) \in stops
      BY <2>1, MinIsMember
    <2> QED
      BY <2>2
  <1>5. StepsForward
    BY <1>0, <1>2 DEF StepsForward, EngineTypes, StepStates, Results
  <1> HIDE DEF verdict, stops, moved
  <1>6. \/ SetRunFailed(d) \/ (Goto(d, "idle") /\ UNCHANGED run)
        \/ UNCHANGED <<run, eng>> \/ Persist(d, "WAITING", "idle")
    BY <1>3, <1>4
  <1>7. CASE Persist(d, "FAILED", "release")
    BY <1>0, <1>2, <1>5, <1>7, PersistKeeps DEF Ended
  <1>8. CASE Goto(d, "idle") /\ UNCHANGED run
    BY <1>0, <1>2, <1>5, <1>8, GotoKeeps
  <1>9. CASE UNCHANGED <<run, eng>>
    <2>1. "status" \in DOMAIN run' /\ run'.status # "COMPLETED" /\ eng' \in [Drivers -> EngineRecords]
      BY <1>0, <1>9 DEF EngineTypes
    <2>2. eng'[d].pc # "work"
      BY <1>9
    <2> QED
      BY <1>0, <1>2, <1>5, <2>1, <2>2, EngineMoves DEF StepsForward
  <1>10. CASE Persist(d, "WAITING", "idle")
    BY <1>0, <1>2, <1>5, <1>10, PersistKeeps DEF Open
  <1> QED
    BY <1>6, <1>7, <1>8, <1>9, <1>10 DEF SetRunFailed

\* The run is COMPLETED when nothing is open, and nothing failed.
LEMMA NothingReadyKeeps ==
    ASSUME NEW d, Drivers = {d}, WorkflowInv(d), eng[d].pc = "look", ~Refreshes, NothingReady(d),
           UNCHANGED <<def, conf, effects>>
    PROVE  WorkflowInv(d)'
  <1>0. EngineTypes /\ eng \in [Drivers -> EngineRecords] /\ work[d] = Off
    BY DEF WorkflowInv, EngineTypes
  <1>1. UNCHANGED <<steps, work>>
    BY DEF NothingReady
  <1>2. StepsForward
    BY <1>0, <1>1, StepsStay
  <1>3. CASE \A s \in Steps : steps[s] \in Settled
    <2>1. run' = [status |-> "COMPLETED", cur |-> Max(Steps) + 1] /\ eng' = [eng EXCEPT ![d].mem = "COMPLETED", ![d].pc = "release"]
      BY <1>3 DEF NothingReady
    <2>2. eng' \in [Drivers -> EngineRecords] /\ eng'[d].pc = "release"
      BY <1>0, <2>1 DEF EngineRecords, Ended
    <2>3. \A s \in Steps : steps[s] # "AMBIGUOUS" /\ steps[s] # "PENDING"
      BY <1>3 DEF Refreshes, Ambiguous, Settled, Results
    <2>4. \A s \in Steps : steps[s] # "FAILED"
      BY <2>3 DEF Refreshes
    <2>5. \A s \in Steps : Finished(s)'
      BY <1>1, <1>3, <2>3, <2>4 DEF Finished, Settled, Results
    <2>6. "status" \in DOMAIN run'
      BY <2>1
    <2> QED
      BY <1>0, <1>1, <1>2, <2>2, <2>5, <2>6, EngineMoves DEF StepsForward
  <1>4. CASE ~(\A s \in Steps : steps[s] \in Settled)
    BY <1>0, <1>1, <1>2, <1>4, GotoKeeps DEF NothingReady
  <1> QED
    BY <1>3, <1>4

\* _execute_parallel_batch hands only PENDING steps to the pool.
LEMMA BatchKeeps ==
    ASSUME NEW d, Drivers = {d}, WorkflowInv(d), eng[d].pc = "look", Ready # {}, BeginBatch(d),
           UNCHANGED <<def, conf, effects>>
    PROVE  WorkflowInv(d)'
  <1>0. /\ EngineTypes /\ eng \in [Drivers -> EngineRecords] /\ work[d] = Off /\ run.status # "COMPLETED"
        /\ "status" \in DOMAIN run /\ work \in [Drivers -> [Steps -> WorkerPlaces]]
    BY DEF WorkflowInv, EngineTypes
  <1>1. UNCHANGED steps
    BY DEF BeginBatch
  <1>2. CASE used + Cardinality(Batch) <= StepBudget
    <2>1. /\ run' = [run EXCEPT !.cur = Max(Batch)]
          /\ eng' = [eng EXCEPT ![d].pc = "work", ![d].batch = Batch]
          /\ work' = [work EXCEPT ![d] = [s \in Steps |-> IF s \in Batch THEN "begin" ELSE "off"]]
      BY <1>2 DEF BeginBatch
    <2>2. Batch \subseteq Steps /\ Batch # {} /\ \A s \in Batch : steps[s] = "PENDING"
      BY <1>0, BatchIsReady DEF Ready
    <2>3. eng' \in [Drivers -> EngineRecords] /\ eng'[d].pc = "work" /\ eng'[d].batch = Batch
      <3>1. PICK b \in SUBSET Steps : b = Batch
        BY <2>2
      <3>2. eng' = [eng EXCEPT ![d].pc = "work", ![d].batch = b]
        BY <2>1, <3>1
      <3>3. eng \in [Drivers -> EngineRecords]
        BY <1>0
      <3>4. eng' \in [Drivers -> EngineRecords] /\ eng'[d].pc = "work" /\ eng'[d].batch = b
        BY <3>2, <3>3 DEF EngineRecords
      <3> QED
        BY <3>1, <3>4
    <2>4. work' \in [Drivers -> [Steps -> WorkerPlaces]] /\ \A s \in Steps : work'[d][s] = IF s \in Batch THEN "begin" ELSE "off"
      BY <1>0, <2>1 DEF WorkerPlaces
    <2>5. "status" \in DOMAIN run' /\ run'.status # "COMPLETED"
      BY <1>0, <2>1
    <2>6. EngineTypes'
      BY <1>0, <1>1, <2>3, <2>4, <2>5 DEF EngineTypes
    <2>7. ASSUME NEW s \in Steps PROVE StepOnce(d, s)'
      <3>1. StepOnce(d, s) /\ (s \in Batch => steps[s] = "PENDING")
        BY <2>2 DEF WorkflowInv
      <3>2. work'[d][s] = "off" \/ (work'[d][s] = "begin" /\ steps[s] = "PENDING")
        BY <2>4, <3>1
      <3> QED
        BY <1>1, <3>1, <3>2 DEF StepOnce
    <2>8. BatchInHand(d)'
      BY <2>2, <2>3, <2>4 DEF BatchInHand
    <2> QED
      BY <2>3, <2>5, <2>6, <2>7, <2>8 DEF WorkflowInv
  <1>3. CASE ~(used + Cardinality(Batch) <= StepBudget)
    <2>1. Persist(d, "FAILED", "refresh") /\ UNCHANGED work
      BY <1>3 DEF BeginBatch, Persist
    <2>2. StepsForward
      BY <1>0, <1>1, StepsStay
    <2> QED
      BY <1>0, <2>1, <2>2, PersistKeeps DEF Ended
  <1> QED
    BY <1>2, <1>3

\* A single step: a PENDING one is skipped or handed to the driver's own hands.
LEMMA SingleKeeps ==
    ASSUME NEW d, Drivers = {d}, WorkflowInv(d), eng[d].pc = "look", Ready # {}, BeginSingle(d),
           UNCHANGED <<def, conf, effects>>
    PROVE  WorkflowInv(d)'
  <1>0. /\ EngineTypes /\ eng \in [Drivers -> EngineRecords] /\ work[d] = Off
        /\ work \in [Drivers -> [Steps -> WorkerPlaces]] /\ steps \in [Steps -> StepStates]
    BY DEF WorkflowInv, EngineTypes
  <1>1. PICK s \in Steps : s = Min(Batch) /\ steps[s] = "PENDING"
    BY <1>0, BatchIsReady DEF Ready
  <1>2. CASE /\ run' = [status |-> "FAILED", cur |-> s] /\ UNCHANGED <<steps, work>>
             /\ eng' = [eng EXCEPT ![d].mem = "FAILED", ![d].pc = "release"]
    <2>1. eng' \in [Drivers -> EngineRecords] /\ eng'[d].pc = "release"
      BY <1>0, <1>2 DEF EngineRecords, Ended
    <2>2. "status" \in DOMAIN run' /\ run'.status = "FAILED"
      BY <1>2
    <2>3. StepsForward
      BY <1>0, <1>2, StepsStay
    <2> QED
      BY <1>0, <1>2, <2>1, <2>2, <2>3, EngineMoves DEF StepsForward
  <1>3. CASE /\ run' = [status |-> "RUNNING", cur |-> s] /\ steps' = [steps EXCEPT ![s] = "SKIPPED"]
             /\ eng' = [eng EXCEPT ![d].mem = "RUNNING"] /\ UNCHANGED work
    <2>1. eng' \in [Drivers -> EngineRecords] /\ eng'[d].pc = eng[d].pc
      BY <1>0, <1>3 DEF EngineRecords, Open
    <2>2. "status" \in DOMAIN run' /\ run'.status = "RUNNING"
      BY <1>3
    <2>3. StepsForward
      BY <1>0, <1>3 DEF StepsForward, StepStates, Results
    <2> QED
      BY <1>0, <1>3, <2>1, <2>2, <2>3, EngineMoves DEF StepsForward
  <1>4. CASE /\ run' = [status |-> "RUNNING", cur |-> s] /\ UNCHANGED steps
             /\ eng' = [eng EXCEPT ![d].mem = "RUNNING", ![d].pc = "work", ![d].batch = {s}]
             /\ work' = [work EXCEPT ![d][s] = "begin"]
    <2>0. {s} \in SUBSET Steps /\ "RUNNING" \in Open \cup Ended
      BY DEF Open
    <2>1. eng' \in [Drivers -> EngineRecords] /\ eng'[d].pc = "work" /\ eng'[d].batch = {s}
      <3>1. PICK b \in SUBSET Steps : b = {s}
        BY <2>0
      <3>2. eng' = [eng EXCEPT ![d].mem = "RUNNING", ![d].pc = "work", ![d].batch = b]
        BY <1>4, <3>1
      <3>3. eng \in [Drivers -> EngineRecords]
        BY <1>0
      <3>4. eng' \in [Drivers -> EngineRecords] /\ eng'[d].pc = "work" /\ eng'[d].batch = b
        BY <2>0, <3>2, <3>3 DEF EngineRecords
      <3> QED
        BY <3>1, <3>4
    <2>2. "status" \in DOMAIN run' /\ run'.status = "RUNNING"
      BY <1>4
    <2>3. work' \in [Drivers -> [Steps -> WorkerPlaces]] /\ \A r \in Steps : work'[d][r] = IF r = s THEN "begin" ELSE "off"
      BY <1>0, <1>4 DEF WorkerPlaces, Off
    <2>4. EngineTypes'
      BY <1>0, <1>4, <2>1, <2>2, <2>3 DEF EngineTypes
    <2>5. ASSUME NEW r \in Steps PROVE StepOnce(d, r)'
      <3>1. StepOnce(d, r)
        BY DEF WorkflowInv
      <3>2. work'[d][r] = "off" \/ (work'[d][r] = "begin" /\ steps[r] = "PENDING")
        BY <1>1, <2>3
      <3> QED
        BY <1>4, <3>1, <3>2 DEF StepOnce
    <2>6. BatchInHand(d)'
      BY <2>1, <2>3 DEF BatchInHand
    <2> QED
      BY <2>1, <2>2, <2>4, <2>5, <2>6 DEF WorkflowInv
  <1> QED
    BY <1>1, <1>2, <1>3, <1>4 DEF BeginSingle

\* One turn of the loop of _advance.
LEMMA LookKeeps == ASSUME NEW d, Drivers = {d}, WorkflowInv(d), Look(d) PROVE WorkflowInv(d)'
  <1>0. eng[d].pc = "look" /\ UNCHANGED <<def, conf, effects>>
    BY DEF Look
  <1>1. EngineTypes /\ work[d] = Off /\ eng[d].late \in BOOLEAN
    BY <1>0 DEF WorkflowInv, EngineTypes, EngineRecords
  <1>2. CASE eng[d].late
    <2>1. Persist(d, "FAILED", "release") /\ UNCHANGED <<steps, work>>
      BY <1>2 DEF Look, SetRunFailed
    <2>2. StepsForward
      BY <1>1, <2>1, StepsStay
    <2> QED
      BY <1>0, <1>1, <2>1, <2>2, PersistKeeps DEF Ended
  <1>3. CASE ~eng[d].late /\ Waiting # {}
    BY <1>0, <1>3, WaitingKeeps DEF Look
  <1>4. CASE ~eng[d].late /\ Waiting = {} /\ Refreshes
    BY <1>0, <1>4, RefreshKeeps DEF Look
  <1>5. CASE ~eng[d].late /\ Waiting = {} /\ ~Refreshes /\ Ready = {}
    BY <1>0, <1>5, NothingReadyKeeps DEF Look
  <1>6. CASE ~eng[d].late /\ Waiting = {} /\ ~Refreshes /\ Ready # {}
    <2>1. BeginBatch(d) \/ BeginSingle(d)
      BY <1>6 DEF Look
    <2> QED
      BY <1>0, <1>6, <2>1, BatchKeeps, SingleKeeps
  <1> QED
    BY <1>2, <1>3, <1>4, <1>5, <1>6

\* _execute_step: the row is RUNNING before the provider can be called, so that
\* nobody finds it PENDING again.
LEMMA WorkerKeeps ==
    ASSUME NEW d, Drivers = {d}, WorkflowInv(d), NEW s \in Steps,
           \/ MarkRunning(d, s) \/ ClaimBudget(d, s) \/ BudgetRelease(d, s) \/ MarkStep(d, s) \/ NoTarget(d, s)
           \/ \E result \in Results : Request(d, s, result)
    PROVE  WorkflowInv(d)'
  <1>0. /\ StepOnce(d, s) /\ eng \in [Drivers -> EngineRecords] /\ "status" \in DOMAIN run
        /\ work \in [Drivers -> [Steps -> WorkerPlaces]] /\ steps \in [Steps -> StepStates]
        /\ conf \in [Steps -> Confirmations] /\ effects \in [Steps -> Nat]
    BY DEF WorkflowInv, EngineTypes
  <1>1. CASE MarkRunning(d, s)
    <2>1. /\ work[d][s] = "begin" /\ work' = [work EXCEPT ![d][s] = "claim"] /\ steps' = [steps EXCEPT ![s] = "RUNNING"]
          /\ UNCHANGED <<def, run, conf, eng, effects>>
      BY <1>1 DEF MarkRunning
    <2>2. /\ work'[d][s] = "claim" /\ steps'[s] = "RUNNING" /\ steps' \in [Steps -> StepStates]
          /\ \A r \in Steps \ {s} : steps'[r] = steps[r]
      BY <1>0, <2>1 DEF StepStates
    <2>3. StepOnce(d, s)'
      BY <1>0, <2>1, <2>2 DEF StepOnce
    <2> QED
      BY <1>0, <2>1, <2>2, <2>3, WorkerMoves DEF WorkerPlaces
  <1>2. CASE ClaimBudget(d, s)
    <2>1. work[d][s] = "claim" /\ UNCHANGED <<def, steps, conf, effects>>
      BY <1>2 DEF ClaimBudget
    <2>2. CASE used < StepBudget
      <3>1. work' = [work EXCEPT ![d][s] = "call"] /\ UNCHANGED <<run, eng>>
        BY <1>2, <2>2 DEF ClaimBudget
      <3>2. work'[d][s] = "call"
        BY <1>0, <3>1
      <3>3. StepOnce(d, s)'
        BY <1>0, <2>1, <3>2 DEF StepOnce
      <3> QED
        BY <1>0, <2>1, <3>1, <3>3, WorkerMoves DEF WorkerPlaces
    <2>3. CASE ~(used < StepBudget)
      <3>1. /\ work' = [work EXCEPT ![d][s] = "release"]
            /\ run' = [run EXCEPT !.status = IF eng[d].mem = "FAILED" THEN run.status ELSE "FAILED"]
            /\ eng' = [eng EXCEPT ![d].mem = "FAILED"]
        BY <1>2, <2>3 DEF ClaimBudget
      <3>2. work'[d][s] = "release"
        BY <1>0, <3>1
      <3>3. StepOnce(d, s)'
        BY <1>0, <2>1, <3>2 DEF StepOnce
      <3>4. eng' \in [Drivers -> EngineRecords] /\ eng'[d].pc = eng[d].pc /\ eng'[d].batch = eng[d].batch
        BY <1>0, <3>1 DEF EngineRecords, Ended
      <3>5. "status" \in DOMAIN run' /\ (run'.status = "COMPLETED" => run.status = "COMPLETED")
        BY <1>0, <3>1
      <3>6. "release" \in WorkerPlaces /\ work[d][s] # "off"
        BY <2>1 DEF WorkerPlaces
      <3>7. \A r \in Steps \ {s} : steps'[r] = steps[r] /\ conf'[r] = conf[r] /\ effects'[r] = effects[r]
        BY <2>1
      <3>8. steps' \in [Steps -> StepStates] /\ conf' \in [Steps -> Confirmations] /\ effects' \in [Steps -> Nat] /\ def' = def
        BY <1>0, <2>1
      <3> QED
        BY <3>1, <3>3, <3>4, <3>5, <3>6, <3>7, <3>8, WorkerMoves
    <2> QED
      BY <2>2, <2>3
  <1>3. CASE BudgetRelease(d, s) \/ NoTarget(d, s)
    <2>1. /\ work[d][s] \in {"release", "call"} /\ work' = [work EXCEPT ![d][s] = "FAILED"]
          /\ UNCHANGED <<def, run, steps, conf, eng, effects>>
      BY <1>3 DEF BudgetRelease, NoTarget
    <2>2. work'[d][s] = "FAILED"
      BY <1>0, <2>1
    <2>3. StepOnce(d, s)'
      BY <1>0, <2>1, <2>2 DEF StepOnce
    <2> QED
      BY <1>0, <2>1, <2>3, WorkerMoves DEF WorkerPlaces, Results
  <1>4. CASE MarkStep(d, s)
    <2>1. /\ work[d][s] \in Results /\ work' = [work EXCEPT ![d][s] = "off"] /\ steps' = [steps EXCEPT ![s] = work[d][s]]
          /\ UNCHANGED <<def, run, conf, eng, effects>>
      BY <1>4 DEF MarkStep
    <2>2. /\ work'[d][s] = "off" /\ steps'[s] \in Results /\ steps' \in [Steps -> StepStates]
          /\ \A r \in Steps \ {s} : steps'[r] = steps[r]
      BY <1>0, <2>1 DEF StepStates
    <2>3. StepOnce(d, s)'
      BY <1>0, <2>1, <2>2 DEF StepOnce, Results
    <2>4. work[d][s] # "off"
      BY <2>1 DEF Results
    <2> QED
      BY <1>0, <2>1, <2>2, <2>3, <2>4, WorkerMoves DEF WorkerPlaces
  <1>5. ASSUME NEW result \in Results, Request(d, s, result) PROVE WorkflowInv(d)'
    <2>1. /\ work[d][s] = "call" /\ work' = [work EXCEPT ![d][s] = result] /\ UNCHANGED <<def, run, steps, eng>>
          /\ conf' = IF result = "WAITING" THEN [conf EXCEPT ![s].status = "PENDING"] ELSE conf
      BY <1>5 DEF Request
    <2>2. PICK called \in {0, 1} : (result = "WAITING" => called = 0) /\ effects' = [effects EXCEPT ![s] = effects[s] + called]
      BY <1>5 DEF Request
    <2>3. effects[s] = 0 /\ Unasked(conf[s]) /\ steps[s] # "PENDING"
      BY <1>0, <2>1 DEF StepOnce
    <2>4. /\ effects' \in [Steps -> Nat] /\ effects'[s] = called /\ \A r \in Steps \ {s} : effects'[r] = effects[r]
      BY <1>0, <2>2, <2>3
    <2>5. /\ conf' \in [Steps -> Confirmations] /\ \A r \in Steps \ {s} : conf'[r] = conf[r]
          /\ result # "WAITING" => Unasked(conf'[s])
          /\ result = "WAITING" => conf'[s].status = "PENDING" /\ conf'[s].calling = 0 /\ conf'[s].approved = 0
      BY <1>0, <2>1, <2>3 DEF Confirmations, Unasked
    <2>6. work'[d][s] = result
      BY <1>0, <2>1
    <2>7. StepOnce(d, s)'
      BY <2>1, <2>2, <2>3, <2>4, <2>5, <2>6 DEF StepOnce, Results, Unasked
    <2>8. result \in WorkerPlaces /\ result # "off"
      BY DEF WorkerPlaces, Results
    <2> QED
      BY <1>0, <2>1, <2>4, <2>5, <2>7, <2>8, WorkerMoves
  <1> QED
    BY <1>1, <1>2, <1>3, <1>4, <1>5

\* An approve makes its call after it was counted as let through; nothing else
\* that happens to a confirmation calls a provider.
LEMMA ConfirmationKeeps ==
    ASSUME NEW d, Drivers = {d}, WorkflowInv(d), NEW s \in Steps, ConfirmationStep(s)
    PROVE  WorkflowInv(d)'
  <1>0. /\ StepOnce(d, s) /\ EngineTypes /\ conf \in [Steps -> Confirmations] /\ effects \in [Steps -> Nat]
    BY DEF WorkflowInv, EngineTypes
  <1>1. UNCHANGED <<def, run, steps, eng, work>>
    BY DEF ConfirmationStep
  <1>2. conf[s].status # "none"
    <2>1. conf[s].status = "none" => conf[s].reading = 0 /\ conf[s].calling = 0 /\ conf[s].recording = 0
      BY <1>0 DEF StepOnce, Unasked
    <2> QED
      BY <1>0, <2>1 DEF ConfirmationStep, ApproveRead, ApproveCommit, ApproveCalls, ApproveRecords, Refuse, Expire,
                        ResolveAgain
  <1>3. effects[s] \in Nat /\ conf[s] \in Confirmations /\ effects[s] + conf[s].calling <= conf[s].approved
    BY <1>0, <1>2 DEF StepOnce
  <1>4. /\ conf' \in [Steps -> Confirmations] /\ effects' \in [Steps -> Nat]
        /\ \A r \in Steps \ {s} : conf'[r] = conf[r] /\ effects'[r] = effects[r]
        /\ conf'[s].status # "none" /\ effects'[s] + conf'[s].calling <= conf'[s].approved
    <2>1. CASE ApproveRead(s)
      BY <1>0, <1>3, <2>1 DEF ApproveRead, Confirmations
    <2>2. CASE ApproveCommit(s)
      <3>1. PICK c \in Confirmations : c = conf[s]
        BY <1>3
      <3>2. PICK n : n = [c EXCEPT !.reading = c.reading - 1, !.calling = c.calling + 1, !.approved = c.approved + 1,
                                   !.status = "USED"]
        OBVIOUS
      <3>3. c.reading > 0 /\ conf' = [conf EXCEPT ![s] = n] /\ UNCHANGED effects
        BY <1>0, <2>2, <3>1, <3>2 DEF ApproveCommit
      <3>4. /\ c.calling \in Nat /\ c.approved \in Nat /\ c.recording \in Nat /\ c.reading - 1 \in Nat
            /\ c.last \in {"none", "EXECUTED", "FAILED"}
        BY <3>3 DEF Confirmations
      <3>5. n = [status |-> "USED", last |-> c.last, reading |-> c.reading - 1, calling |-> c.calling + 1,
                 recording |-> c.recording, approved |-> c.approved + 1]
        BY <3>2 DEF Confirmations
      <3>6. n \in Confirmations /\ n.status = "USED" /\ n.calling = c.calling + 1 /\ n.approved = c.approved + 1
        BY <3>4, <3>5 DEF Confirmations
      <3> QED
        BY <1>0, <1>3, <3>1, <3>3, <3>4, <3>6
    <2>3. CASE ApproveCalls(s)
      <3>1. /\ conf[s].calling > 0 /\ effects' = [effects EXCEPT ![s] = effects[s] + 1]
            /\ conf' = [conf EXCEPT ![s].calling = conf[s].calling - 1, ![s].recording = conf[s].recording + 1]
        BY <2>3 DEF ApproveCalls
      <3> QED
        BY <1>0, <1>2, <1>3, <3>1 DEF Confirmations
    <2>4. ASSUME NEW outcome1 \in {"EXECUTED", "FAILED"}, conf[s].recording > 0, UNCHANGED effects,
                 conf' = [conf EXCEPT ![s].recording = conf[s].recording - 1, ![s].last = outcome1]
          PROVE  <1>4!:
      <3>1. PICK c \in Confirmations : c = conf[s]
        BY <1>3
      <3>2. PICK n : n = [c EXCEPT !.recording = c.recording - 1, !.last = outcome1]
        OBVIOUS
      <3>3. c.recording > 0 /\ conf' = [conf EXCEPT ![s] = n] /\ UNCHANGED effects
        BY <1>0, <2>4, <3>1, <3>2
      <3>4. c.recording - 1 \in Nat /\ outcome1 \in {"none", "EXECUTED", "FAILED"}
        BY <3>3 DEF Confirmations
      <3>5. n = [status |-> c.status, last |-> outcome1, reading |-> c.reading, calling |-> c.calling,
                 recording |-> c.recording - 1, approved |-> c.approved]
        BY <3>2 DEF Confirmations
      <3>6. n \in Confirmations /\ n.status = c.status /\ n.calling = c.calling /\ n.approved = c.approved
        BY <3>4, <3>5 DEF Confirmations
      <3> QED
        BY <1>0, <1>2, <1>3, <3>1, <3>3, <3>6
    <2>5. CASE Refuse(s) \/ Expire(s) \/ ResolveAgain(s)
      BY <1>0, <1>2, <1>3, <2>5 DEF Refuse, Expire, ResolveAgain, Confirmations
    <2> QED
      BY <2>1, <2>2, <2>3, <2>4, <2>5 DEF ConfirmationStep, ApproveRecords
  <1>5. ASSUME NEW r \in Steps PROVE StepOnce(d, r)'
    <2>1. StepOnce(d, r)
      BY DEF WorkflowInv
    <2>2. CASE r = s
      <3>1. steps[s] # "PENDING" /\ work[d][s] \notin {"claim", "call"}
        BY <1>0, <1>2 DEF StepOnce, Unasked
      <3> QED
        BY <1>0, <1>1, <1>4, <2>2, <3>1 DEF StepOnce
    <2>3. CASE r # s
      BY <1>1, <1>4, <2>1, <2>3 DEF StepOnce
    <2> QED
      BY <2>2, <2>3
  <1>6. EngineTypes'
    BY <1>0, <1>1, <1>4 DEF EngineTypes
  <1> QED
    BY <1>1, <1>5, <1>6 DEF WorkflowInv, Off, BatchInHand, Finished

\* What a crash leaves: no workers, and dispatches without a recorded outcome.
LEMMA CrashKeeps == ASSUME NEW d, Drivers = {d}, WorkflowInv(d), Crash PROVE WorkflowInv(d)'
  <1>0. EngineTypes /\ conf \in [Steps -> Confirmations]
    BY DEF WorkflowInv, EngineTypes
  <1>1. /\ eng' = [e \in Drivers |-> Idle] /\ work' = [e \in Drivers |-> Off] /\ UNCHANGED <<def, run, steps, effects>>
        /\ conf' = [s \in Steps |-> [conf[s] EXCEPT !.reading = 0, !.calling = 0, !.recording = 0]]
    BY DEF Crash
  <1>2. eng' \in [Drivers -> EngineRecords] /\ eng'[d].pc = "idle"
    BY <1>1 DEF EngineRecords, Idle, Open
  <1>3. work' \in [Drivers -> [Steps -> WorkerPlaces]] /\ work'[d] = Off /\ \A s \in Steps : work'[d][s] = "off"
    BY <1>1 DEF WorkerPlaces, Off
  <1>4. conf' \in [Steps -> Confirmations]
    BY <1>0, <1>1 DEF Confirmations
  <1>5. EngineTypes'
    BY <1>0, <1>1, <1>2, <1>3, <1>4 DEF EngineTypes
  <1>6. ASSUME NEW s \in Steps PROVE StepOnce(d, s)'
    <2>1. /\ StepOnce(d, s) /\ conf[s] \in Confirmations /\ effects[s] \in Nat
          /\ conf'[s] = [conf[s] EXCEPT !.reading = 0, !.calling = 0, !.recording = 0]
      BY <1>0, <1>1 DEF WorkflowInv, EngineTypes
    <2>2. /\ conf'[s].status = conf[s].status /\ conf'[s].calling = 0 /\ conf'[s].approved = conf[s].approved
          /\ Unasked(conf[s]) => Unasked(conf'[s])
      <3>1. PICK c \in Confirmations : c = conf[s]
        BY <2>1
      <3>2. PICK n : n = [c EXCEPT !.reading = 0, !.calling = 0, !.recording = 0]
        OBVIOUS
      <3>3. n.status = c.status /\ n.calling = 0 /\ n.approved = c.approved
        BY <3>2 DEF Confirmations
      <3>4. Unasked(c) => Unasked(n)
        BY <3>2 DEF Unasked, Confirmations
      <3> QED
        BY <2>1, <3>1, <3>2, <3>3, <3>4
    <2>3. effects[s] + conf[s].calling <= conf[s].approved => effects[s] + 0 <= conf[s].approved
      BY <2>1 DEF Confirmations
    <2> QED
      BY <1>1, <1>3, <2>1, <2>2, <2>3 DEF StepOnce
  <1> QED
    BY <1>1, <1>2, <1>3, <1>5, <1>6 DEF WorkflowInv, Off, Finished

\* Every step of one driver, of its workers and of the confirmations.
LEMMA WorkflowStep == ASSUME NEW d, Drivers = {d}, WorkflowInv(d), [Next]_vars PROVE WorkflowInv(d)'
  <1>1. CASE UNCHANGED vars
    BY <1>1 DEF vars, WorkflowInv, EngineTypes, StepOnce, Finished, BatchInHand, Off
  <1>2. CASE DriverStep(d)
    <2>1. CASE WorkerStep(d)
      BY <2>1, WorkerKeeps DEF WorkerStep
    <2> QED
      BY <1>2, <2>1, LookKeeps, AfterBatchKeeps, JoinedKeeps, ReleaseKeeps DEF DriverStep
  <1>3. CASE Next
    BY <1>2, <1>3, TimeKeeps, CallKeeps, ConfirmationKeeps, CrashKeeps DEF Next
  <1> QED
    BY <1>1, <1>3

\* A run that was just created.
LEMMA WorkflowInit == ASSUME NEW d, Drivers = {d}, Init PROVE WorkflowInv(d)
  <1>1. "status" \in DOMAIN run /\ run.status = "PENDING"
    BY DEF Init
  <1>2. eng \in [Drivers -> EngineRecords] /\ eng[d].pc = "idle"
    BY DEF Init, EngineRecords, Idle, Open
  <1>3. work \in [Drivers -> [Steps -> WorkerPlaces]] /\ work[d] = Off
    BY DEF Init, WorkerPlaces, Off
  <1>4. steps \in [Steps -> StepStates] /\ conf \in [Steps -> Confirmations] /\ effects \in [Steps -> Nat] /\ def \in Definitions
    BY DEF Init, CreateStepRows, StepStates, Confirmations, NoConfirmation
  <1>5. ASSUME NEW s \in Steps PROVE StepOnce(d, s)
    BY <1>3 DEF Init, CreateStepRows, StepOnce, Off, NoConfirmation, Unasked
  <1> QED
    BY <1>1, <1>2, <1>3, <1>4, <1>5 DEF WorkflowInv, EngineTypes

\* While calls for a run do not overlap, no step of it calls its provider twice,
\* but for overlapping approves of its confirmation.
THEOREM StepsRunOnce == ASSUME NEW d, Drivers = {d} PROVE Spec => []ExactlyOnce
  <1>1. Init => WorkflowInv(d)
    BY WorkflowInit
  <1>2. WorkflowInv(d) /\ [Next]_vars => WorkflowInv(d)'
    BY WorkflowStep
  <1>3. WorkflowInv(d) => ExactlyOnce
    <2>1. ASSUME WorkflowInv(d), NEW s \in Steps PROVE effects[s] <= 1 \/ effects[s] <= conf[s].approved
      <3>1. StepOnce(d, s) /\ effects[s] \in Nat /\ conf[s] \in Confirmations
        BY <2>1 DEF WorkflowInv, EngineTypes
      <3> QED
        BY <3>1 DEF StepOnce, Confirmations
    <2> QED
      BY <2>1 DEF ExactlyOnce
  <1> QED
    BY <1>1, <1>2, <1>3, PTL DEF Spec

\* A run is COMPLETED only with all its steps completed, skipped or denied.
THEOREM CompletedIsDone == ASSUME NEW d, Drivers = {d} PROVE Spec => []CompletedMeansDone
  <1>1. Init => WorkflowInv(d)
    BY WorkflowInit
  <1>2. WorkflowInv(d) /\ [Next]_vars => WorkflowInv(d)'
    BY WorkflowStep
  <1>3. WorkflowInv(d) => CompletedMeansDone
    BY DEF WorkflowInv, Finished, CompletedMeansDone
  <1> QED
    BY <1>1, <1>2, <1>3, PTL DEF Spec

-----------------------------------------------------------------------------
(* The agent loop *)

\* What the counters of AgentBudget can hold.
Budgets == [iterations: 0 .. MaxIterations + 1, tools: 0 .. MaxTools]
\* A segment is in progress.
Running == {"pick", "propose", "call", "verify", "persist"}

\* What the run has called is covered by the counter in force, the one in memory
\* while a segment runs and the row's between two, and by a full cap for every
\* segment that was lost.
CallsCovered ==
    /\ made \in Nat /\ lost \in Nat /\ budget \in Budgets
    /\ row # NoRow => row.budget \in Budgets
    /\ phase = "new" => made = 0 /\ budget = Fresh
    /\ phase \in Running => made <= MaxTools * lost + budget.tools
    /\ phase = "idle" => made <= MaxTools * lost + MaxTools
    /\ phase = "idle" /\ row # NoRow => made <= MaxTools * lost + row.budget.tools
    /\ phase \in Running \cup {"new", "idle"}

\* The audit log calls an action executed only after it was.
SaidIsTrue == said = "executed" => approval = "executed"

\* The caps of AgentBudget are for a run and not for a segment.
LEMMA BudgetStep ==
    ASSUME NEW b \in Budgets
    PROVE  /\ b.iterations \in Nat /\ b.tools \in Nat
           /\ b.iterations <= MaxIterations + 1 /\ b.tools <= MaxTools
           /\ b.iterations <= MaxIterations => [b EXCEPT !.iterations = b.iterations + 1] \in Budgets
           /\ b.tools < MaxTools => [b EXCEPT !.tools = b.tools + 1] \in Budgets
           /\ [b EXCEPT !.iterations = b.iterations + 1].tools = b.tools
           /\ [b EXCEPT !.tools = b.tools + 1].tools = b.tools + 1
  <1>1. b \in [iterations: 0 .. MaxIterations + 1, tools: 0 .. MaxTools]
    BY DEF Budgets
  <1>2. /\ b.iterations \in Nat /\ b.tools \in Nat /\ b.iterations <= MaxIterations + 1 /\ b.tools <= MaxTools
        /\ b.iterations <= MaxIterations => b.iterations + 1 \in 0 .. MaxIterations + 1
        /\ b.tools < MaxTools => b.tools + 1 \in 0 .. MaxTools
    BY <1>1, AgentAssumption
  <1> QED
    BY <1>1, <1>2 DEF Budgets

\* The steps that leave the counters alone.
LEMMA CountersKept ==
    ASSUME CallsCovered, UNCHANGED <<made, lost, budget, row>>, phase \in Running, phase' \in Running
    PROVE  CallsCovered'
  BY DEF CallsCovered, Running

\* Every step of a run, of its process and of its confirmation keeps the account.
LEMMA CoveredStep == ASSUME CallsCovered, [AgentNext]_agentVars PROVE CallsCovered'
  <1>1. CASE UNCHANGED agentVars
    BY <1>1 DEF agentVars, CallsCovered
  <1>2. CASE StartRun
    <2>1. phase = "new" /\ phase' = "pick" /\ UNCHANGED <<made, lost, budget, row>>
      BY <1>2 DEF StartRun, memory, history
    <2>2. made = 0 /\ budget.tools = 0 /\ lost \in Nat
      BY <2>1 DEF CallsCovered, Fresh
    <2>3. made <= MaxTools * lost + budget.tools
      <3>1. MaxTools * lost \in Nat
        BY <2>2, AgentAssumption
      <3> QED
        BY <2>2, <3>1
    <2> QED
      BY <2>1, <2>3 DEF CallsCovered, Running
  <1>3. CASE \/ StopOverBudget \/ SkipTasks \/ FinishTasks \/ PrepareFails \/ GateRejects \/ ProposeCalls
             \/ StopAtToolCap \/ VerifyOk \/ VerifyFails \/ TimeIsUp
    <2>1. UNCHANGED <<made, lost, budget, row>> /\ phase \in Running /\ phase' \in Running
      BY <1>3 DEF StopOverBudget, SkipTasks, FinishTasks, PrepareFails, GateRejects, ProposeCalls, StopAtToolCap,
                  VerifyOk, VerifyFails, TimeIsUp, EndSegment, history, memory, Running
    <2> QED
      BY <2>1, CountersKept
  <1>4. CASE PickTask
    <2>1. /\ phase = "pick" /\ phase' = "propose" /\ ~OverBudget /\ UNCHANGED <<made, lost, row>>
          /\ budget' = [budget EXCEPT !.iterations = budget.iterations + 1]
      BY <1>4 DEF PickTask, history
    <2>2. budget \in Budgets /\ made <= MaxTools * lost + budget.tools
      BY <2>1 DEF CallsCovered, Running
    <2>3. budget.iterations <= MaxIterations
      <3>1. ~(budget.iterations > MaxIterations)
        BY <2>1 DEF OverBudget
      <3>2. budget.iterations \in Nat
        BY <2>2, BudgetStep
      <3> QED
        BY <3>1, <3>2, AgentAssumption
    <2>4. budget' \in Budgets /\ budget'.tools = budget.tools
      BY <2>1, <2>2, <2>3, BudgetStep
    <2> QED
      BY <2>1, <2>2, <2>4 DEF CallsCovered, Running
  <1>5. CASE CallTool \/ PauseForUser \/ OperatorDenies
    <2>1. /\ phase = "call" /\ ~CallRefused /\ UNCHANGED <<lost, row>> /\ made' = made + 1
          /\ budget' = [budget EXCEPT !.tools = budget.tools + 1]
      BY <1>5 DEF CallTool, PauseForUser, OperatorDenies, SendCall
    <2>p. phase' \in Running
      BY <1>5 DEF CallTool, PauseForUser, OperatorDenies, EndSegment, Running
    <2>2. budget \in Budgets /\ made <= MaxTools * lost + budget.tools /\ made \in Nat /\ lost \in Nat
      BY <2>1 DEF CallsCovered, Running
    <2>3. budget.tools < MaxTools
      <3>1. ~(budget.tools >= MaxTools)
        BY <2>1 DEF CallRefused
      <3>2. budget.tools \in Nat
        BY <2>2, BudgetStep
      <3> QED
        BY <3>1, <3>2, AgentAssumption
    <2>4. budget' \in Budgets /\ budget'.tools = budget.tools + 1 /\ budget.tools \in Nat
      BY <2>1, <2>2, <2>3, BudgetStep
    <2>5. made' <= MaxTools * lost + budget'.tools /\ made' \in Nat
      <3>1. MaxTools * lost \in Nat
        BY <2>2, AgentAssumption
      <3> QED
        BY <2>1, <2>2, <2>4, <3>1
    <2> QED
      BY <2>1, <2>p, <2>2, <2>4, <2>5 DEF CallsCovered, Running
  <1>6. CASE PersistRun
    <2>1. /\ phase = "persist" /\ phase' = "idle" /\ UNCHANGED <<made, lost, budget>>
          /\ row' = [outcome |-> outcome, status |-> status, attempt |-> attempt, budget |-> budget]
      BY <1>6 DEF PersistRun, memory, history
    <2>2. row'.budget = budget
      BY <2>1
    <2>3. /\ budget \in Budgets /\ made <= MaxTools * lost + budget.tools /\ made \in Nat /\ lost \in Nat
      BY <2>1 DEF CallsCovered, Running
    <2>4. made <= MaxTools * lost + MaxTools
      <3>1. budget.tools \in Nat /\ budget.tools <= MaxTools
        BY <2>3, BudgetStep
      <3>2. MaxTools * lost \in Nat
        BY <2>3, AgentAssumption
      <3> QED
        BY <2>3, <3>1, <3>2, AgentAssumption
    <2> QED
      BY <2>1, <2>2, <2>3, <2>4 DEF CallsCovered, Running
  <1>7. CASE ProcessStops
    <2>1. phase \in Running /\ phase' = "idle" /\ lost' = lost + 1 /\ UNCHANGED <<made, budget, row>>
      BY <1>7 DEF ProcessStops, memory, Running
    <2>2. made \in Nat /\ lost \in Nat /\ budget.tools \in Nat /\ budget.tools <= MaxTools
          /\ made <= MaxTools * lost + budget.tools
      BY <2>1, BudgetStep DEF CallsCovered
    <2>3. MaxTools * (lost + 1) = MaxTools * lost + MaxTools /\ MaxTools * lost \in Nat /\ MaxTools \in Nat
      BY <2>2, AgentAssumption
    <2>4. made <= MaxTools * (lost + 1)
      BY <2>2, <2>3
    <2>5. made <= MaxTools * (lost + 1) + MaxTools
      BY <2>2, <2>3, <2>4
    <2>6. row # NoRow => made <= MaxTools * (lost + 1) + row.budget.tools
      <3>1. row # NoRow => row.budget.tools \in Nat
        BY BudgetStep DEF CallsCovered
      <3> QED
        BY <2>2, <2>3, <2>4, <3>1
    <2>7. lost + 1 \in Nat
      BY <2>2
    <2> QED
      BY <2>1, <2>2, <2>5, <2>6, <2>7 DEF CallsCovered, Running
  <1>8. CASE Confirmation
    BY <1>8 DEF Confirmation, memory, history, CallsCovered
  <1>9. CASE ContinueRun
    <2>1. phase = "idle" /\ phase' = "pick" /\ row # NoRow /\ budget' = row.budget /\ UNCHANGED <<made, lost, row>>
      BY <1>9 DEF ContinueRun, Restore, history
    <2> QED
      BY <2>1 DEF CallsCovered, Running
  <1> QED
    BY <1>1, <1>2, <1>3, <1>4, <1>5, <1>6, <1>7, <1>8, <1>9 DEF AgentNext, LoopStep

\* With every pause, resume and lost segment counted, and requests that do not
\* overlap, a run calls no more tools than its caps allow (AgentBudget, its
\* restore, and the gate in the loop).
THEOREM CapsAlwaysHold == AgentSpec => []CapsHold
  <1>1. AgentInit => CallsCovered
    BY AgentAssumption DEF AgentInit, CallsCovered, Budgets, Fresh, Running
  <1>2. ASSUME CallsCovered PROVE CapsHold
    <2>1. /\ budget.iterations <= MaxIterations + 1
          /\ budget.tools \in Nat /\ budget.tools <= MaxTools /\ made \in Nat /\ lost \in Nat
      BY <1>2, BudgetStep DEF CallsCovered
    <2>2. \E t \in Nat : t <= MaxTools /\ made <= MaxTools * lost + t
      <3>1. CASE phase = "new"
        <4>1. made = 0 /\ MaxTools * lost \in Nat /\ 0 <= MaxTools
          BY <1>2, <2>1, <3>1, AgentAssumption DEF CallsCovered
        <4>2. made <= MaxTools * lost + 0
          BY <4>1
        <4> QED
          BY <4>1, <4>2
      <3>2. CASE phase \in Running
        BY <1>2, <2>1, <3>2 DEF CallsCovered
      <3>3. CASE phase = "idle"
        BY <1>2, <3>3, AgentAssumption DEF CallsCovered
      <3> QED
        BY <1>2, <3>1, <3>2, <3>3 DEF CallsCovered
    <2>3. MaxTools * (1 + lost) = MaxTools * lost + MaxTools /\ MaxTools * lost \in Nat /\ MaxTools \in Nat
      BY <2>1, AgentAssumption
    <2> QED
      BY <2>1, <2>2, <2>3 DEF CapsHold
  <1> QED
    BY <1>1, <1>2, CoveredStep, PTL DEF AgentSpec

\* What the audit log says first stays true.
LEMMA SaidStep == ASSUME SaidIsTrue, [AgentNext]_agentVars PROVE SaidIsTrue'
  <1>1. CASE UNCHANGED <<approval, said>>
    BY <1>1 DEF SaidIsTrue
  <1>2. CASE PauseForUser
    BY <1>2 DEF PauseForUser, SaidIsTrue
  <1>3. CASE Confirmation
    BY <1>3 DEF Confirmation, UseApproval, ApprovedRuns, RefuseApproval, ResolvedAgain, SaidIsTrue
  <1> QED
    BY <1>1, <1>2, <1>3 DEF AgentNext, agentVars, LoopStep, StartRun, StopOverBudget, PickTask, SkipTasks, FinishTasks,
       PrepareFails, GateRejects, ProposeCalls, StopAtToolCap, CallTool, OperatorDenies, VerifyOk, VerifyFails,
       PersistRun, TimeIsUp, ProcessStops, ContinueRun

\* A resumed run completes a task that waited only if its action was executed,
\* whoever resolves the confirmation and however often (_resolve_one).
THEOREM ApprovalAlwaysBelieved == AgentSpec => ApprovalBelieved
  <1>1. AgentInit => SaidIsTrue
    BY DEF AgentInit, SaidIsTrue
  <1>2. ASSUME SaidIsTrue, [AgentNext]_agentVars
        PROVE  [phase = "idle" /\ phase' = "pick"
                  => \A t \in Tasks : row.status[t] = "waiting" /\ status'[t] = "completed" => approval = "executed"]_agentVars
    <2> SUFFICES ASSUME AgentNext, phase = "idle", phase' = "pick", NEW t \in Tasks, row.status[t] = "waiting",
                        status'[t] = "completed"
                 PROVE  approval = "executed"
      BY <1>2
    <2>1. ContinueRun
      BY DEF AgentNext, LoopStep, StartRun, StopOverBudget, PickTask, SkipTasks, FinishTasks,
         PrepareFails, GateRejects, ProposeCalls, StopAtToolCap, SendCall, PauseForUser, CallTool, OperatorDenies, VerifyOk, VerifyFails,
         PersistRun, TimeIsUp, ProcessStops, Confirmation
    <2>2. status'[t] = Resumed(t)
      BY <2>1 DEF ContinueRun
    <2>3. ResolveOne = "executed"
      BY <2>2 DEF Resumed
    <2>4. said = "executed"
      BY <2>3 DEF ResolveOne
    <2> QED
      BY <1>2, <2>4 DEF SaidIsTrue
  <1> QED
    BY <1>1, <1>2, SaidStep, PTL DEF AgentSpec, ApprovalBelieved

\* A segment passes its phases in this order, unless it counts something.
Rank == [propose |-> 4, call |-> 3, verify |-> 2, pick |-> 1, persist |-> 0]

\* The loop gets on: it counts an iteration or a tool call, or moves to a later
\* phase, or gives up tasks.
GetsOn ==
    \/ budget'.iterations > budget.iterations
    \/ budget'.iterations = budget.iterations /\ budget'.tools > budget.tools
    \/ budget' = budget /\ phase' \in Running /\ Rank[phase'] < Rank[phase]
    \/ budget' = budget /\ phase' = phase /\ Pending' \subseteq Pending /\ Pending' # Pending

\* While a segment runs every step ends it, leaves the loop where it is, or gets
\* on; and the counters stay within their caps.
SegmentStep ==
    phase \in Running =>
      /\ budget' \in Budgets
      /\ phase' = "idle" \/ UNCHANGED <<phase, budget, status>> \/ GetsOn

\* A running segment comes closer to its end with every step of the loop.
SegmentGetsOn == [][SegmentStep]_agentVars

\* One step of a segment.
LEMMA LoopGetsOn == ASSUME CallsCovered, phase \in Running, LoopStep PROVE phase' = "idle" \/ GetsOn
  <1>0. budget \in Budgets /\ budget.iterations \in Nat /\ budget.tools \in Nat
    BY BudgetStep DEF CallsCovered
  <1>1. CASE PickTask
    <2>1. budget' = [budget EXCEPT !.iterations = budget.iterations + 1]
      BY <1>1 DEF PickTask
    <2>2. budget'.iterations = budget.iterations + 1
      BY <1>0, <2>1 DEF Budgets
    <2> QED
      BY <1>0, <2>2 DEF GetsOn
  <1>2. CASE SendCall
    <2>1. budget' = [budget EXCEPT !.tools = budget.tools + 1]
      BY <1>2 DEF SendCall
    <2>2. budget'.tools = budget.tools + 1 /\ budget'.iterations = budget.iterations
      BY <1>0, <2>1 DEF Budgets
    <2> QED
      BY <1>0, <2>2 DEF GetsOn
  <1>3. CASE SkipTasks
    <2>1. /\ budget' = budget /\ phase' = phase /\ Pending # {}
          /\ \A t \in Tasks : status'[t] = IF t \in Unreachable THEN "skipped" ELSE status[t]
      BY <1>3 DEF SkipTasks
    <2>2. Unreachable \subseteq Pending /\ Unreachable # {}
      BY <2>1 DEF Unreachable, Blocked
    <2>3. Pending' \subseteq Pending
      BY <2>1 DEF Pending
    <2>4. PICK t \in Unreachable : t \in Pending /\ t \in Tasks
      BY <2>2 DEF Pending
    <2>5. t \notin Pending'
      BY <2>1, <2>4 DEF Pending
    <2> QED
      BY <2>1, <2>3, <2>4, <2>5 DEF GetsOn
  <1>4. CASE StopOverBudget \/ FinishTasks
    BY <1>4 DEF StopOverBudget, FinishTasks, EndSegment, GetsOn, Rank, Running
  <1>5. CASE PrepareFails \/ GateRejects \/ ProposeCalls
    BY <1>5 DEF PrepareFails, GateRejects, ProposeCalls, GetsOn, Rank, Running
  <1>6. CASE StopAtToolCap \/ VerifyOk \/ VerifyFails
    BY <1>6 DEF StopAtToolCap, VerifyOk, VerifyFails, EndSegment, GetsOn, Rank, Running
  <1>7. CASE PersistRun
    BY <1>7 DEF PersistRun
  <1> QED
    BY <1>1, <1>2, <1>3, <1>4, <1>5, <1>6, <1>7 DEF LoopStep, CallTool, PauseForUser, OperatorDenies

\* A segment never turns back: for every plan, cycles and repairs included, each
\* step of AgentLoop uses up something of which there is a bounded supply, so
\* the loop can only end.
THEOREM SegmentAlwaysGetsOn == AgentSpec => SegmentGetsOn
  <1>1. AgentInit => CallsCovered
    BY AgentAssumption DEF AgentInit, CallsCovered, Budgets, Fresh, Running
  <1>2. CallsCovered /\ [AgentNext]_agentVars => CallsCovered'
    BY CoveredStep
  <1>3. CallsCovered /\ CallsCovered' /\ [AgentNext]_agentVars =>
          [SegmentStep]_agentVars
    <2> SUFFICES ASSUME CallsCovered, CallsCovered', AgentNext, phase \in Running
                 PROVE  /\ budget' \in Budgets
                        /\ phase' = "idle" \/ UNCHANGED <<phase, budget, status>> \/ GetsOn
      BY DEF SegmentStep
    <2>1. budget' \in Budgets
      BY DEF CallsCovered
    <2>2. CASE LoopStep
      BY <2>1, <2>2, LoopGetsOn
    <2>3. CASE ~LoopStep
      BY <2>1, <2>3 DEF AgentNext, StartRun, TimeIsUp, ProcessStops, Confirmation, ContinueRun, memory, Running
    <2> QED
      BY <2>2, <2>3
  <1> QED
    BY <1>1, <1>2, <1>3, PTL DEF AgentSpec, SegmentGetsOn

-----------------------------------------------------------------------------
(* The sort of a workflow's steps *)

\* q lists the elements of S, each of them once.
Lists(q, S) ==
    /\ q \in Seq(S)
    /\ \A x \in S : \E i \in 1..Len(q) : q[i] = x
    /\ \A i, j \in 1..Len(q) : q[i] = q[j] => i = j

\* SetToSeq lists the elements of a finite set.
LEMMA SetToSeqLists == ASSUME NEW S, IsFiniteSet(S) PROVE Lists(SetToSeq(S), S)
<1>1. Cardinality(S) \in Nat /\ ExistsBijection(1..Cardinality(S), S)
  BY FS_CardinalityType
<1>2. PICK n \in Nat : n = Cardinality(S)
  BY <1>1
<1>3. PICK f \in Bijection(1..n, S) : TRUE
  BY <1>1, <1>2 DEF ExistsBijection
<1>4. f \in [1..n -> S] /\ IsInjective(f)
  BY <1>3 DEF Bijection, Injection, IsInjective
<1>5. PICK q : q = SetToSeq(S)
  OBVIOUS
<1>6. q \in [1..n -> S] /\ IsInjective(q)
  BY <1>2, <1>4, <1>5 DEF SetToSeq
<1>7. \A i, j \in 1..n : q[i] = q[j] => i = j
  BY <1>6 DEF IsInjective
<1>8. PICK T \in SUBSET S : T = {q[i] : i \in 1..n}
  BY <1>6
<1>9. q \in Bijection(1..n, T)
  BY <1>6, <1>8 DEF Bijection, Injection, Surjection, IsInjective
<1>10. Cardinality(T) = n
  BY <1>9, FS_CountingElements DEF ExistsBijection
<1>11. \A x \in S : \E i \in 1..n : q[i] = x
  BY <1>2, <1>8, <1>10, FS_Subset
<1>12. q \in Seq(S) /\ Len(q) = n
  BY <1>6
<1> QED BY <1>5, <1>7, <1>11, <1>12 DEF Lists

\* Two lists of disjoint sets make a list of their union.
LEMMA ListsJoin ==
    ASSUME NEW S, NEW T, S \cap T = {}, NEW q, NEW u, Lists(q, S), Lists(u, T)
    PROVE  Lists(q \o u, S \cup T)
<1>1. q \in Seq(S \cup T) /\ u \in Seq(S \cup T) /\ Len(q) \in Nat /\ Len(u) \in Nat
  <2>1. q \in Seq(S) /\ u \in Seq(T)
    BY DEF Lists
  <2> QED BY <2>1
<1>2. PICK w : w = q \o u
  OBVIOUS
<1>3. PICK m \in Nat : m = Len(q)
  BY <1>1
<1>4. PICK n \in Nat : n = Len(u)
  BY <1>1
<1>5. w \in Seq(S \cup T)
  BY <1>1, <1>2
<1>6. Len(w) = m + n
  BY <1>1, <1>2, <1>3, <1>4
<1>7. \A i \in 1..(m + n) : w[i] = IF i <= m THEN q[i] ELSE u[i - m]
  BY <1>1, <1>2, <1>3, <1>4
<1>8. \A i \in 1..m : i \in 1..(m + n) /\ w[i] = q[i] /\ q[i] \in S
  <2>1. \A i \in 1..m : i \in 1..(m + n) /\ i <= m
    OBVIOUS
  <2>2. \A i \in 1..m : q[i] \in S
    BY <1>3 DEF Lists
  <2> QED BY <1>7, <2>1, <2>2
<1>9. \A i \in 1..n : i + m \in 1..(m + n) /\ w[i + m] = u[i] /\ u[i] \in T
  <2>1. \A i \in 1..n : i + m \in 1..(m + n) /\ ~(i + m <= m) /\ (i + m) - m = i
    OBVIOUS
  <2>2. \A i \in 1..n : u[i] \in T
    BY <1>4 DEF Lists
  <2> QED BY <1>7, <2>1, <2>2
<1>10. \A i \in 1..(m + n) : i \in 1..m \/ \E k \in 1..n : i = k + m
  <2>1. ASSUME NEW i \in 1..(m + n), i \notin 1..m PROVE \E k \in 1..n : i = k + m
    <3>1. i - m \in 1..n /\ i = (i - m) + m
      BY <2>1
    <3> QED BY <3>1
  <2> QED BY <2>1
<1>11. ASSUME NEW x \in S \cup T PROVE \E i \in 1..(m + n) : w[i] = x
  <2>1. CASE x \in S
    <3>1. PICK i \in 1..m : q[i] = x
      BY <1>3, <2>1 DEF Lists
    <3> QED BY <1>8, <3>1
  <2>2. CASE x \in T
    <3>1. PICK i \in 1..n : u[i] = x
      BY <1>4, <2>2 DEF Lists
    <3> QED BY <1>9, <3>1
  <2> QED BY <2>1, <2>2
<1>12. ASSUME NEW i \in 1..(m + n), NEW j \in 1..(m + n), w[i] = w[j] PROVE i = j
  <2>1. \A a, b \in 1..m : q[a] = q[b] => a = b
    BY <1>3 DEF Lists
  <2>2. \A a, b \in 1..n : u[a] = u[b] => a = b
    BY <1>4 DEF Lists
  <2>3. CASE i \in 1..m /\ j \in 1..m
    BY <1>8, <1>12, <2>1, <2>3
  <2>4. CASE i \in 1..m /\ j \notin 1..m
    BY <1>8, <1>9, <1>10, <1>12, <2>4
  <2>5. CASE i \notin 1..m /\ j \in 1..m
    BY <1>8, <1>9, <1>10, <1>12, <2>5
  <2>6. CASE i \notin 1..m /\ j \notin 1..m
    <3>1. PICK a \in 1..n : i = a + m
      BY <1>10, <2>6
    <3>2. PICK b \in 1..n : j = b + m
      BY <1>10, <2>6
    <3>3. a = b
      BY <1>9, <1>12, <2>2, <3>1, <3>2
    <3> QED BY <3>1, <3>2, <3>3
  <2> QED BY <2>3, <2>4, <2>5, <2>6
<1>13. Lists(w, S \cup T)
  BY <1>5, <1>6, <1>11, <1>12 DEF Lists
<1> QED BY <1>2, <1>13

\* Taking the head off a list.
LEMMA ListsTail ==
    ASSUME NEW S, NEW q, Lists(q, S), q # <<>>
    PROVE  Head(q) \in S /\ Lists(Tail(q), S \ {Head(q)})
<1>1. q \in Seq(S) /\ Len(q) \in Nat
  BY DEF Lists
<1>2. PICK m \in Nat : m = Len(q)
  BY <1>1
<1>3. m >= 1 /\ Head(q) = q[1] /\ q[1] \in S
  <2>1. m # 0
    BY <1>1, <1>2
  <2>2. m >= 1
    BY <2>1
  <2> QED BY <1>1, <1>2, <2>2
<1>4. PICK w : w = Tail(q)
  OBVIOUS
<1>5. w \in Seq(S) /\ Len(w) = m - 1 /\ \A i \in 1..(m - 1) : w[i] = q[i + 1]
  BY <1>1, <1>2, <1>3, <1>4
<1>6. \A i, j \in 1..m : q[i] = q[j] => i = j
  BY <1>2 DEF Lists
<1>7. \A i \in 1..(m - 1) : i + 1 \in 1..m /\ i + 1 # 1
  BY <1>3
<1>8. 1 \in 1..m
  BY <1>3
<1>9. \A i \in 1..(m - 1) : w[i] \in S \ {q[1]}
  <2>1. \A i \in 1..(m - 1) : w[i] \in S
    BY <1>5
  <2> QED BY <1>5, <1>6, <1>7, <1>8, <2>1
<1>10. w \in Seq(S \ {q[1]})
  <2>1. m - 1 \in Nat
    BY <1>3
  <2>2. w \in [1..(m - 1) -> S \ {q[1]}]
    BY <1>5, <1>9
  <2> QED BY <2>1, <2>2
<1>11. ASSUME NEW x \in S \ {q[1]} PROVE \E i \in 1..(m - 1) : w[i] = x
  <2>1. PICK i \in 1..m : q[i] = x
    BY <1>2 DEF Lists
  <2>2. i # 1
    BY <1>11, <2>1
  <2>3. PICK k \in 1..(m - 1) : i = k + 1
    <3>1. i - 1 \in 1..(m - 1) /\ i = (i - 1) + 1
      BY <1>3, <2>2
    <3> QED BY <3>1
  <2> QED BY <1>5, <2>1, <2>3
<1>12. ASSUME NEW i \in 1..(m - 1), NEW j \in 1..(m - 1), w[i] = w[j] PROVE i = j
  <2>1. q[i + 1] = q[j + 1]
    BY <1>5, <1>12
  <2>2. i + 1 = j + 1
    BY <1>6, <1>7, <2>1
  <2> QED BY <2>2
<1>13. Lists(w, S \ {q[1]})
  BY <1>5, <1>10, <1>11, <1>12 DEF Lists
<1> QED BY <1>3, <1>4, <1>13

\* The entries of s's depends_on that name no step of P, the steps it names, and
\* the steps that are ready once those of P are done.
Left(s, P) == {k \in DOMAIN dagDeps[s] : dagDeps[s][k] \notin P}
Named(s) == Range(dagDeps[s])
Runnable(P) == {s \in Ids \ P : Named(s) \subseteq P}

\* What the sort has done so far, if it has popped the steps of P: the steps of P
\* can run in some order, before any others; the indegrees count the entries that
\* are left; the queue lists what is ready.
Sorted(P) ==
    /\ \A s \in P : Named(s) \subseteq P
    /\ \A done \in SUBSET Ids : ~(P \subseteq done) => \E s \in P \ done : Named(s) \subseteq done
    /\ seen = Cardinality(P)
    /\ indegree = [s \in Ids |-> Cardinality(Left(s, P))]
    /\ Lists(queue, Runnable(P))

\* Every depends_on is a list of ids.
DagTypes == \A s \in Ids : dagDeps[s] \in Seq(Ids \cup {Unknown})

\* The inductive invariant.
DagInv ==
    /\ DagTypes
    /\ dagPhase \in {"empty", "edges"} => seen = 0
    /\ dagPhase = "sort" => /\ \A s \in Ids : Named(s) \subseteq Ids
                            /\ \E P \in SUBSET Ids : Sorted(P)
    /\ dagPhase = "parallel" => NeverStuck
    /\ AcceptedRuns

\* The entries of a list: finitely many, and they name what its range holds.
LEMMA EntriesOfList ==
  ASSUME DagTypes, NEW s \in Ids
  PROVE  /\ IsFiniteSet(DOMAIN dagDeps[s])
         /\ \A x : x \in Named(s) <=> \E k \in DOMAIN dagDeps[s] : dagDeps[s][k] = x
         /\ \A x : x \in Named(s) <=> Entries(x, s) # {}
<1>1. dagDeps[s] \in Seq(Ids \cup {Unknown})
  BY DEF DagTypes
<1>2. PICK m \in Nat : DOMAIN dagDeps[s] = 1..m
  BY <1>1
<1>3. IsFiniteSet(DOMAIN dagDeps[s])
  BY <1>2, FS_Interval
<1>4. \A x : x \in Named(s) <=> \E k \in DOMAIN dagDeps[s] : dagDeps[s][k] = x
  BY DEF Named, Range
<1>5. \A x : x \in Named(s) <=> Entries(x, s) # {}
  BY <1>4 DEF Entries
<1> QED BY <1>3, <1>4, <1>5

\* The initial state.
LEMMA InitDag == DagInit => DagInv
<1> SUFFICES ASSUME DagInit PROVE DagInv
  OBVIOUS
<1>1. dagPhase = "empty" /\ seen = 0 /\ dagDeps = [s \in Ids |-> <<>>]
  BY DEF DagInit
<1>2. DagTypes
  BY <1>1 DEF DagTypes
<1> QED BY <1>1, <1>2 DEF DagInv, AcceptedRuns

\* A definition arrives.
LEMMA SubmitKeepsDag == DagInv /\ Submit => DagInv'
<1> SUFFICES ASSUME DagInv, Submit PROVE DagInv'
  OBVIOUS
<1>1. /\ dagPhase = "empty" /\ dagDeps' \in [Ids -> BoundedSeq(Ids \cup {Unknown}, MaxDeps)]
      /\ dagPhase' = "edges" /\ seen' = seen
  BY DEF Submit
<1>2. ASSUME NEW s \in Ids PROVE dagDeps'[s] \in Seq(Ids \cup {Unknown})
  <2>1. dagDeps'[s] \in BoundedSeq(Ids \cup {Unknown}, MaxDeps)
    BY <1>1
  <2>2. PICK m \in Nat : dagDeps'[s] \in [1..m -> Ids \cup {Unknown}]
    <3>1. dagDeps'[s] \in UNION {[1..m -> Ids \cup {Unknown}] : m \in 0..MaxDeps}
      BY <2>1 DEF BoundedSeq, SeqOf
    <3>2. \E m \in 0..MaxDeps : dagDeps'[s] \in [1..m -> Ids \cup {Unknown}]
      BY <3>1
    <3> QED BY <3>2
  <2> QED BY <2>2
<1>3. DagTypes'
  BY <1>2 DEF DagTypes
<1> QED BY <1>1, <1>3 DEF DagInv, AcceptedRuns

\* The edges: nothing is done, and the steps without dependencies are ready.
LEMMA EdgesKeepsDag == DagInv /\ Edges => DagInv'
<1> SUFFICES ASSUME DagInv, Edges PROVE DagInv'
  OBVIOUS
<1>1. /\ dagPhase = "edges" /\ dagDeps' = dagDeps /\ dagBlock' = dagBlock /\ dagCond' = dagCond /\ seen' = seen
      /\ \/ dagPhase' = "refused"
            /\ \/ \E s \in Ids : Unknown \in Named(s)
               \/ \E s \in Ids : Cardinality(EdgesFrom(s)) > MaxFan
         \/ /\ dagPhase' = "sort" /\ \A s \in Ids : Unknown \notin Named(s)
            /\ indegree' = [s \in Ids |-> Cardinality(DOMAIN dagDeps[s])]
            /\ queue' = SetToSeq({s \in Ids : DOMAIN dagDeps[s] = {}})
  BY DEF Edges, Named
<1>2. seen = 0 /\ DagTypes /\ DagTypes'
  BY <1>1 DEF DagInv, DagTypes
<1>3. CASE dagPhase' = "refused" /\ \E s \in Ids : Unknown \in Named(s)
  <2>1. PICK s \in Ids : Unknown \in Named(s)
    BY <1>3
  <2>2. PICK done \in SUBSET Ids : done = Ids \ {s}
    OBVIOUS
  <2>3. done # Ids /\ \A t \in Ids \ done : t = s
    BY <2>2
  <2>4. ~(Named(s) \subseteq done)
    BY <2>1, DagAssumption
  <2>5. ~NeverStuck
    BY <2>3, <2>4 DEF NeverStuck, Named
  <2>6. ~NeverStuck'
    BY <1>1, <2>5 DEF NeverStuck
  <2> QED BY <1>1, <1>2, <1>3, <2>6 DEF DagInv, AcceptedRuns
<1>4. CASE dagPhase' = "refused" /\ \E s \in Ids : Cardinality(EdgesFrom(s)) > MaxFan
  <2>1. (\E s \in Ids : Cardinality(EdgesFrom(s)) > MaxFan)'
    BY <1>1, <1>4 DEF EdgesFrom, Entries
  <2> QED BY <1>1, <1>2, <1>4, <2>1 DEF DagInv, AcceptedRuns
<1>5. CASE /\ dagPhase' = "sort" /\ \A s \in Ids : Unknown \notin Named(s)
           /\ indegree' = [s \in Ids |-> Cardinality(DOMAIN dagDeps[s])]
           /\ queue' = SetToSeq({s \in Ids : DOMAIN dagDeps[s] = {}})
  <2>1. \A s \in Ids : Named(s) \subseteq Ids
    <3> TAKE s \in Ids
    <3>1. dagDeps[s] \in Seq(Ids \cup {Unknown})
      BY <1>2 DEF DagTypes
    <3>2. \A k \in DOMAIN dagDeps[s] : dagDeps[s][k] \in Ids \cup {Unknown}
      BY <3>1
    <3>3. Named(s) \subseteq Ids \cup {Unknown}
      BY <1>2, <3>2, EntriesOfList
    <3> QED BY <1>5, <3>3
  <2>2. PICK free \in SUBSET Ids : free = {s \in Ids : DOMAIN dagDeps[s] = {}}
    OBVIOUS
  <2>3. IsFiniteSet(free)
    BY FS_Subset, DagAssumption
  <2>4. Lists(queue', free)
    BY <1>5, <2>2, <2>3, SetToSeqLists
  <2>5. Runnable({}) = free
    <3>1. \A s \in Ids : Named(s) \subseteq {} <=> DOMAIN dagDeps[s] = {}
      BY <1>2, EntriesOfList
    <3> QED BY <2>2, <3>1 DEF Runnable
  <2>6. seen' = Cardinality({})
    BY <1>1, <1>2, FS_EmptySet
  <2>7. \A s \in Ids : Left(s, {}) = DOMAIN dagDeps[s]
    BY DEF Left
  <2>8. \A s \in Ids : Named(s)' = Named(s) /\ Left(s, {})' = Left(s, {})
    BY <1>1 DEF Named, Left
  <2>9. indegree' = [s \in Ids |-> Cardinality(Left(s, {})')]
    BY <1>5, <2>7, <2>8
  <2>10. Runnable({})' = Runnable({})
    BY <2>8 DEF Runnable
  <2>11. Lists(queue, Runnable({}))'
    BY <2>4, <2>5, <2>10
  <2>12. Sorted({})'
    BY <1>1, <2>6, <2>9, <2>11 DEF Sorted
  <2> QED BY <1>1, <1>2, <1>5, <2>1, <2>8, <2>12 DEF DagInv, AcceptedRuns
<1> QED BY <1>1, <1>3, <1>4, <1>5

\* One turn: the popped step is done, and what it freed is ready.
LEMMA PopKeepsDag == DagInv /\ Pop => DagInv'
<1> SUFFICES ASSUME DagInv, Pop PROVE DagInv'
  OBVIOUS
<1>1. PICK node : node = Head(queue)
  OBVIOUS
<1>2. PICK freed : freed = {t \in Dependents(node) : indegree[t] = Cardinality(Entries(node, t))}
  OBVIOUS
<1>3. /\ dagPhase = "sort" /\ queue # <<>>
      /\ indegree' = [t \in Ids |-> indegree[t] - Cardinality(Entries(node, t))]
      /\ queue' = Tail(queue) \o SetToSeq(freed)
      /\ seen' = seen + 1
      /\ dagDeps' = dagDeps /\ dagBlock' = dagBlock /\ dagCond' = dagCond /\ dagPhase' = dagPhase
  BY <1>1, <1>2 DEF Pop
<1>4. DagTypes /\ \A s \in Ids : Named(s) \subseteq Ids
  BY <1>3 DEF DagInv
<1>5. PICK P \in SUBSET Ids : Sorted(P)
  BY <1>3 DEF DagInv
<1>6. Lists(queue, Runnable(P)) /\ seen = Cardinality(P) /\ indegree = [s \in Ids |-> Cardinality(Left(s, P))]
      /\ (\A s \in P : Named(s) \subseteq P)
      /\ \A done \in SUBSET Ids : ~(P \subseteq done) => \E s \in P \ done : Named(s) \subseteq done
  BY <1>5 DEF Sorted
<1>7. node \in Runnable(P) /\ Lists(Tail(queue), Runnable(P) \ {node})
  BY <1>1, <1>3, <1>6, ListsTail
<1>8. node \in Ids \ P /\ Named(node) \subseteq P
  BY <1>7 DEF Runnable
<1>9. PICK Q \in SUBSET Ids : Q = P \cup {node}
  BY <1>8
<1>10. IsFiniteSet(P) /\ \A s \in Ids : IsFiniteSet(Left(s, P)) /\ IsFiniteSet(Entries(node, s))
  <2>1. \A s \in Ids : Left(s, P) \subseteq DOMAIN dagDeps[s] /\ Entries(node, s) \subseteq DOMAIN dagDeps[s]
    BY DEF Left, Entries
  <2>2. \A s \in Ids : IsFiniteSet(DOMAIN dagDeps[s])
    BY <1>4, EntriesOfList
  <2> QED BY <2>1, <2>2, FS_Subset, DagAssumption
<1>11. seen' = Cardinality(Q)
  BY <1>3, <1>6, <1>8, <1>9, <1>10, FS_AddElement
<1>12. \A s \in Ids : /\ Left(s, Q) = Left(s, P) \ Entries(node, s)
                      /\ Entries(node, s) \subseteq Left(s, P)
  BY <1>8, <1>9 DEF Left, Entries
<1>13. \A s \in Ids : Cardinality(Left(s, Q)) = indegree[s] - Cardinality(Entries(node, s))
  <2> TAKE s \in Ids
  <2>1. indegree[s] = Cardinality(Left(s, P)) /\ IsFiniteSet(Left(s, P)) /\ IsFiniteSet(Entries(node, s))
    BY <1>6, <1>10
  <2>2. Left(s, P) \cap Entries(node, s) = Entries(node, s)
    BY <1>12
  <2>3. Cardinality(Left(s, P) \ Entries(node, s))
          = Cardinality(Left(s, P)) - Cardinality(Left(s, P) \cap Entries(node, s))
    BY <2>1, FS_Difference
  <2> QED BY <1>12, <2>1, <2>2, <2>3
<1>14. indegree' = [s \in Ids |-> Cardinality(Left(s, Q))]
  BY <1>3, <1>13
<1>15. ASSUME NEW t \in Ids PROVE t \in freed <=> node \in Named(t) /\ Named(t) \subseteq Q
  <2>1. t \in Dependents(node) <=> node \in Named(t)
    BY <1>4, EntriesOfList DEF Dependents
  <2>2. indegree[t] = Cardinality(Entries(node, t)) <=> Left(t, P) = Entries(node, t)
    <3>1. indegree[t] = Cardinality(Left(t, P)) /\ IsFiniteSet(Left(t, P))
      BY <1>6, <1>10
    <3> QED BY <1>12, <3>1, FS_Subset
  <2>3. Left(t, P) = Entries(node, t) <=> Left(t, Q) = {}
    BY <1>12
  <2>4. Left(t, Q) = {} <=> Named(t) \subseteq Q
    <3>1. \A x : x \in Named(t) <=> \E k \in DOMAIN dagDeps[t] : dagDeps[t][k] = x
      BY <1>4, EntriesOfList
    <3> QED BY <3>1 DEF Left
  <2> QED BY <1>2, <2>1, <2>2, <2>3, <2>4
<1>16. freed \subseteq Ids
  BY <1>2 DEF Dependents
<1>17. freed \in SUBSET Ids /\ freed \cap (Runnable(P) \ {node}) = {}
  <2>1. \A t \in Runnable(P) : Named(t) \subseteq P
    BY DEF Runnable
  <2> QED BY <1>8, <1>15, <1>16, <2>1
<1>18. Runnable(Q) = (Runnable(P) \ {node}) \cup freed
  <2>1. ASSUME NEW t \in Ids PROVE t \in Runnable(Q) <=> t \in (Runnable(P) \ {node}) \cup freed
    <3>1. t \in Runnable(Q) <=> t \notin P /\ t # node /\ Named(t) \subseteq P \cup {node}
      BY <1>9 DEF Runnable
    <3>2. t \in Runnable(P) <=> t \notin P /\ Named(t) \subseteq P
      BY DEF Runnable
    <3>3. t \in freed <=> node \in Named(t) /\ Named(t) \subseteq P \cup {node}
      BY <1>9, <1>15
    <3>4. t \in freed => t \notin P /\ t # node
      BY <1>6, <1>8, <3>3
    <3>5. CASE node \in Named(t)
      BY <1>8, <3>1, <3>2, <3>3, <3>4, <3>5
    <3>6. CASE node \notin Named(t)
      BY <1>8, <3>1, <3>2, <3>3, <3>6
    <3> QED BY <3>5, <3>6
  <2>2. Runnable(Q) \subseteq Ids /\ (Runnable(P) \ {node}) \cup freed \subseteq Ids
    BY <1>17 DEF Runnable
  <2> QED BY <2>1, <2>2
<1>19. Lists(queue', Runnable(Q))
  <2>1. IsFiniteSet(freed)
    BY <1>17, FS_Subset, DagAssumption
  <2>2. Lists(SetToSeq(freed), freed)
    BY <2>1, SetToSeqLists
  <2>3. Lists(Tail(queue) \o SetToSeq(freed), (Runnable(P) \ {node}) \cup freed)
    BY <1>7, <1>17, <2>2, ListsJoin
  <2> QED BY <1>3, <1>18, <2>3
<1>20. \A s \in Q : Named(s) \subseteq Q
  BY <1>6, <1>8, <1>9
<1>21. ASSUME NEW done \in SUBSET Ids, ~(Q \subseteq done) PROVE \E s \in Q \ done : Named(s) \subseteq done
  <2>1. CASE P \subseteq done
    BY <1>8, <1>9, <1>21, <2>1
  <2>2. CASE ~(P \subseteq done)
    BY <1>6, <1>9, <2>2
  <2> QED BY <2>1, <2>2
<1>22. (\A s : Named(s)' = Named(s) /\ Left(s, Q)' = Left(s, Q)) /\ DagTypes'
  BY <1>3, <1>4 DEF Named, Left, DagTypes
<1>23. Sorted(Q)'
  <2>1. Runnable(Q)' = Runnable(Q)
    BY <1>22 DEF Runnable
  <2>2. Lists(queue, Runnable(Q))'
    BY <1>19, <2>1
  <2> QED BY <1>11, <1>14, <1>20, <1>21, <1>22, <2>2 DEF Sorted
<1>24. (\A s \in Ids : Named(s) \subseteq Ids)'
  BY <1>4, <1>22
<1> QED BY <1>3, <1>22, <1>23, <1>24 DEF DagInv, AcceptedRuns

\* The end: either all is done, or what is done is where a run gets stuck.
LEMMA ConcludeKeepsDag == DagInv /\ Conclude => DagInv'
<1> SUFFICES ASSUME DagInv, Conclude PROVE DagInv'
  OBVIOUS
<1>1. /\ dagPhase = "sort" /\ queue = <<>> /\ dagDeps' = dagDeps /\ dagBlock' = dagBlock /\ dagCond' = dagCond
      /\ seen' = seen
      /\ \/ dagPhase' = "parallel" /\ seen = Cardinality(Ids)
         \/ dagPhase' = "refused" /\ seen # Cardinality(Ids)
  BY DEF Conclude
<1>2. DagTypes'
  BY <1>1 DEF DagInv, DagTypes
<1>3. PICK P \in SUBSET Ids : Sorted(P)
  BY <1>1 DEF DagInv
<1>4. NeverStuck' = NeverStuck
  BY <1>1 DEF NeverStuck
<1>5. CASE dagPhase' = "parallel" /\ seen = Cardinality(Ids)
  <2>1. P = Ids
    BY <1>3, <1>5, FS_Subset, DagAssumption DEF Sorted
  <2>2. ASSUME NEW done \in SUBSET Ids, done # Ids PROVE \E s \in Ids \ done : Named(s) \subseteq done
    <3>1. ~(P \subseteq done)
      BY <2>1, <2>2
    <3> QED BY <1>3, <2>1, <3>1 DEF Sorted
  <2>3. NeverStuck
    BY <2>2 DEF NeverStuck, Named
  <2> QED BY <1>2, <1>4, <1>5, <2>3 DEF DagInv, AcceptedRuns
<1>6. CASE dagPhase' = "refused" /\ seen # Cardinality(Ids)
  <2>1. P # Ids
    BY <1>3, <1>6 DEF Sorted
  <2>2. Runnable(P) = {}
    <3>1. Lists(<<>>, Runnable(P))
      BY <1>1, <1>3 DEF Sorted
    <3>2. \A x \in Runnable(P) : \E i \in 1..Len(<<>>) : TRUE
      BY <3>1 DEF Lists
    <3> QED BY <3>2
  <2>3. \A s \in Ids \ P : ~(Named(s) \subseteq P)
    BY <2>2 DEF Runnable
  <2>4. ~NeverStuck
    BY <2>1, <2>3 DEF NeverStuck, Named
  <2> QED BY <1>2, <1>4, <1>6, <2>4 DEF DagInv, AcceptedRuns
<1> QED BY <1>1, <1>5, <1>6

\* The block is looked at when the graph is known to be sound.
LEMMA ParallelKeepsDag == DagInv /\ ValidateParallel => DagInv'
<1> SUFFICES ASSUME DagInv, ValidateParallel PROVE DagInv'
  OBVIOUS
<1>1. /\ dagPhase = "parallel" /\ dagDeps' = dagDeps
      /\ \/ dagPhase' = "accepted"
         \/ dagPhase' = "refused" /\ BlockRefused(dagBlock', dagCond')
  BY DEF ValidateParallel
<1>2. DagTypes' /\ NeverStuck'
  BY <1>1 DEF DagInv, DagTypes, NeverStuck
<1>3. BlockRefused(dagBlock', dagCond') <=> BlockRefused(dagBlock, dagCond)'
  BY <1>1 DEF BlockRefused
<1> QED BY <1>1, <1>2, <1>3 DEF DagInv, AcceptedRuns

\* For any number of steps and every graph over them, lists that name a step more
\* than once included: validation accepts only definitions whose runs have a ready
\* step until the end, and refuses only what can get stuck, has too many entries
\* for one step, or a block at fault (_validate_dag, _validate_parallel).
THEOREM AcceptedAlwaysRuns == DagSpec => []AcceptedRuns
<1>1. DagInit => DagInv
  BY InitDag
<1>2. DagInv /\ UNCHANGED dagVars => DagInv'
  <2> SUFFICES ASSUME DagInv, UNCHANGED dagVars PROVE DagInv'
    OBVIOUS
  <2>1. /\ dagDeps' = dagDeps /\ dagBlock' = dagBlock /\ dagCond' = dagCond /\ dagPhase' = dagPhase
        /\ queue' = queue /\ indegree' = indegree /\ seen' = seen
    BY DEF dagVars
  <2>2. NeverStuck' = NeverStuck /\ DagTypes' = DagTypes
    BY <2>1 DEF NeverStuck, DagTypes
  <2>3. AcceptedRuns'
    <3>1. \A s \in Ids : EdgesFrom(s)' = EdgesFrom(s)
      BY <2>1 DEF EdgesFrom, Entries
    <3>2. BlockRefused(dagBlock, dagCond)' = BlockRefused(dagBlock, dagCond)
      BY <2>1 DEF BlockRefused
    <3> QED BY <2>1, <2>2, <3>1, <3>2 DEF DagInv, AcceptedRuns
  <2>4. ASSUME NEW P \in SUBSET Ids, Sorted(P) PROVE Sorted(P)'
    BY <2>1, <2>4 DEF Sorted, Runnable, Lists, Left, Named
  <2>5. \A s : Named(s)' = Named(s)
    BY <2>1 DEF Named
  <2> QED BY <2>1, <2>2, <2>3, <2>4, <2>5 DEF DagInv
<1>3. DagInv /\ [DagNext]_dagVars => DagInv'
  BY <1>2, SubmitKeepsDag, EdgesKeepsDag, PopKeepsDag, ConcludeKeepsDag, ParallelKeepsDag DEF DagNext
<1>4. DagInv => AcceptedRuns
  BY DEF DagInv
<1> QED BY <1>1, <1>3, <1>4, PTL DEF DagSpec

-----------------------------------------------------------------------------
(* The election of the scheduler *)

\* The row, and an operation with the row it read.
LeaderRows == [leader: Processes \cup {Nobody}, age: 0 .. Timeout + 1]
Elections == [op: {"none", "claim", "heartbeat", "release"}, read: LeaderRows \cup {NoLeaderRow}]

\* The shapes of the election's state.
LeaderTypes ==
    /\ alive \subseteq Processes
    /\ leaderRow = NoLeaderRow \/ leaderRow \in LeaderRows
    /\ doing \in [Processes -> Elections]
    /\ believes \in [Processes -> BOOLEAN]

\* Nobody has read a row before there is one; and an operation of the process
\* that the row names has read that it leads.
LeaderInv ==
    /\ LeaderTypes
    /\ LeaderKnows
    /\ leaderRow = NoLeaderRow => (\A p \in Processes : doing[p].read = NoLeaderRow)
    /\ \A p \in alive : doing[p].op # "none" /\ leaderRow # NoLeaderRow /\ leaderRow.leader = p
                          => doing[p].read # NoLeaderRow /\ doing[p].read.leader = p

\* The end of an operation of p: the row names nobody alive, or p and p knows it,
\* or whom it named before.
LEMMA OperationEnds ==
    ASSUME LeaderInv, NEW p \in Processes, LeaderTypes', alive' \subseteq alive,
           doing'[p].op = "none", doing'[p].read = NoLeaderRow,
           \A q \in Processes \ {p} : doing'[q] = doing[q] /\ believes'[q] = believes[q],
           leaderRow' = NoLeaderRow => leaderRow = NoLeaderRow,
           leaderRow' # NoLeaderRow =>
             \/ leaderRow'.leader \notin alive'
             \/ leaderRow'.leader = p /\ believes'[p]
             \/ leaderRow # NoLeaderRow /\ leaderRow.leader # p /\ leaderRow'.leader = leaderRow.leader
    PROVE  LeaderInv'
  <1>1. LeaderKnows'
    BY DEF LeaderInv, LeaderTypes, LeaderKnows
  <1>2. leaderRow' = NoLeaderRow => (\A q \in Processes : doing'[q].read = NoLeaderRow)
    BY DEF LeaderInv
  <1>3. ASSUME NEW q \in alive', doing'[q].op # "none", leaderRow' # NoLeaderRow, leaderRow'.leader = q
        PROVE  doing'[q].read # NoLeaderRow /\ doing'[q].read.leader = q
    <2>1. q # p /\ q \in Processes /\ q \in alive
      BY <1>3 DEF LeaderInv, LeaderTypes
    <2> QED
      BY <1>3, <2>1 DEF LeaderInv
  <1> QED
    BY <1>1, <1>2, <1>3 DEF LeaderInv

\* The answer is given and the process is free again.
LEMMA DoneFacts ==
    ASSUME LeaderTypes, NEW p \in Processes, NEW b \in BOOLEAN, Done(p, b)
    PROVE  /\ doing' \in [Processes -> Elections] /\ believes' \in [Processes -> BOOLEAN]
           /\ doing'[p].op = "none" /\ doing'[p].read = NoLeaderRow
           /\ believes'[p] = b
           /\ \A q \in Processes \ {p} : doing'[q] = doing[q] /\ believes'[q] = believes[q]
  <1>1. [op |-> "none", read |-> NoLeaderRow] \in Elections
    BY DEF Elections
  <1> QED
    BY <1>1 DEF Done, LeaderTypes

\* try_claim.
LEMMA TryClaimKeeps == ASSUME LeaderInv, NEW p \in Processes, TryClaim(p) PROVE LeaderInv'
  <1> USE LeaderAssumption
  <1>0. /\ LeaderTypes /\ p \in alive /\ doing[p].op = "claim" /\ alive' = alive
    BY DEF TryClaim, LeaderInv
  <1>f. [leader |-> p, age |-> 0] \in LeaderRows /\ NoLeaderRow \notin LeaderRows
    BY DEF LeaderRows
  <1>1. CASE doing[p].read = NoLeaderRow /\ leaderRow = NoLeaderRow
    <2>1. leaderRow' = [leader |-> p, age |-> 0] /\ Done(p, TRUE)
      BY <1>1 DEF TryClaim
    <2>2. LeaderTypes'
      BY <1>0, <1>f, <2>1, DoneFacts DEF LeaderTypes
    <2> QED
      BY <1>0, <1>f, <2>1, <2>2, DoneFacts, OperationEnds
  <1>2. CASE doing[p].read = NoLeaderRow /\ leaderRow # NoLeaderRow
    <2>1. leaderRow' = leaderRow /\ Done(p, FALSE)
      BY <1>2 DEF TryClaim
    <2>2. LeaderTypes'
      BY <1>0, <2>1, DoneFacts DEF LeaderTypes
    <2>3. leaderRow.leader # p
      BY <1>0, <1>2 DEF LeaderInv
    <2> QED
      BY <1>0, <1>2, <2>1, <2>2, <2>3, DoneFacts, OperationEnds
  <1>3. CASE doing[p].read # NoLeaderRow /\ doing[p].read.leader = p
    <2>1. leaderRow' = [leaderRow EXCEPT !.age = 0] /\ Done(p, TRUE)
      BY <1>3 DEF TryClaim
    <2>2. leaderRow \in LeaderRows
      BY <1>3 DEF LeaderInv, LeaderTypes
    <2>3. leaderRow' \in LeaderRows /\ leaderRow'.leader = leaderRow.leader
      BY <2>1, <2>2 DEF LeaderRows
    <2>4. LeaderTypes'
      BY <1>0, <2>1, <2>3, DoneFacts DEF LeaderTypes
    <2> QED
      BY <1>0, <1>f, <2>1, <2>2, <2>3, <2>4, DoneFacts, OperationEnds
  <1>4. CASE doing[p].read # NoLeaderRow /\ doing[p].read.leader # p /\ Stale(doing[p].read)
    <2>1. leaderRow' = [leader |-> p, age |-> 0] /\ Done(p, TRUE)
      BY <1>4 DEF TryClaim
    <2>2. LeaderTypes'
      BY <1>0, <1>f, <2>1, DoneFacts DEF LeaderTypes
    <2> QED
      BY <1>0, <1>f, <2>1, <2>2, DoneFacts, OperationEnds
  <1>5. CASE doing[p].read # NoLeaderRow /\ doing[p].read.leader # p /\ ~Stale(doing[p].read)
    <2>1. leaderRow' = leaderRow /\ Done(p, FALSE)
      BY <1>5 DEF TryClaim
    <2>2. LeaderTypes'
      BY <1>0, <2>1, DoneFacts DEF LeaderTypes
    <2>3. leaderRow # NoLeaderRow /\ leaderRow.leader # p
      BY <1>0, <1>5 DEF LeaderInv
    <2> QED
      BY <1>0, <1>5, <2>1, <2>2, <2>3, DoneFacts, OperationEnds
  <1> QED
    BY <1>1, <1>2, <1>3, <1>4, <1>5

\* heartbeat and release act for the leader they read.
LEMMA HeartbeatKeeps == ASSUME LeaderInv, NEW p \in Processes, Heartbeat(p) PROVE LeaderInv'
  <1> USE LeaderAssumption
  <1> DEFINE leads == doing[p].read # NoLeaderRow /\ doing[p].read.leader = p
  <1>1. /\ LeaderTypes /\ p \in alive /\ doing[p].op = "heartbeat" /\ alive' = alive
        /\ Done(p, leads) /\ leads \in BOOLEAN
        /\ leaderRow' = IF leads THEN [leaderRow EXCEPT !.age = 0] ELSE leaderRow
    BY DEF Heartbeat, LeaderInv
  <1>2. leads => leaderRow \in LeaderRows
    BY DEF LeaderInv, LeaderTypes
  <1>3. leaderRow # NoLeaderRow => leaderRow \in LeaderRows /\ leaderRow' \in LeaderRows /\ leaderRow'.leader = leaderRow.leader
    BY <1>1, <1>2 DEF LeaderTypes, LeaderRows
  <1>4. (leaderRow' = NoLeaderRow) = (leaderRow = NoLeaderRow) /\ (leaderRow = NoLeaderRow \/ leaderRow' \in LeaderRows)
    BY <1>1, <1>2, <1>3 DEF LeaderRows
  <1>5. leaderRow # NoLeaderRow /\ leaderRow.leader = p => leads
    BY <1>1 DEF LeaderInv
  <1> HIDE DEF leads
  <1>6. /\ doing' \in [Processes -> Elections] /\ believes' \in [Processes -> BOOLEAN]
        /\ doing'[p].op = "none" /\ doing'[p].read = NoLeaderRow
        /\ believes'[p] = leads
        /\ \A q \in Processes \ {p} : doing'[q] = doing[q] /\ believes'[q] = believes[q]
    BY <1>1, DoneFacts
  <1>7. LeaderTypes'
    BY <1>1, <1>4, <1>6 DEF LeaderTypes
  <1> QED
    BY <1>1, <1>3, <1>4, <1>5, <1>6, <1>7, OperationEnds

\* A process that releases the row, or dies, is no longer alive.
LEMMA LeavesKeeps == ASSUME LeaderInv, NEW p \in Processes, ReleaseLeadership(p) \/ Dies(p) PROVE LeaderInv'
  <1> USE LeaderAssumption
  <1>1. LeaderTypes /\ p \in alive /\ alive' = alive \ {p} /\ Done(p, FALSE)
    BY DEF ReleaseLeadership, Dies, LeaderInv
  <1>2. \/ leaderRow' = leaderRow
        \/ leaderRow' = [leader |-> Nobody, age |-> 0]
    BY DEF ReleaseLeadership, Dies
  <1>3. leaderRow' = [leader |-> Nobody, age |-> 0] => leaderRow' \in LeaderRows /\ leaderRow'.leader \notin alive'
    BY <1>1 DEF LeaderRows, LeaderTypes
  <1>4. NoLeaderRow \notin LeaderRows
    BY DEF LeaderRows
  <1>5. LeaderTypes'
    BY <1>1, <1>2, <1>3, DoneFacts DEF LeaderTypes
  <1>6. /\ doing'[p].op = "none" /\ doing'[p].read = NoLeaderRow
        /\ \A q \in Processes \ {p} : doing'[q] = doing[q] /\ believes'[q] = believes[q]
    BY <1>1, DoneFacts
  <1>7. leaderRow' = NoLeaderRow => leaderRow = NoLeaderRow
    BY <1>2, <1>3, <1>4
  <1>8. leaderRow' # NoLeaderRow =>
          \/ leaderRow'.leader \notin alive'
          \/ leaderRow # NoLeaderRow /\ leaderRow.leader # p /\ leaderRow'.leader = leaderRow.leader
    BY <1>1, <1>2, <1>3
  <1> QED
    BY <1>1, <1>5, <1>6, <1>7, <1>8, OperationEnds

\* Every step of the election keeps the invariant.
LEMMA LeaderStep == LeaderInv /\ [LeaderNext]_leaderVars => LeaderInv'
  <1> SUFFICES ASSUME LeaderInv, [LeaderNext]_leaderVars PROVE LeaderInv'
    OBVIOUS
  <1> USE LeaderAssumption
  <1>1. ASSUME NEW p \in Processes, NEW op \in {"claim", "heartbeat", "release"}, Read(p, op) PROVE LeaderInv'
    <2>1. [op |-> op, read |-> leaderRow] \in Elections
      BY DEF LeaderInv, LeaderTypes, Elections
    <2>2. /\ doing \in [Processes -> Elections] /\ doing' = [doing EXCEPT ![p] = [op |-> op, read |-> leaderRow]]
          /\ alive' = alive /\ leaderRow' = leaderRow /\ believes' = believes
      BY <1>1 DEF Read, LeaderInv, LeaderTypes
    <2>3. doing' \in [Processes -> Elections] /\ doing'[p].read = leaderRow /\ \A q \in Processes \ {p} : doing'[q] = doing[q]
      BY <2>1, <2>2
    <2> QED
      BY <2>2, <2>3 DEF LeaderInv, LeaderTypes, LeaderKnows
  <1>2. CASE LeaderTime
    <2>1. leaderRow \in LeaderRows /\ leaderRow' = [leaderRow EXCEPT !.age = @ + 1] /\ leaderRow.age <= Timeout
          /\ alive' = alive /\ doing' = doing /\ believes' = believes
      BY <1>2 DEF LeaderTime, LeaderInv, LeaderTypes
    <2>2. leaderRow' \in LeaderRows /\ leaderRow'.leader = leaderRow.leader
      BY <2>1 DEF LeaderRows
    <2>3. leaderRow # NoLeaderRow /\ leaderRow' # NoLeaderRow
      BY <2>1, <2>2 DEF LeaderRows
    <2> QED
      BY <2>1, <2>2, <2>3 DEF LeaderInv, LeaderTypes, LeaderKnows
  <1>3. CASE UNCHANGED leaderVars
    BY <1>3 DEF leaderVars, LeaderInv, LeaderTypes, LeaderKnows
  <1> QED
    BY <1>1, <1>2, <1>3, TryClaimKeeps, HeartbeatKeeps, LeavesKeeps DEF LeaderNext, Finish

\* Whatever claims, heartbeats, releases and deaths of any number of processes
\* interleave, a live process that the row names believes that it leads: the
\* schedules are never left to a leader that thinks it is a standby.
THEOREM LeaderKnowsHolds == LeaderSpec => []LeaderKnows
  <1>1. LeaderInit => LeaderInv
    BY DEF LeaderInit, LeaderInv, LeaderTypes, LeaderKnows, Elections
  <1>2. LeaderInv => LeaderKnows
    BY DEF LeaderInv
  <1> QED
    BY <1>1, <1>2, LeaderStep, PTL DEF LeaderSpec
=============================================================================
