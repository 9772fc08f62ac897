---------------------------- MODULE BreakerThreads ----------------------------
(***************************************************************************)
(* The circuit breaker as it runs: worker threads of one or more processes *)
(* share, per process, a CircuitBreaker object that has no lock, and all   *)
(* of them a row in the database.  Every read or write of an attribute is  *)
(* a step of its own, as are the load of a snapshot, the read of the row   *)
(* by its save and the write.  No two circuit openings have the same time. *)
(***************************************************************************)
EXTENDS Integers

CONSTANTS
    Threads,     \* worker threads dispatching to this provider
    Processes,   \* server processes
    Home,        \* the process of each thread
    Threshold, Cooldown, Nil,
    Deployments  \* what may run: the threads, the database, the bound of the clock

ASSUME ThreadsAssumption ==
    /\ Home \in [Threads -> Processes]
    /\ Threshold \in Nat \ {0} /\ Cooldown \in Nat /\ Nil \notin Nat
    /\ Deployments \subseteq [threads: SUBSET Threads, postgres: BOOLEAN, maxTime: Nat]

VARIABLES
    deployment,  \* the one that runs: on SQLite if not on PostgreSQL
    clock,
    mem,     \* attributes of the breaker object, per process
    row,     \* the persisted snapshot, Nil before the first save
    pc,      \* where a thread is; the name of a method: at its first test
    meth,    \* the method it is in
    snap,    \* the snapshot a thread has loaded or is about to save
    base     \* the row its save has read, Nil if it found no row

threadsVars == <<deployment, clock, mem, row, pc, meth, snap, base>>

Snapshot == [state: {"CLOSED", "OPEN", "HALF_OPEN"}, failures: Nat,
             openedAt: Nat \cup {Nil}]

\* There is a row or there is none.
ASSUME NilIsNoSnapshot == Nil \notin Snapshot

Fresh == [state |-> "CLOSED", failures |-> 0, openedAt |-> Nil]

Methods == {"gate", "success", "failure"}
Positions == {"idle", "exec", "raised", "save", "flush"} \cup Methods
          \cup {"assign1", "assign2", "assign3", "capture", "capture2", "capture3"}
          \cup {"half", "assert", "probe", "reset1", "reset2", "reset3", "close",
                "failed", "reopen", "reopen2", "count", "add", "trip", "open", "stamp"}

ThreadsTypeOK ==
    /\ deployment \in Deployments
    /\ clock \in Nat
    /\ mem \in [Processes -> Snapshot]
    /\ row \in Snapshot \cup {Nil}
    /\ pc \in [Threads -> Positions]
    /\ meth \in [Threads -> Methods]
    /\ snap \in [Threads -> Snapshot]
    /\ base \in [Threads -> Snapshot \cup {Nil}]

ThreadsInit ==
    /\ deployment \in Deployments
    /\ clock = 0
    /\ mem = [p \in Processes |-> Fresh]
    /\ row = Nil
    /\ pc = [t \in Threads |-> "idle"]
    /\ meth = [t \in Threads |-> "gate"]
    /\ snap = [t \in Threads |-> Fresh]
    /\ base = [t \in Threads |-> Nil]

-----------------------------------------------------------------------------
M(t) == mem[Home[t]]

\* One attribute assignment.
Write(t, from, field, value, to) ==
    /\ pc[t] = from
    /\ mem' = [mem EXCEPT ![Home[t]][field] = value]
    /\ pc' = [pc EXCEPT ![t] = to]
    /\ UNCHANGED <<deployment, clock, row, meth, snap, base>>

\* One test.
Test(t, from, condition, then, else) ==
    /\ pc[t] = from
    /\ pc' = [pc EXCEPT ![t] = IF condition THEN then ELSE else]
    /\ UNCHANGED <<deployment, clock, mem, row, meth, snap, base>>

\* One attribute read into a local.
Read(t, from, field, to) ==
    /\ pc[t] = from
    /\ snap' = [snap EXCEPT ![t][field] = M(t)[field]]
    /\ pc' = [pc EXCEPT ![t] = to]
    /\ UNCHANGED <<deployment, clock, mem, row, meth, base>>

\* _refresh: load the row, assign the three attributes.
Load(t, from, m) ==
    /\ pc[t] = from
    /\ snap' = [snap EXCEPT ![t] = IF row = Nil THEN @ ELSE row]
    /\ pc' = [pc EXCEPT ![t] = IF row = Nil THEN m ELSE "assign1"]
    /\ meth' = [meth EXCEPT ![t] = m]
    /\ UNCHANGED <<deployment, clock, mem, row, base>>

\* The locals of a call die with it.
Forget(t) == /\ snap' = [snap EXCEPT ![t] = Fresh]
             /\ base' = [base EXCEPT ![t] = Nil]

Refresh(t) ==
    \/ Write(t, "assign1", "state", snap[t].state, "assign2")
    \/ Write(t, "assign2", "failures", snap[t].failures, "assign3")
    \/ /\ pc[t] = "assign3"
       /\ mem' = [mem EXCEPT ![Home[t]].openedAt = snap[t].openedAt]
       /\ pc' = [pc EXCEPT ![t] = meth[t]]
       /\ Forget(t)
       /\ UNCHANGED <<deployment, clock, row, meth>>

\* _persist: read the three attributes, save them.
Capture(t) ==
    \/ Read(t, "capture", "state", "capture2")
    \/ Read(t, "capture2", "failures", "capture3")
    \/ Read(t, "capture3", "openedAt", "save")

\* upsert.  On SQLite: read the row, then write the columns that differ from
\* what was read; an insert that finds the row already there raises.  On
\* PostgreSQL: one statement that writes every column.
SaveRead(t) ==
    /\ pc[t] = "save"
    /\ base' = [base EXCEPT ![t] = row]
    /\ pc' = [pc EXCEPT ![t] = "flush"]
    /\ UNCHANGED <<deployment, clock, mem, row, meth, snap>>

After(t) == IF meth[t] = "gate" THEN "exec" ELSE "idle"

\* Mutant: PostgreSQL's statement writes the changed columns only.
SaveWrite_ChangedColumns(t) ==
    /\ pc[t] = "flush"
    /\ row' = IF row = Nil \/ base[t] = Nil THEN snap[t]
              ELSE [f \in DOMAIN row |-> IF snap[t][f] = base[t][f] THEN row[f] ELSE snap[t][f]]
    /\ pc' = [pc EXCEPT ![t] = After(t)]
    /\ Forget(t)
    /\ UNCHANGED <<deployment, clock, mem, meth>>

SaveWrite(t) ==
    /\ pc[t] = "flush"
    /\ IF deployment.postgres
       THEN /\ row' = snap[t]
            /\ pc' = [pc EXCEPT ![t] = After(t)]
       ELSE IF base[t] = Nil
       THEN /\ row' = IF row = Nil THEN snap[t] ELSE row
            /\ pc' = [pc EXCEPT ![t] = IF row = Nil THEN After(t) ELSE "idle"]
       ELSE /\ row' = [f \in DOMAIN row |-> IF snap[t][f] = base[t][f] THEN row[f] ELSE snap[t][f]]
            /\ pc' = [pc EXCEPT ![t] = After(t)]
    /\ Forget(t)
    /\ UNCHANGED <<deployment, clock, mem, meth>>

\* allow_request.
Gate(t) ==
    \/ Load(t, "idle", "gate")
    \/ Test(t, "gate", M(t).state = "CLOSED", "exec", "half")
    \/ Test(t, "half", M(t).state = "HALF_OPEN", "exec", "assert")
    \/ Test(t, "assert", M(t).openedAt # Nil /\ clock - M(t).openedAt < Cooldown,
            "idle", IF M(t).openedAt = Nil THEN "raised" ELSE "probe")
    \/ Write(t, "probe", "state", "HALF_OPEN", "capture")

\* record_success.
RecordSuccess(t) ==
    \/ Load(t, "exec", "success")
    \/ Test(t, "success", M(t).state = "OPEN", "idle", "reset1")
    \/ Write(t, "reset1", "failures", 0, "reset2")
    \/ Write(t, "reset2", "openedAt", Nil, "reset3")
    \/ Test(t, "reset3", M(t).state = "HALF_OPEN", "close", "capture")
    \/ Write(t, "close", "state", "CLOSED", "capture")

\* The times of opening that are stored somewhere: a time is never read twice
\* from the clock.
Stamps == {mem[p].openedAt : p \in Processes}
          \cup UNION {{x.openedAt : x \in {row, snap[t], base[t]} \ {Nil}} : t \in Threads}

Stamp(t) == clock \notin Stamps /\ Write(t, "stamp", "openedAt", clock, "capture")

\* Counting a failure of the closed circuit, which may trip it.
CountFailure(t) ==
    \/ Read(t, "count", "failures", "add")
    \/ Write(t, "add", "failures", snap[t].failures + 1, "trip")
    \/ Test(t, "trip", M(t).failures >= Threshold, "open", "capture")
    \/ Write(t, "open", "state", "OPEN", "stamp")
    \/ Stamp(t)

\* Mutant: failures are counted whatever the state of the circuit.
RecordFailure_AlwaysCounts(t) ==
    \/ Load(t, "exec", "failure")
    \/ Test(t, "failure", TRUE, "count", "count")
    \/ CountFailure(t)

\* record_failure with an eligible code: a failed probe reopens the circuit,
\* a failure of the closed circuit counts.
RecordFailure(t) ==
    \/ Load(t, "exec", "failure")
    \/ Test(t, "failure", M(t).state = "OPEN", "idle", "failed")
    \/ Test(t, "failed", M(t).state = "HALF_OPEN", "reopen", "count")
    \/ Write(t, "reopen", "state", "OPEN", "reopen2")
    \/ Write(t, "reopen2", "failures", 1, "stamp")
    \/ CountFailure(t)

\* A dispatch that reports nothing to the breaker, or an ineligible code.
Unreported(t) == Test(t, "exec", TRUE, "idle", "idle")

\* The process stops wherever its threads are and starts again: the registry
\* creates the breaker anew, and its constructor refreshes it from the row.
Restart(p) ==
    /\ mem' = [mem EXCEPT ![p] = IF row = Nil THEN Fresh ELSE row]
    /\ pc' = [t \in Threads |-> IF Home[t] = p THEN "idle" ELSE pc[t]]
    /\ snap' = [t \in Threads |-> IF Home[t] = p THEN Fresh ELSE snap[t]]
    /\ base' = [t \in Threads |-> IF Home[t] = p THEN Nil ELSE base[t]]
    /\ UNCHANGED <<deployment, clock, row, meth>>

ThreadsTick ==
    /\ clock < deployment.maxTime
    /\ clock' = clock + 1
    /\ UNCHANGED <<deployment, mem, row, pc, meth, snap, base>>

ThreadsNext ==
    \/ \E t \in deployment.threads :
          \/ Gate(t) \/ RecordSuccess(t) \/ RecordFailure(t) \/ Unreported(t)
          \/ Refresh(t) \/ Capture(t) \/ SaveRead(t) \/ SaveWrite(t)
    \/ \E t \in deployment.threads : Restart(Home[t])
    \/ ThreadsTick

ThreadsSpec == ThreadsInit /\ [][ThreadsNext]_threadsVars

-----------------------------------------------------------------------------
\* No thread persists an open circuit without the time it was opened: such a
\* row would fail the assertion of every later dispatch, restarts included.
OpenRowHasTime == row # Nil /\ row.state = "OPEN" => row.openedAt # Nil

\* The persisted circuit moves only along the transitions of the class
\* docstring, wherever the process stops, as long as one thread dispatches at
\* a time: the writes of several attributes by one method reach the row together
\* or not at all.
RowFollowsProtocol ==
    [][LET old == IF row = Nil THEN Fresh ELSE row IN
       (\A t, u \in deployment.threads : t = u) /\ row' # row =>
          \/ old.state # "OPEN" /\ row' = Fresh
          \/ old.state = "OPEN" /\ row' = [old EXCEPT !.state = "HALF_OPEN"]
          \/ /\ old.state = "HALF_OPEN"
             /\ row' = [state |-> "OPEN", failures |-> 1, openedAt |-> row'.openedAt]
             /\ row'.openedAt > old.openedAt
          \/ /\ old.state = "CLOSED" /\ row'.failures = old.failures + 1
             /\ row'.state = IF row'.failures < Threshold THEN "CLOSED" ELSE "OPEN"
      ]_threadsVars
=============================================================================
