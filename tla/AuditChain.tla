------------------------------ MODULE AuditChain ------------------------------
(***************************************************************************)
(* The append-only audit chain and the transactions that append to it.     *)
(* Every append reads the last row, builds the next one from its sequence  *)
(* number and its hash, and inserts it.  Three kinds of transaction do so: *)
(*   record   ExecutionService._record, under _audit_write_lock            *)
(*   plain    an append and nothing else, without that lock (an operator's *)
(*            decision, the vault, a redundant approve)                    *)
(*   resolve  a write of another table first, then the append, without     *)
(*            that lock (approve, deny, _require_confirmation, policy)     *)
(* On SQLite the process-wide _append_lock covers the read and the insert, *)
(* not the commit; the insert takes the database's write lock, waiting up  *)
(* to busy_timeout for it.  On PostgreSQL the append takes an advisory     *)
(* lock that is held to the end of the transaction.                        *)
(***************************************************************************)
EXTENDS Integers, Sequences

CONSTANTS
    Threads, AuditProcesses, Home,   \* threads and the process each runs in
    Kinds,       \* kinds of transaction that run
    Backends,    \* the databases to choose from: TRUE is PostgreSQL, FALSE SQLite
    MaxOps,      \* bound on the transactions
    NoThread

ASSUME ChainAssumption ==
    /\ Home \in [Threads -> AuditProcesses]
    /\ Kinds \subseteq {"record", "plain", "resolve"}
    /\ Backends \subseteq BOOLEAN
    /\ MaxOps \in Nat
    /\ NoThread \notin Threads /\ NoThread \notin AuditProcesses

VARIABLES
    postgres,  \* the database the deployment uses, PostgreSQL or SQLite
    log,       \* committed rows, by seq
    pc,
    kind,      \* the transaction a thread is in
    row,       \* the row a transaction is building
    writer,    \* holder of the database's write lock (SQLite)
    appender,  \* holder of _append_lock, per process; of the advisory lock: None
    recorder,  \* holder of _audit_write_lock, per process
    lost,      \* [kind, why] of the transactions that failed (history)
    ops        \* transactions begun

chainVars == <<postgres, log, pc, kind, row, writer, appender, recorder, lost, ops>>
locks == <<writer, appender, recorder>>

\* A row: its sequence number, the hash of its predecessor and its own.  A
\* hash is the number of the transaction that wrote the row; 0: genesis_hash.
Rows == [seq: Nat, prev: Nat, hash: Nat]
Genesis == [seq |-> 0, prev |-> 0, hash |-> 0]

Places == {"idle", "own", "update", "lock", "read", "flush", "commit"}

ChainTypeOK ==
    /\ postgres \in BOOLEAN
    /\ log \in Seq(Rows)
    /\ pc \in [Threads -> Places]
    /\ kind \in [Threads -> {"record", "plain", "resolve"}]
    /\ row \in [Threads -> Rows]
    /\ writer \in Threads \cup {NoThread}
    /\ appender \in [AuditProcesses \cup {NoThread} -> Threads \cup {NoThread}]
    /\ recorder \in [AuditProcesses -> Threads \cup {NoThread}]
    /\ lost \subseteq [kind: {"record", "plain", "resolve"}, why: {"conflict", "locked", "fault"}]
    /\ ops \in Nat

ChainInit ==
    /\ postgres \in Backends
    /\ log = <<>>
    /\ pc = [t \in Threads |-> "idle"]
    /\ kind = [t \in Threads |-> "plain"]
    /\ row = [t \in Threads |-> Genesis]
    /\ writer = NoThread
    /\ appender = [p \in AuditProcesses \cup {NoThread} |-> NoThread]
    /\ recorder = [p \in AuditProcesses |-> NoThread]
    /\ lost = {}
    /\ ops = 0

-----------------------------------------------------------------------------
\* get_last: the committed rows are all that a session sees of the others.
Last(rows) == IF rows = <<>> THEN Genesis ELSE rows[Len(rows)]

\* The lock that protects an append of thread t.
AppendLock(t) == IF postgres THEN NoThread ELSE Home[t]

\* The transaction of t is over: whatever it holds is released.
Free(lock, t) == [p \in DOMAIN lock |-> IF lock[p] = t THEN NoThread ELSE lock[p]]
End(t) ==
    /\ pc' = [pc EXCEPT ![t] = "idle"]
    /\ row' = [row EXCEPT ![t] = Genesis]
    /\ writer' = IF writer = t THEN NoThread ELSE writer
    /\ appender' = Free(appender, t)
    /\ recorder' = Free(recorder, t)

Fail(t, why) ==
    /\ End(t)
    /\ lost' = lost \cup {[kind |-> kind[t], why |-> why]}
    /\ UNCHANGED <<postgres, log, kind, ops>>

Begin(t, k) ==
    /\ pc[t] = "idle" /\ ops < MaxOps
    /\ ops' = ops + 1
    /\ kind' = [kind EXCEPT ![t] = k]
    /\ row' = [row EXCEPT ![t].hash = ops + 1]
    /\ pc' = [pc EXCEPT ![t] = CASE k = "record" -> "own"
                                 [] k = "plain" -> "lock"
                                 [] k = "resolve" -> "update"]
    /\ UNCHANGED <<postgres, log, locks, lost>>

\* _audit_write_lock.
Own(t) ==
    /\ pc[t] = "own" /\ recorder[Home[t]] = NoThread
    /\ recorder' = [recorder EXCEPT ![Home[t]] = t]
    /\ pc' = [pc EXCEPT ![t] = "lock"]
    /\ UNCHANGED <<postgres, log, kind, row, writer, appender, lost, ops>>

\* The write that comes before the append: the flush of a changed or a new
\* confirmation.
Update(t) ==
    /\ pc[t] = "update"
    /\ postgres \/ writer = NoThread
    /\ writer' = IF postgres THEN writer ELSE t
    /\ pc' = [pc EXCEPT ![t] = "lock"]
    /\ UNCHANGED <<postgres, log, kind, row, appender, recorder, lost, ops>>

\* Mutant: the lock is released as soon as it is taken.
Lock_Transient(t) ==
    /\ pc[t] = "lock" /\ appender[AppendLock(t)] = NoThread
    /\ pc' = [pc EXCEPT ![t] = "read"]
    /\ UNCHANGED <<postgres, log, kind, row, locks, lost, ops>>

\* _append_lock, or the advisory lock.
Lock(t) ==
    /\ pc[t] = "lock" /\ appender[AppendLock(t)] = NoThread
    /\ appender' = [appender EXCEPT ![AppendLock(t)] = t]
    /\ pc' = [pc EXCEPT ![t] = "read"]
    /\ UNCHANGED <<postgres, log, kind, row, writer, recorder, lost, ops>>

\* get_last and build_audit_row.
ReadLast(t) ==
    /\ pc[t] = "read"
    /\ LET last == Last(log)
       IN  row' = [row EXCEPT ![t] = [@ EXCEPT !.seq = last.seq + 1, !.prev = last.hash]]
    /\ pc' = [pc EXCEPT ![t] = "flush"]
    /\ UNCHANGED <<postgres, log, kind, locks, lost, ops>>

Taken(n) == \E i \in DOMAIN log : log[i].seq = n

\* Mutant: seq is not unique.
Insert_NotUnique(t) ==
    /\ pc[t] = "flush"
    /\ postgres \/ writer \in {NoThread, t}
    /\ writer' = IF postgres THEN writer ELSE t
    /\ appender' = IF postgres THEN appender ELSE Free(appender, t)
    /\ pc' = [pc EXCEPT ![t] = "commit"]
    /\ UNCHANGED <<postgres, log, kind, row, recorder, lost, ops>>

\* The INSERT of the flush goes through: it takes the write lock, and
\* _append_lock is released behind it.
Insert(t) ==
    /\ pc[t] = "flush"
    /\ postgres \/ writer \in {NoThread, t}
    /\ ~ Taken(row[t].seq)
    /\ writer' = IF postgres THEN writer ELSE t
    /\ appender' = IF postgres THEN appender ELSE Free(appender, t)
    /\ pc' = [pc EXCEPT ![t] = "commit"]
    /\ UNCHANGED <<postgres, log, kind, row, recorder, lost, ops>>

\* seq is UNIQUE: the INSERT raises IntegrityError and the caller fails.
InsertConflicts(t) ==
    /\ pc[t] = "flush"
    /\ postgres \/ writer \in {NoThread, t}
    /\ Taken(row[t].seq)
    /\ Fail(t, "conflict")

\* The holder of the write lock waits for the _append_lock of a thread that
\* waits for the write lock.
WaitCycle ==
    /\ writer # NoThread /\ pc[writer] = "lock"
    /\ \E u \in Threads \ {writer} : appender[AppendLock(writer)] = u /\ pc[u] = "flush"

\* Mutant: no busy_timeout.
TimesOut_Never(t) == FALSE /\ Fail(t, "locked")

\* busy_timeout: a wait for the write lock that cannot end is given up with
\* "database is locked".  (Locks that are merely slow are not timed out.)
TimesOut(t) ==
    /\ pc[t] \in {"update", "flush"} /\ writer # t
    /\ WaitCycle
    /\ Fail(t, "locked")

Commit(t) ==
    /\ pc[t] = "commit"
    /\ log' = Append(log, row[t])
    /\ End(t)
    /\ UNCHANGED <<postgres, kind, lost, ops>>

\* The commit fails and the transaction is rolled back.
CommitFails(t) == pc[t] = "commit" /\ Fail(t, "fault")

Step(t) == \/ Own(t) \/ Update(t) \/ Lock(t) \/ ReadLast(t)
           \/ Insert(t) \/ InsertConflicts(t) \/ TimesOut(t) \/ Commit(t)

ChainNext == \E t \in Threads : Step(t) \/ CommitFails(t) \/ \E k \in Kinds : Begin(t, k)

ChainSpec == ChainInit /\ [][ChainNext]_chainVars /\ \A t \in Threads : WF_chainVars(Step(t))

-----------------------------------------------------------------------------
\* verify_audit_rows on the rows in the order of their sequence numbers.
Linked(rows) == \A i \in DOMAIN rows :
    /\ rows[i].seq = i
    /\ rows[i].prev = IF i = 1 THEN 0 ELSE rows[i - 1].hash

\* However transactions interleave, and on either backend, the committed rows
\* are numbered without gaps and each links to the one before it: the
\* verification of the chain never fails by a race of two appends.
ChainValid == Linked(log)

\* The chain as its writers see it: a transaction's request is open from its
\* first statement to its commit or rollback.
Log == INSTANCE AuditLog
       WITH Writers <- Threads,
            entries <- log,
            open <- [t \in Threads |-> row[t].hash],
            asked <- ops

\* An append is atomic, though it reads the last row under one lock and commits
\* under another: at its commit the row is the successor of the last one there
\* then, no row is ever changed or taken back, and a transaction that fails has
\* left no row.  verify_audit_rows therefore never fails by a race of appends.
AtomicAppends == Log!Spec

\* Every authorisation decision and every execution result is appended: none
\* is lost to the locks of the other writers.
NothingLost == \A x \in lost : x.why = "fault"

\* The advisory lock of PostgreSQL lasts to the end of the transaction: there
\* no append is refused or given up because of another one.
NothingLostOnPostgres == postgres => NothingLost

\* No transaction waits for ever, whatever locks the others hold.
EveryAppendEnds == \A t \in Threads : (pc[t] # "idle") ~> (pc[t] = "idle")
=============================================================================
