--------------------------- MODULE AuditChain_proofs ---------------------------
(***************************************************************************)
(* The audit chain verifies, for any number of threads and processes, any  *)
(* mix of the three kinds of transaction and either backend.  The argument *)
(* is that a row built on a stale read still fits the chain at its own     *)
(* number: the insert only lets it through if that number is free, and     *)
(* the number stays free until the commit.                                 *)
(***************************************************************************)
EXTENDS AuditChain, TLAPS

\* A row that continues the chain at its number.
Fits(r) == /\ r.seq \in 1..(Len(log) + 1)
           /\ r.prev = IF r.seq = 1 THEN 0 ELSE log[r.seq - 1].hash

\* Who holds what while a row is on its way.
Exclusive ==
    \A t \in Threads :
        /\ ~postgres /\ pc[t] = "commit" => writer = t
        /\ postgres /\ pc[t] \in {"read", "flush", "commit"} => appender[NoThread] = t

Pending ==
    \A t \in Threads :
        /\ pc[t] \in {"flush", "commit"} => Fits(row[t])
        /\ pc[t] = "commit" => row[t].seq = Len(log) + 1

\* The inductive invariant.
ChainInv == ChainTypeOK /\ ChainValid /\ Exclusive /\ Pending

-----------------------------------------------------------------------------
\* The last row of a linked log carries the number of rows.
LEMMA LastRow ==
    ASSUME ChainTypeOK, ChainValid
    PROVE  /\ Last(log) \in Rows
           /\ Last(log).seq = Len(log)
           /\ Last(log).hash = IF Len(log) = 0 THEN 0 ELSE log[Len(log)].hash
  <1>1. CASE log = <<>>
    BY <1>1 DEF Last, Genesis, Rows, ChainTypeOK
  <1>2. CASE log # <<>>
    <2>1. Len(log) \in DOMAIN log /\ Len(log) > 0
      BY <1>2 DEF ChainTypeOK
    <2>2. Last(log) = log[Len(log)] /\ log[Len(log)] \in Rows
      BY <1>2, <2>1 DEF Last, ChainTypeOK
    <2>3. log[Len(log)].seq = Len(log)
      BY <2>1 DEF ChainValid, Linked
    <2> QED BY <2>1, <2>2, <2>3
  <1> QED BY <1>1, <1>2

\* A row that fits the log still fits it when a row has been appended.
LEMMA FitsStable ==
    ASSUME ChainTypeOK, NEW r \in Rows, Fits(r), NEW s \in Rows, log' = Append(log, s)
    PROVE  Fits(r)'
  BY DEF Fits, ChainTypeOK

\* The initial state.
LEMMA InitChain == ChainInit => ChainInv
  BY ChainAssumption DEF ChainInit, ChainInv, ChainTypeOK, ChainValid, Linked, Exclusive, Pending,
                         Rows, Genesis, Places

\* The type invariant is preserved.
LEMMA StepType ==
    ASSUME ChainTypeOK, ChainValid, [ChainNext]_chainVars
    PROVE  ChainTypeOK'
  <1> USE ChainAssumption DEF ChainTypeOK
  <1>1. CASE UNCHANGED chainVars
    BY <1>1 DEF chainVars
  <1>2. ASSUME NEW t \in Threads, NEW k \in Kinds, Begin(t, k) PROVE ChainTypeOK'
    <2>1. k \in {"record", "plain", "resolve"} /\ ops + 1 \in Nat /\ row[t] \in Rows
      OBVIOUS
    <2>2. row' \in [Threads -> Rows]
      BY <1>2, <2>1 DEF Begin, Rows
    <2>3. pc' \in [Threads -> Places] /\ kind' \in [Threads -> {"record", "plain", "resolve"}]
      BY <1>2, <2>1 DEF Begin, Places
    <2> QED BY <1>2, <2>1, <2>2, <2>3 DEF Begin, locks
  <1>3. ASSUME NEW t \in Threads, Own(t) PROVE ChainTypeOK'
    BY <1>3 DEF Own, Places
  <1>4. ASSUME NEW t \in Threads, Update(t) PROVE ChainTypeOK'
    BY <1>4 DEF Update, Places
  <1>5. ASSUME NEW t \in Threads, Lock(t) PROVE ChainTypeOK'
    BY <1>5 DEF Lock, Places, AppendLock
  <1>6. ASSUME NEW t \in Threads, ReadLast(t) PROVE ChainTypeOK'
    <2>1. Last(log) \in Rows
      BY LastRow
    <2> DEFINE new == [row[t] EXCEPT !.seq = Last(log).seq + 1, !.prev = Last(log).hash]
    <2>2. new \in Rows
      <3>1. Last(log).seq + 1 \in Nat /\ Last(log).hash \in Nat /\ row[t] \in Rows
        BY <2>1 DEF Rows
      <3> QED BY <3>1 DEF Rows
    <2>3. row' = [row EXCEPT ![t] = new]
      BY <1>6 DEF ReadLast
    <2>4. row' \in [Threads -> Rows]
      BY <2>2, <2>3
    <2> QED BY <1>6, <2>4 DEF ReadLast, Places, locks
  <1>7. ASSUME NEW t \in Threads, End(t)
        PROVE  /\ pc' \in [Threads -> Places]
               /\ row' \in [Threads -> Rows]
               /\ writer' \in Threads \cup {NoThread}
               /\ appender' \in [AuditProcesses \cup {NoThread} -> Threads \cup {NoThread}]
               /\ recorder' \in [AuditProcesses -> Threads \cup {NoThread}]
    BY <1>7 DEF End, Free, Places, Rows, Genesis
  <1>8. ASSUME NEW t \in Threads, Insert(t) PROVE ChainTypeOK'
    BY <1>8 DEF Insert, Places, Free
  <1>9. ASSUME NEW t \in Threads, NEW why \in {"conflict", "locked", "fault"}, Fail(t, why)
        PROVE  ChainTypeOK'
    BY <1>7, <1>9 DEF Fail
  <1>10. ASSUME NEW t \in Threads, Commit(t) PROVE ChainTypeOK'
    <2>1. log' \in Seq(Rows)
      BY <1>10 DEF Commit
    <2> QED BY <1>7, <1>10, <2>1 DEF Commit
  <1>11. CASE ChainNext
    BY <1>2, <1>3, <1>4, <1>5, <1>6, <1>8, <1>9, <1>10, <1>11
       DEF ChainNext, Step, InsertConflicts, TimesOut, CommitFails
  <1> QED BY <1>1, <1>11

\* A transaction that fails disturbs nothing of the others.
LEMMA FailInv ==
    ASSUME ChainInv, ChainTypeOK', NEW t \in Threads, NEW why, Fail(t, why)
    PROVE  ChainInv'
  <1> USE ChainAssumption DEF ChainInv
  <1>1. UNCHANGED log /\ pc'[t] = "idle"
        /\ \A u \in Threads \ {t} : pc'[u] = pc[u] /\ row'[u] = row[u]
    BY DEF Fail, End, ChainTypeOK
  <1>2. ChainValid'
    BY <1>1 DEF ChainValid, Linked
  <1>3. Exclusive'
    BY <1>1 DEF Exclusive, Fail, End, Free, ChainTypeOK
  <1>4. Pending'
    BY <1>1 DEF Pending, Fits, ChainTypeOK
  <1> QED BY <1>2, <1>3, <1>4

\* Every step preserves the invariant.
LEMMA StepChain == ChainInv /\ [ChainNext]_chainVars => ChainInv'
  <1> SUFFICES ASSUME ChainInv, [ChainNext]_chainVars
               PROVE  ChainInv'
    OBVIOUS
  <1> USE ChainAssumption
  <1>0. ChainTypeOK'
    BY StepType DEF ChainInv
  <1>1. CASE UNCHANGED chainVars
    BY <1>0, <1>1 DEF ChainInv, chainVars, ChainValid, Linked, Exclusive, Pending, Fits
  <1>2. ASSUME NEW t \in Threads, NEW k \in Kinds, Begin(t, k) PROVE ChainInv'
    <2>1. k \in {"record", "plain", "resolve"} /\ pc'[t] \in {"own", "lock", "update"}
          /\ \A u \in Threads \ {t} : pc'[u] = pc[u] /\ row'[u] = row[u]
      BY <1>2 DEF Begin, ChainInv, ChainTypeOK
    <2> QED BY <1>0, <1>2, <2>1
               DEF ChainInv, Begin, ChainTypeOK, ChainValid, Linked, Exclusive, Pending, Fits, locks
  <1>3. ASSUME NEW t \in Threads, Own(t) PROVE ChainInv'
    BY <1>0, <1>3 DEF ChainInv, Own, ChainTypeOK, ChainValid, Linked, Exclusive, Pending, Fits
  <1>4. ASSUME NEW t \in Threads, Update(t) PROVE ChainInv'
    BY <1>0, <1>4 DEF ChainInv, Update, ChainTypeOK, ChainValid, Linked, Exclusive, Pending, Fits
  <1>5. ASSUME NEW t \in Threads, Lock(t) PROVE ChainInv'
    <2>1. UNCHANGED <<log, row, writer>> /\ pc' = [pc EXCEPT ![t] = "read"]
      BY <1>5 DEF Lock
    <2>2. Exclusive'
      BY <1>5, <2>1 DEF ChainInv, Lock, AppendLock, Exclusive, ChainTypeOK
    <2>3. ChainValid' /\ Pending'
      BY <2>1 DEF ChainInv, ChainValid, Linked, Pending, Fits, ChainTypeOK
    <2> QED BY <1>0, <2>2, <2>3 DEF ChainInv
  <1>6. ASSUME NEW t \in Threads, ReadLast(t) PROVE ChainInv'
    <2>1. /\ Last(log).seq = Len(log) /\ Len(log) \in Nat
          /\ Last(log).hash = IF Len(log) = 0 THEN 0 ELSE log[Len(log)].hash
      BY LastRow DEF ChainInv, ChainTypeOK
    <2>2. /\ UNCHANGED <<log, writer, appender, recorder>>
          /\ pc' = [pc EXCEPT ![t] = "flush"]
          /\ row'[t].seq = Len(log) + 1
          /\ row'[t].prev = IF Len(log) = 0 THEN 0 ELSE log[Len(log)].hash
          /\ \A u \in Threads \ {t} : row'[u] = row[u]
      BY <1>6, <2>1 DEF ReadLast, ChainInv, ChainTypeOK, Rows, locks
    <2>3. Fits(row[t])'
      BY <2>1, <2>2 DEF Fits
    <2>4. Pending'
      BY <2>2, <2>3 DEF ChainInv, Pending, Fits, ChainTypeOK
    <2>5. ChainValid'
      BY <2>2 DEF ChainInv, ChainValid, Linked
    <2>6. Exclusive'
      BY <1>6, <2>2 DEF ReadLast, ChainInv, Exclusive, ChainTypeOK
    <2> QED BY <1>0, <2>4, <2>5, <2>6 DEF ChainInv
  <1>7. ASSUME NEW t \in Threads, Insert(t) PROVE ChainInv'
    <2>1. UNCHANGED <<log, row>> /\ pc' = [pc EXCEPT ![t] = "commit"] /\ pc[t] = "flush"
      BY <1>7 DEF Insert
    <2>2. Fits(row[t]) /\ Len(log) \in Nat /\ DOMAIN log = 1..Len(log)
      BY <2>1 DEF ChainInv, Pending, ChainTypeOK
    <2>3. row[t].seq = Len(log) + 1
      <3>1. row[t].seq \in 1..(Len(log) + 1)
        BY <2>2 DEF Fits
      <3>2. ASSUME row[t].seq \in 1..Len(log) PROVE FALSE
        <4>1. log[row[t].seq].seq = row[t].seq
          BY <2>2, <3>2 DEF ChainInv, ChainValid, Linked
        <4> QED BY <1>7, <2>2, <3>2, <4>1 DEF Insert, Taken
      <3> QED BY <2>2, <3>1, <3>2
    <2>4. Pending' /\ ChainValid'
      BY <2>1, <2>2, <2>3 DEF ChainInv, Pending, Fits, ChainValid, Linked, ChainTypeOK
    <2>5. Exclusive'
      BY <1>7, <2>1 DEF ChainInv, Insert, Exclusive, Free, ChainTypeOK
    <2> QED BY <1>0, <2>4, <2>5 DEF ChainInv
  <1>8. ASSUME NEW t \in Threads, Commit(t) PROVE ChainInv'
    <2>1. /\ pc[t] = "commit" /\ log' = Append(log, row[t]) /\ row[t] \in Rows
          /\ pc'[t] = "idle" /\ log \in Seq(Rows)
          /\ \A u \in Threads \ {t} : pc'[u] = pc[u] /\ row'[u] = row[u]
      BY <1>8 DEF Commit, End, ChainInv, ChainTypeOK
    <2>2. Fits(row[t]) /\ row[t].seq = Len(log) + 1
      BY <2>1 DEF ChainInv, Pending
    <2>3. ChainValid'
      <3>1. Len(log') = Len(log) + 1 /\ Len(log) \in Nat /\ DOMAIN log' = 1..(Len(log) + 1)
            /\ log'[Len(log) + 1] = row[t] /\ \A i \in 1..Len(log) : log'[i] = log[i]
        BY <2>1
      <3>2. \A i \in 1..Len(log) : log[i].seq = i
                                   /\ log[i].prev = IF i = 1 THEN 0 ELSE log[i - 1].hash
        BY <2>1 DEF ChainInv, ChainValid, Linked
      <3>3. ASSUME NEW i \in 1..(Len(log) + 1)
            PROVE  /\ log'[i].seq = i
                   /\ log'[i].prev = IF i = 1 THEN 0 ELSE log'[i - 1].hash
        <4>1. CASE i \in 1..Len(log)
          BY <3>1, <3>2, <4>1
        <4>2. CASE i = Len(log) + 1
          BY <2>2, <3>1, <4>2 DEF Fits
        <4> QED BY <3>1, <4>1, <4>2
      <3> QED BY <3>1, <3>3 DEF ChainValid, Linked
    <2>4. Exclusive'
      BY <1>8, <2>1 DEF ChainInv, Exclusive, Commit, End, Free, ChainTypeOK
    <2>5. ASSUME NEW u \in Threads \ {t} PROVE pc[u] # "commit"
      BY <2>1, <2>5 DEF ChainInv, Exclusive
    <2>6. ASSUME NEW u \in Threads, pc'[u] \in {"flush", "commit"} PROVE Fits(row[u])'
      <3>1. u # t /\ row'[u] = row[u] /\ Fits(row[u]) /\ row[u] \in Rows
        BY <2>1, <2>6 DEF ChainInv, Pending, ChainTypeOK
      <3> QED BY <2>1, <3>1, FitsStable DEF ChainInv, Fits, ChainTypeOK
    <2>7. Pending'
      BY <2>1, <2>5, <2>6 DEF Pending
    <2> QED BY <1>0, <2>3, <2>4, <2>7 DEF ChainInv
  <1>9. CASE ChainNext
    BY <1>0, <1>2, <1>3, <1>4, <1>5, <1>6, <1>7, <1>8, <1>9, FailInv
       DEF ChainNext, Step, InsertConflicts, TimesOut, CommitFails
  <1> QED BY <1>1, <1>9

\* The inductive invariant holds in every state.
THEOREM ChainInvariant == ChainSpec => []ChainInv
  BY InitChain, StepChain, PTL DEF ChainSpec

\* The chain verifies in every state (verify_audit_rows finds no broken link and
\* no gap), for any number of threads and processes and on either backend.
THEOREM ChainAlwaysValid == ChainSpec => []ChainValid
  <1>1. ChainInv => ChainValid
    BY DEF ChainInv
  <1> QED BY <1>1, ChainInvariant, PTL

-----------------------------------------------------------------------------
\* A transaction has a number from its first statement to its end.
Numbered == \A t \in Threads : (pc[t] = "idle") <=> (row[t].hash = 0)

\* What a transaction does to its own row, and that it leaves the others alone.
LEMMA EndRow ==
    ASSUME ChainTypeOK, NEW t \in Threads, End(t)
    PROVE  /\ pc' = [pc EXCEPT ![t] = "idle"]
           /\ [u \in Threads |-> row'[u].hash] = [[u \in Threads |-> row[u].hash] EXCEPT ![t] = 0]
  BY DEF End, Genesis, ChainTypeOK

\* The three steps of the abstract log, on the variables of the chain.
LEMMA BeginAsks ==
    ASSUME ChainTypeOK, Numbered, NEW t \in Threads, NEW k \in Kinds, Begin(t, k)
    PROVE  Numbered' /\ Log!Ask(t)
  <1> USE ChainAssumption
  <1>1. /\ row[t] \in Rows /\ ops + 1 # 0 /\ row[t].hash = 0
        /\ row' = [row EXCEPT ![t] = [row[t] EXCEPT !.hash = ops + 1]]
        /\ log' = log /\ ops' = ops + 1
    BY DEF Begin, ChainTypeOK, Numbered
  <1>2. row'[t].hash = ops + 1 /\ \A u \in Threads \ {t} : row'[u] = row[u]
    BY <1>1 DEF ChainTypeOK, Rows
  <1>3. pc'[t] # "idle" /\ \A u \in Threads \ {t} : pc'[u] = pc[u]
    BY DEF Begin, ChainTypeOK
  <1>4. Numbered'
    BY <1>1, <1>2, <1>3 DEF Numbered
  <1>5. [u \in Threads |-> row'[u].hash]
          = [[u \in Threads |-> row[u].hash] EXCEPT ![t] = ops + 1]
    BY <1>2
  <1> QED BY <1>1, <1>4, <1>5 DEF Log!Ask

\* A rollback is a refusal of the abstract log.
LEMMA FailRefuses ==
    ASSUME ChainTypeOK, Numbered, NEW t \in Threads, NEW why, Fail(t, why), pc[t] # "idle"
    PROVE  Numbered' /\ Log!Refuse(t)
  <1>1. End(t) /\ log' = log /\ ops' = ops /\ row[t].hash # 0
    BY DEF Fail, Numbered
  <1>2. Numbered'
    BY <1>1 DEF Numbered, End, Genesis, ChainTypeOK
  <1> QED BY <1>1, <1>2, EndRow DEF Log!Refuse

\* At its commit a row is the successor of the last one.
LEMMA CommitWrites ==
    ASSUME ChainInv, Numbered, NEW t \in Threads, Commit(t)
    PROVE  Numbered' /\ Log!Write(t)
  <1>1. /\ End(t) /\ log' = Append(log, row[t]) /\ ops' = ops /\ row[t].hash # 0
        /\ row[t].seq = Len(log) + 1 /\ Fits(row[t]) /\ row[t] \in Rows /\ log \in Seq(Rows)
    BY DEF Commit, Numbered, ChainInv, Pending, ChainTypeOK
  <1>2. Numbered'
    BY <1>1 DEF Numbered, End, Genesis, ChainInv, ChainTypeOK
  <1>3. row[t].prev = Log!Tip
    BY <1>1 DEF Fits, Log!Tip
  <1>4. row[t] = [seq |-> Len(log) + 1, prev |-> Log!Tip, hash |-> row[t].hash]
    BY <1>1, <1>3 DEF Rows
  <1>5. [u \in Threads |-> row[u].hash][t] = row[t].hash
    OBVIOUS
  <1> QED BY <1>1, <1>2, <1>4, <1>5, EndRow DEF Log!Write, ChainInv

\* The other steps are invisible to the log's writers.
LEMMA Invisible ==
    ASSUME ChainTypeOK, Numbered, NEW t \in Threads,
           Own(t) \/ Update(t) \/ Lock(t) \/ ReadLast(t) \/ Insert(t)
    PROVE  Numbered' /\ UNCHANGED <<log, [u \in Threads |-> row[u].hash], ops>>
  <1>1. /\ log' = log /\ ops' = ops
        /\ pc[t] # "idle" /\ pc'[t] # "idle" /\ \A u \in Threads \ {t} : pc'[u] = pc[u]
    BY DEF Own, Update, Lock, ReadLast, Insert, ChainTypeOK
  <1>2. \A u \in Threads : row'[u].hash = row[u].hash
    <2>1. CASE ReadLast(t)
      BY <2>1 DEF ReadLast, ChainTypeOK, Rows
    <2> QED BY <2>1 DEF Own, Update, Lock, Insert
  <1> QED BY <1>1, <1>2 DEF Numbered

\* Every step of the chain is a step of the log, or none.
LEMMA StepRefines ==
    ASSUME ChainInv, Numbered, [ChainNext]_chainVars
    PROVE  Numbered' /\ [Log!Next]_(Log!vars)
  <1> USE DEF ChainInv, Log!vars
  <1>1. CASE UNCHANGED chainVars
    BY <1>1 DEF chainVars, Numbered
  <1>2. ASSUME NEW t \in Threads, NEW k \in Kinds, Begin(t, k)
        PROVE  Numbered' /\ [Log!Next]_(Log!vars)
    BY <1>2, BeginAsks DEF Log!Next
  <1>3. ASSUME NEW t \in Threads, InsertConflicts(t) \/ TimesOut(t) \/ CommitFails(t)
        PROVE  Numbered' /\ [Log!Next]_(Log!vars)
    BY <1>3, FailRefuses DEF Log!Next, InsertConflicts, TimesOut, CommitFails
  <1>4. ASSUME NEW t \in Threads, Commit(t) PROVE Numbered' /\ [Log!Next]_(Log!vars)
    BY <1>4, CommitWrites DEF Log!Next
  <1>5. ASSUME NEW t \in Threads, Own(t) \/ Update(t) \/ Lock(t) \/ ReadLast(t) \/ Insert(t)
        PROVE  Numbered' /\ [Log!Next]_(Log!vars)
    BY <1>5, Invisible
  <1>6. CASE ChainNext
    BY <1>2, <1>3, <1>4, <1>5, <1>6 DEF ChainNext, Step
  <1> QED BY <1>1, <1>6

\* The transactions, with their locks, timeouts and rollbacks, implement the log
\* whose appends are indivisible, on both databases: a reader of the table may
\* reason as if every audit entry were read, linked and written in one step.
THEOREM AppendsAreAtomic == ChainSpec => AtomicAppends
  <1>1. ChainInit => Numbered /\ Log!Init
    BY DEF ChainInit, Numbered, Genesis, Log!Init
  <1>2. ChainInv /\ Numbered /\ [ChainNext]_chainVars => Numbered' /\ [Log!Next]_(Log!vars)
    BY StepRefines
  <1> QED BY <1>1, <1>2, ChainInvariant, PTL DEF ChainSpec, AtomicAppends, Log!Spec

-----------------------------------------------------------------------------
\* On PostgreSQL the write lock of SQLite is not there, a row that was built is
\* the next one until it is in, and what is lost is lost to a fault alone.
Advisory ==
    postgres => /\ writer = NoThread
                /\ \A t \in Threads : pc[t] = "flush" => row[t].seq = Len(log) + 1
                /\ NothingLost

\* The end of a transaction leaves the numbers of the others alone.
LEMMA EndAdvisory ==
    ASSUME ChainInv, Advisory, postgres, NEW t \in Threads, End(t), UNCHANGED postgres,
           log' = log \/ \A u \in Threads \ {t} : pc[u] # "flush",
           NothingLost'
    PROVE  Advisory'
  <1>1. pc'[t] = "idle" /\ \A u \in Threads \ {t} : pc'[u] = pc[u] /\ row'[u] = row[u]
    BY DEF End, ChainInv, ChainTypeOK
  <1>2. writer' = NoThread
    BY DEF End, Advisory
  <1>3. ASSUME NEW u \in Threads, pc'[u] = "flush" PROVE row'[u].seq = Len(log') + 1
    BY <1>1, <1>3 DEF Advisory
  <1> QED BY <1>2, <1>3 DEF Advisory

\* No number that waits for its insert is taken.
LEMMA NumberIsFree ==
    ASSUME ChainInv, NEW t \in Threads, row[t].seq = Len(log) + 1 PROVE ~Taken(row[t].seq)
  <1>1. Len(log) \in Nat /\ DOMAIN log = 1..Len(log)
    BY DEF ChainInv, ChainTypeOK
  <1>2. \A i \in 1..Len(log) : log[i].seq = i
    BY <1>1 DEF ChainInv, ChainValid, Linked
  <1> QED BY <1>1, <1>2 DEF Taken

\* Every step keeps it.
LEMMA AdvisoryStep == ASSUME ChainInv, Advisory, [ChainNext]_chainVars PROVE Advisory'
  <1>0. postgres' = postgres
    BY DEF ChainNext, Step, Begin, Own, Update, Lock, ReadLast, Insert, InsertConflicts, TimesOut, Commit,
           CommitFails, Fail, chainVars
  <1>1. SUFFICES ASSUME postgres PROVE Advisory'
    BY <1>0 DEF Advisory
  <1>2. /\ writer = NoThread /\ NothingLost
        /\ \A t \in Threads : pc[t] = "flush" => row[t].seq = Len(log) + 1
    BY <1>1 DEF Advisory
  <1>3. CASE UNCHANGED chainVars
    BY <1>2, <1>3 DEF chainVars, Advisory, NothingLost
  <1>4. ASSUME NEW t \in Threads, NEW k \in Kinds, Begin(t, k) PROVE Advisory'
    <2>1. /\ pc'[t] # "flush" /\ UNCHANGED <<log, writer, lost>>
          /\ \A u \in Threads \ {t} : pc'[u] = pc[u] /\ row'[u] = row[u]
      BY <1>4, ChainAssumption DEF Begin, locks, ChainInv, ChainTypeOK
    <2> QED BY <1>2, <2>1 DEF Advisory, NothingLost
  <1>5. ASSUME NEW t \in Threads, Own(t) \/ Update(t) \/ Lock(t) \/ Insert(t) PROVE Advisory'
    <2>1. /\ pc'[t] # "flush" /\ UNCHANGED <<log, row, lost>> /\ writer' = writer
          /\ \A u \in Threads \ {t} : pc'[u] = pc[u]
      BY <1>1, <1>5 DEF Own, Update, Lock, Insert, ChainInv, ChainTypeOK
    <2> QED BY <1>2, <2>1 DEF Advisory, NothingLost
  <1>6. ASSUME NEW t \in Threads, ReadLast(t) PROVE Advisory'
    <2>1. /\ UNCHANGED <<log, writer, lost>> /\ \A u \in Threads \ {t} : pc'[u] = pc[u] /\ row'[u] = row[u]
      BY <1>6 DEF ReadLast, locks, ChainInv, ChainTypeOK
    <2>2. Last(log).seq = Len(log)
      BY LastRow DEF ChainInv
    <2>3. row'[t].seq = Last(log).seq + 1
      BY <1>6 DEF ReadLast, ChainInv, ChainTypeOK, Rows
    <2> QED BY <1>2, <2>1, <2>2, <2>3 DEF Advisory, NothingLost
  <1>7. ASSUME NEW t \in Threads, InsertConflicts(t) PROVE FALSE
    BY <1>2, <1>7, NumberIsFree DEF InsertConflicts
  <1>8. ASSUME NEW t \in Threads, TimesOut(t) PROVE FALSE
    BY <1>2, <1>8 DEF TimesOut, WaitCycle
  <1>9. ASSUME NEW t \in Threads, CommitFails(t) PROVE Advisory'
    <2>1. End(t) /\ log' = log /\ NothingLost'
      BY <1>2, <1>9 DEF CommitFails, Fail, NothingLost
    <2> QED BY <1>0, <1>1, <2>1, EndAdvisory
  <1>10. ASSUME NEW t \in Threads, Commit(t) PROVE Advisory'
    <2>1. End(t) /\ lost' = lost /\ pc[t] = "commit"
      BY <1>10 DEF Commit
    <2>2. \A u \in Threads \ {t} : pc[u] # "flush"
      BY <1>1, <2>1 DEF ChainInv, Exclusive
    <2>3. NothingLost'
      BY <1>2, <2>1 DEF NothingLost
    <2> QED BY <1>0, <1>1, <2>1, <2>2, <2>3, EndAdvisory
  <1> QED BY <1>3, <1>4, <1>5, <1>6, <1>7, <1>8, <1>9, <1>10 DEF ChainNext, Step

\* For any number of threads and processes: on PostgreSQL no append is refused
\* for its number or given up for a lock (the advisory lock is held to the end).
THEOREM PostgresLosesNothing == ChainSpec => []NothingLostOnPostgres
  <1>1. ChainInit => Advisory
    BY DEF ChainInit, Advisory, NothingLost
  <1>2. ChainInv /\ Advisory /\ [ChainNext]_chainVars => Advisory'
    BY AdvisoryStep
  <1>3. Advisory => NothingLostOnPostgres
    BY DEF Advisory, NothingLostOnPostgres
  <1> QED BY <1>1, <1>2, <1>3, ChainInvariant, PTL DEF ChainSpec

-----------------------------------------------------------------------------
(* The locks *)

\* What thread t waits for is free, or it waits for the write lock in a cycle
\* that busy_timeout breaks.
CanGo(t) ==
    \/ pc[t] = "own" /\ recorder[Home[t]] = NoThread
    \/ pc[t] = "update" /\ (postgres \/ writer = NoThread)
    \/ pc[t] = "lock" /\ appender[AppendLock(t)] = NoThread
    \/ pc[t] \in {"read", "commit"}
    \/ pc[t] = "flush" /\ (postgres \/ writer \in {NoThread, t})
    \/ pc[t] \in {"update", "flush"} /\ writer # t /\ WaitCycle

\* While a transaction is in progress, some transaction can go on: threads never
\* all wait for each other's locks.
SomeoneCanGo == (\E t \in Threads : pc[t] # "idle") => \E t \in Threads : CanGo(t)

\* Where the holders of the three locks are.
Holders ==
    /\ \A p \in AuditProcesses \cup {NoThread} : appender[p] # NoThread => pc[appender[p]] \in {"read", "flush", "commit"}
    /\ \A p \in AuditProcesses : recorder[p] # NoThread => pc[recorder[p]] \in {"lock", "read", "flush", "commit"}
    /\ writer # NoThread => pc[writer] \in {"lock", "read", "flush", "commit"}

\* Every step keeps the holders where they are.
LEMMA HoldersStep == ASSUME ChainTypeOK, Holders, [ChainNext]_chainVars PROVE Holders'
  <1> USE ChainAssumption
  <1>0. /\ pc \in [Threads -> Places]
        /\ appender \in [AuditProcesses \cup {NoThread} -> Threads \cup {NoThread}]
        /\ recorder \in [AuditProcesses -> Threads \cup {NoThread}] /\ writer \in Threads \cup {NoThread}
        /\ Home \in [Threads -> AuditProcesses] /\ NoThread \notin Threads
    BY DEF ChainTypeOK
  <1>1. CASE UNCHANGED chainVars
    BY <1>1 DEF chainVars, Holders
  <1>2. ASSUME NEW t \in Threads, End(t) PROVE Holders'
    <2>1. pc'[t] = "idle" /\ \A u \in Threads \ {t} : pc'[u] = pc[u]
      BY <1>0, <1>2 DEF End
    <2>2. \A p \in AuditProcesses \cup {NoThread} : appender'[p] = NoThread \/ (appender'[p] = appender[p] /\ appender[p] # t)
      BY <1>0, <1>2 DEF End, Free
    <2>3. \A p \in AuditProcesses : recorder'[p] = NoThread \/ (recorder'[p] = recorder[p] /\ recorder[p] # t)
      BY <1>0, <1>2 DEF End, Free
    <2>4. writer' = NoThread \/ (writer' = writer /\ writer # t)
      BY <1>2 DEF End
    <2> QED
      BY <1>0, <2>1, <2>2, <2>3, <2>4 DEF Holders
  <1>3. ASSUME NEW t \in Threads, NEW k \in Kinds, Begin(t, k) PROVE Holders'
    <2>1. pc[t] = "idle" /\ UNCHANGED <<writer, appender, recorder>> /\ \A u \in Threads \ {t} : pc'[u] = pc[u]
      BY <1>0, <1>3 DEF Begin, locks
    <2> QED
      BY <1>0, <2>1 DEF Holders
  <1>4. ASSUME NEW t \in Threads, Own(t) PROVE Holders'
    <2>1. /\ pc[t] = "own" /\ UNCHANGED <<writer, appender>> /\ pc'[t] = "lock"
          /\ (\A u \in Threads \ {t} : pc'[u] = pc[u])
          /\ \A p \in AuditProcesses : recorder'[p] \in {t, recorder[p]}
      BY <1>0, <1>4 DEF Own
    <2> QED
      BY <1>0, <2>1 DEF Holders
  <1>5. ASSUME NEW t \in Threads, Update(t) PROVE Holders'
    <2>1. /\ pc[t] = "update" /\ UNCHANGED <<recorder, appender>> /\ pc'[t] = "lock"
          /\ (\A u \in Threads \ {t} : pc'[u] = pc[u])
          /\ writer' \in {t, writer}
      BY <1>0, <1>5 DEF Update
    <2> QED
      BY <1>0, <2>1 DEF Holders
  <1>6. ASSUME NEW t \in Threads, Lock(t) PROVE Holders'
    <2>1. /\ pc[t] = "lock" /\ UNCHANGED <<recorder, writer>> /\ pc'[t] = "read"
          /\ (\A u \in Threads \ {t} : pc'[u] = pc[u])
          /\ \A p \in AuditProcesses \cup {NoThread} : appender'[p] \in {t, appender[p]}
      BY <1>0, <1>6 DEF Lock
    <2> QED
      BY <1>0, <2>1 DEF Holders
  <1>7. ASSUME NEW t \in Threads, ReadLast(t) PROVE Holders'
    <2>1. /\ UNCHANGED <<recorder, writer, appender>> /\ pc'[t] = "flush"
          /\ \A u \in Threads \ {t} : pc'[u] = pc[u]
      BY <1>0, <1>7 DEF ReadLast, locks
    <2> QED
      BY <1>0, <2>1 DEF Holders
  <1>8. ASSUME NEW t \in Threads, Insert(t) PROVE Holders'
    <2>1. /\ UNCHANGED recorder /\ pc'[t] = "commit" /\ writer' \in {t, writer}
          /\ (\A u \in Threads \ {t} : pc'[u] = pc[u])
          /\ \A p \in AuditProcesses \cup {NoThread} : appender'[p] \in {NoThread, appender[p]}
      BY <1>0, <1>8 DEF Insert, Free
    <2> QED
      BY <1>0, <2>1 DEF Holders
  <1> QED
    BY <1>1, <1>2, <1>3, <1>4, <1>5, <1>6, <1>7, <1>8
       DEF ChainNext, Step, InsertConflicts, TimesOut, Commit, CommitFails, Fail

\* A holder of the write lock that waits for an append lock can be overtaken: the
\* wait of whoever holds that lock is given up.
LEMMA WriterMoves ==
    ASSUME ChainTypeOK, Holders, writer # NoThread, \A t \in Threads : ~CanGo(t)
    PROVE  FALSE
  <1> USE ChainAssumption
  <1>1. writer \in Threads /\ pc[writer] \in {"lock", "read", "flush", "commit"}
    BY DEF ChainTypeOK, Holders
  <1>2. pc[writer] = "lock" /\ appender[AppendLock(writer)] # NoThread
    BY <1>1 DEF CanGo
  <1>3. AppendLock(writer) \in AuditProcesses \cup {NoThread}
    BY <1>1 DEF AppendLock
  <1>4. PICK u \in Threads : u = appender[AppendLock(writer)]
    BY <1>2, <1>3 DEF ChainTypeOK
  <1>5. pc[u] \in {"read", "flush", "commit"}
    BY <1>2, <1>3, <1>4 DEF Holders
  <1>6. pc[u] = "flush" /\ u # writer
    BY <1>2, <1>5 DEF CanGo
  <1>7. WaitCycle
    BY <1>2, <1>4, <1>6 DEF WaitCycle
  <1> QED
    BY <1>6, <1>7 DEF CanGo

\* Nobody is left to wait for once the write lock is free.
LEMMA SomeoneGoes == ASSUME ChainTypeOK, Holders PROVE SomeoneCanGo
  <1> USE ChainAssumption
  <1> SUFFICES ASSUME NEW t \in Threads, pc[t] # "idle", \A u \in Threads : ~CanGo(u) PROVE FALSE
    BY DEF SomeoneCanGo
  <1>1. writer = NoThread
    BY WriterMoves
  <1>2. \A u \in Threads : pc[u] \notin {"read", "commit", "flush", "update"}
    BY <1>1 DEF CanGo
  <1>3. \A u \in Threads : pc[u] # "lock"
    <2> SUFFICES ASSUME NEW u \in Threads, pc[u] = "lock" PROVE FALSE
      OBVIOUS
    <2>1. AppendLock(u) \in AuditProcesses \cup {NoThread} /\ appender[AppendLock(u)] # NoThread
      BY DEF AppendLock, CanGo
    <2>2. appender[AppendLock(u)] \in Threads /\ pc[appender[AppendLock(u)]] \in {"read", "flush", "commit"}
      BY <2>1 DEF ChainTypeOK, Holders
    <2> QED
      BY <1>2, <2>2
  <1>4. pc[t] = "own"
    BY <1>2, <1>3 DEF ChainTypeOK, Places
  <1>5. Home[t] \in AuditProcesses /\ recorder[Home[t]] # NoThread
    BY <1>4 DEF CanGo
  <1>6. recorder[Home[t]] \in Threads /\ pc[recorder[Home[t]]] \in {"lock", "read", "flush", "commit"}
    BY <1>5 DEF ChainTypeOK, Holders
  <1> QED
    BY <1>2, <1>3, <1>6

\* The appends of any number of threads and processes never deadlock:
\* _audit_write_lock, _append_lock, the write lock of SQLite and the advisory
\* lock of PostgreSQL are taken in an order that has one cycle, and busy_timeout
\* breaks that one.
THEOREM AppendsNeverDeadlock == ChainSpec => []SomeoneCanGo
  <1>1. ChainInit => Holders
    BY ChainAssumption DEF ChainInit, Holders
  <1>2. ChainInv /\ Holders /\ [ChainNext]_chainVars => Holders'
    BY HoldersStep DEF ChainInv
  <1>3. ChainInv /\ Holders => SomeoneCanGo
    BY SomeoneGoes DEF ChainInv
  <1> QED
    BY <1>1, <1>2, <1>3, ChainInvariant, PTL DEF ChainSpec

\* Nobody has been given up with "database is locked".
NoneLocked == \A x \in lost : x.why # "locked"
\* And nobody holds the write lock but to commit.
WriterCommits ==
    /\ \A t \in Threads : pc[t] # "update"
    /\ writer # NoThread => pc[writer] = "commit"
    /\ NoneLocked

\* Only transactions that write another table before they append (approve, deny,
\* _require_confirmation, a policy change) make "database is locked" possible:
\* without them no append, of any thread of any process, is given up for a lock.
THEOREM OnlyResolversLock == ASSUME "resolve" \notin Kinds PROVE ChainSpec => []NoneLocked
  <1> USE ChainAssumption
  <1>1. ChainInit => WriterCommits
    BY DEF ChainInit, WriterCommits, NoneLocked
  <1>2. ASSUME ChainTypeOK, WriterCommits, [ChainNext]_chainVars PROVE WriterCommits'
    <2>0. /\ pc \in [Threads -> Places] /\ writer \in Threads \cup {NoThread} /\ NoneLocked
          /\ (\A t \in Threads : pc[t] # "update") /\ (writer # NoThread => pc[writer] = "commit")
      BY <1>2 DEF ChainTypeOK, WriterCommits
    <2>1. CASE UNCHANGED chainVars
      BY <2>0, <2>1 DEF chainVars, WriterCommits, NoneLocked
    <2>2. ASSUME NEW t \in Threads, End(t), NoneLocked' PROVE WriterCommits'
      <3>1. /\ pc'[t] = "idle" /\ (\A u \in Threads \ {t} : pc'[u] = pc[u])
            /\ writer' = NoThread \/ (writer' = writer /\ writer # t)
        BY <2>0, <2>2 DEF End
      <3> QED
        BY <2>0, <2>2, <3>1 DEF WriterCommits
    <2>3. ASSUME NEW t \in Threads, NEW k \in Kinds, Begin(t, k) PROVE WriterCommits'
      <3>1. k \in {"record", "plain"}
        OBVIOUS
      <3>2. /\ pc[t] = "idle" /\ pc'[t] \in {"own", "lock"} /\ (\A u \in Threads \ {t} : pc'[u] = pc[u])
            /\ writer' = writer /\ lost' = lost
        BY <2>0, <2>3, <3>1 DEF Begin, locks
      <3> QED
        BY <2>0, <3>2 DEF WriterCommits, NoneLocked
    <2>4. ASSUME NEW t \in Threads, Own(t) \/ Lock(t) \/ ReadLast(t) PROVE WriterCommits'
      <3>1. /\ pc[t] # "commit" /\ pc'[t] # "update" /\ (\A u \in Threads \ {t} : pc'[u] = pc[u])
            /\ writer' = writer /\ lost' = lost
        BY <2>0, <2>4 DEF Own, Lock, ReadLast, locks
      <3> QED
        BY <2>0, <3>1 DEF WriterCommits, NoneLocked
    <2>5. ASSUME NEW t \in Threads, Insert(t) PROVE WriterCommits'
      <3>1. /\ pc'[t] = "commit" /\ (\A u \in Threads \ {t} : pc'[u] = pc[u])
            /\ writer' \in {t, writer} /\ lost' = lost
        BY <2>0, <2>5 DEF Insert
      <3> QED
        BY <2>0, <3>1 DEF WriterCommits, NoneLocked
    <2>6. ASSUME NEW t \in Threads, NEW why \in {"conflict", "fault"}, Fail(t, why) PROVE WriterCommits'
      <3>1. End(t) /\ NoneLocked'
        BY <2>0, <2>6 DEF Fail, NoneLocked
      <3> QED
        BY <2>2, <3>1
    <2>7. ASSUME NEW t \in Threads, Commit(t) PROVE WriterCommits'
      <3>1. End(t) /\ NoneLocked'
        BY <2>0, <2>7 DEF Commit, NoneLocked
      <3> QED
        BY <2>2, <3>1
    <2>8. ASSUME NEW t \in Threads, Update(t) \/ TimesOut(t) PROVE FALSE
      BY <2>0, <2>8 DEF Update, TimesOut, WaitCycle
    <2> QED
      BY <1>2, <2>1, <2>3, <2>4, <2>5, <2>6, <2>7, <2>8 DEF ChainNext, Step, InsertConflicts, CommitFails
  <1>3. ChainInv => ChainTypeOK
    BY DEF ChainInv
  <1>4. WriterCommits => NoneLocked
    BY DEF WriterCommits
  <1> QED
    BY <1>1, <1>2, <1>3, <1>4, ChainInvariant, PTL DEF ChainSpec
=============================================================================
