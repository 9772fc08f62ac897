------------------------------ MODULE Jobs_proofs ------------------------------
(***************************************************************************)
(* A key is put to the gate at most once, for any number of clients,       *)
(* workers and processes, whatever stops and recovers in between, and no   *)
(* job is forgotten.                                                       *)
(***************************************************************************)
EXTENDS Jobs, TLAPS

Active(c) == client[c].pc # "idle"
Busy(w) == worker[w].pc # "idle"
Places(p) == 1 .. Len(queue[p])

\* A submission is in one place at a time: with the client that makes it, in
\* one executor's queue, or with one worker.
OnePlace ==
    /\ \A c, d \in Clients : Active(c) /\ Active(d) /\ client[c].id = client[d].id => c = d
    /\ \A p, q \in Servers : \A m \in Places(p), n \in Places(q) :
         queue[p][m] = queue[q][n] => p = q /\ m = n
    /\ \A w, v \in Workers : Busy(w) /\ Busy(v) /\ worker[w].id = worker[v].id => w = v
    /\ \A c \in Clients, p \in Servers : \A n \in Places(p) : Active(c) => queue[p][n] # client[c].id
    /\ \A c \in Clients, w \in Workers : Active(c) /\ Busy(w) => worker[w].id # client[c].id
    /\ \A w \in Workers, p \in Servers : \A n \in Places(p) : Busy(w) => queue[p][n] # worker[w].id

\* What the place of a submission says about its row and its request.
ClientKnows == \A c \in Clients : Active(c) =>
    /\ client[c].id \in JobIds /\ client[c].id <= used /\ client[c].key \in Keys
    /\ asked[client[c].id] = 0
    /\ (client[c].pc = "insert") = (job[client[c].id] = NoRow)

QueueKnows == \A p \in Servers : \A n \in Places(p) :
    job[queue[p][n]] # NoRow /\ asked[queue[p][n]] = 0

WorkerKnows == \A w \in Workers : Busy(w) =>
    /\ worker[w].id \in JobIds /\ job[worker[w].id] # NoRow
    /\ asked[worker[w].id] = IF worker[w].pc \in {"finish", "completed", "fail", "failed"} THEN 1 ELSE 0

FoundKnows == \A p \in Servers : \A i \in found[p] : job[i] # NoRow

\* Rows are numbered by submissions and have different keys; only a row is put
\* to the gate, once at most, and a completed one was.
RowsKnow ==
    /\ \A i \in JobIds : job[i] # NoRow => i <= used
    /\ \A i, j \in JobIds : job[i] # NoRow /\ job[j] # NoRow /\ job[i].key = job[j].key => i = j
    /\ \A i \in JobIds : /\ asked[i] \in 0 .. 1
                         /\ asked[i] = 1 => job[i] # NoRow
                         /\ job[i].status = "completed" => asked[i] = 1

JobsInv == JobsTypeOK /\ OnePlace /\ ClientKnows /\ QueueKnows /\ WorkerKnows /\ FoundKnows /\ RowsKnow

-----------------------------------------------------------------------------
\* No row is a job: its status is none of a job's.
LEMMA RowIsJob ==
    ASSUME JobsTypeOK, NEW i \in JobIds, job[i] # NoRow
    PROVE  /\ job[i] \in JobRow
           /\ job[i].key \in Keys /\ job[i].status \in Live \cup Terminal
  BY DEF JobsTypeOK, JobRow

\* Initially nothing is submitted.
LEMMA InitJobs == JobsInit => JobsInv
  <1> SUFFICES ASSUME JobsInit PROVE JobsInv
    OBVIOUS
  <1>1. JobsTypeOK
    BY JobsAssumption DEF JobsInit, JobsTypeOK, FreeClient, Client, Resting, Worker, JobIds
  <1>2. (\A c \in Clients : ~Active(c)) /\ (\A w \in Workers : ~Busy(w)) /\ \A p \in Servers : Places(p) = {}
    BY DEF JobsInit, Active, Busy, Places, FreeClient, Resting
  <1>3. \A i \in JobIds : job[i] = NoRow /\ asked[i] = 0 /\ job[i].status # "completed"
    BY DEF JobsInit, NoRow
  <1>4. FoundKnows
    BY DEF JobsInit, FoundKnows
  <1> QED
    BY <1>1, <1>2, <1>3, <1>4 DEF JobsInv, OnePlace, ClientKnows, QueueKnows, WorkerKnows, RowsKnow

\* A key that no row has is looked up: the client gets a number of its own
\* (submit, before its insert).
LEMMA SubmitGetKeeps == ASSUME JobsInv, NEW c \in Clients, NEW k \in Keys, SubmitGet(c, k) PROVE JobsInv'
  <1> USE DEF SubmitGet
  <1>1. used \in Nat /\ used + 1 \in JobIds /\ used' = used + 1
    BY JobsAssumption DEF JobsInv, JobsTypeOK, JobIds
  <1>2. JobsTypeOK'
    BY <1>1, JobsAssumption DEF JobsInv, JobsTypeOK, Client, JobIds
  <1>3. /\ client'[c] = [pc |-> "insert", id |-> used + 1, key |-> k]
        /\ \A d \in Clients \ {c} : client'[d] = client[d]
    BY DEF JobsInv, JobsTypeOK
  <1>4. job[used + 1] = NoRow /\ asked[used + 1] = 0
    BY <1>1 DEF JobsInv, RowsKnow
  <1>5. OnePlace'
    <2>1. \A d \in Clients : Active(d) => client[d].id # used + 1
      BY <1>1 DEF JobsInv, ClientKnows, JobIds
    <2>2. \A p \in Servers : \A n \in Places(p) : queue[p][n] # used + 1
      BY <1>4 DEF JobsInv, QueueKnows
    <2>3. \A w \in Workers : Busy(w) => worker[w].id # used + 1
      BY <1>4 DEF JobsInv, WorkerKnows
    <2> QED
      BY <1>3, <2>1, <2>2, <2>3 DEF JobsInv, OnePlace, Active, Busy, Places
  <1>6. ClientKnows'
    BY <1>1, <1>3, <1>4 DEF JobsInv, ClientKnows, Active, JobIds
  <1>7. QueueKnows' /\ WorkerKnows' /\ FoundKnows'
    BY DEF JobsInv, QueueKnows, WorkerKnows, FoundKnows, Busy, Places
  <1>8. RowsKnow'
    BY <1>1 DEF JobsInv, RowsKnow, JobIds
  <1> QED
    BY <1>2, <1>5, <1>6, <1>7, <1>8 DEF JobsInv

\* What is given up or cancelled leaves the rest in place.
LEMMA FewerKeeps ==
    ASSUME JobsInv, JobsTypeOK', FoundKnows', UNCHANGED <<job, used, asked>>,
           \A c \in Clients : client'[c] = client[c] \/ ~Active(c)',
           \A w \in Workers : worker'[w] = worker[w] \/ ~Busy(w)',
           \A p \in Servers : queue'[p] = queue[p] \/ queue'[p] = <<>>
    PROVE  JobsInv'
  <1>1. \A c \in Clients : Active(c)' => Active(c) /\ client'[c] = client[c]
    BY DEF Active
  <1>2. \A w \in Workers : Busy(w)' => Busy(w) /\ worker'[w] = worker[w]
    BY DEF Busy
  <1>3. \A p \in Servers : \A n \in Places(p)' : n \in Places(p) /\ queue'[p][n] = queue[p][n]
    BY DEF Places
  <1>4. OnePlace'
    BY <1>1, <1>2, <1>3 DEF JobsInv, OnePlace
  <1>5. ClientKnows'
    BY <1>1 DEF JobsInv, ClientKnows
  <1>6. QueueKnows'
    BY <1>3 DEF JobsInv, QueueKnows
  <1>7. WorkerKnows'
    BY <1>2 DEF JobsInv, WorkerKnows
  <1>8. RowsKnow'
    BY DEF JobsInv, RowsKnow
  <1> QED
    BY <1>4, <1>5, <1>6, <1>7, <1>8 DEF JobsInv

\* The unique constraint admits one row per key; the loser of the race returns
\* with the winner's job.
LEMMA SubmitInsertKeeps == ASSUME JobsInv, NEW c \in Clients, SubmitInsert(c) PROVE JobsInv'
  <1> DEFINE i == client[c].id
             k == client[c].key
  <1>1. i \in JobIds /\ i <= used /\ k \in Keys /\ asked[i] = 0 /\ job[i] = NoRow /\ Active(c)
    BY DEF SubmitInsert, JobsInv, ClientKnows, Active
  <1> HIDE DEF i, k
  <1>2. CASE WithKey(k) # {}
    <2>1. client' = [client EXCEPT ![c] = FreeClient] /\ UNCHANGED <<job, used, asked, worker, queue, found, proc>>
      BY <1>2 DEF k, SubmitInsert
    <2>2. JobsTypeOK'
      BY <2>1, JobsAssumption DEF JobsInv, JobsTypeOK, Client, FreeClient
    <2>3. \A d \in Clients : client'[d] = client[d] \/ ~Active(d)'
      BY <2>1 DEF JobsInv, JobsTypeOK, Active, FreeClient
    <2> QED
      BY <2>1, <2>2, <2>3, FewerKeeps DEF JobsInv, FoundKnows
  <1>3. CASE WithKey(k) = {}
    <2> DEFINE row == [key |-> k, status |-> "queued", error |-> ""]
    <2>1. job' = [job EXCEPT ![i] = row] /\ client' = [client EXCEPT ![c].pc = "enqueue"]
          /\ UNCHANGED <<used, queue, worker, proc, found, asked>>
      BY <1>3 DEF i, k, SubmitInsert
    <2>2. row \in JobRow /\ row # NoRow
      BY <1>1 DEF JobRow, Live, NoRow
    <2> HIDE DEF row
    <2>3. job'[i] = row /\ \A j \in JobIds \ {i} : job'[j] = job[j]
      BY <2>1, <1>1 DEF JobsInv, JobsTypeOK
    <2>4. /\ client'[c] = [client[c] EXCEPT !.pc = "enqueue"]
          /\ \A d \in Clients \ {c} : client'[d] = client[d]
      BY <2>1 DEF JobsInv, JobsTypeOK
    <2>c. client[c] \in Client
      BY DEF JobsInv, JobsTypeOK
    <2>5. client'[c].pc = "enqueue" /\ client'[c].id = i /\ client'[c].key = k /\ client'[c] \in Client
      BY <2>c, <2>4 DEF Client, i, k
    <2>6. JobsTypeOK'
      <3>1. job' \in [JobIds -> JobRow \cup {NoRow}]
        BY <2>1, <2>2 DEF JobsInv, JobsTypeOK
      <3>2. client' \in [Clients -> Client]
        BY <2>1, <2>4, <2>5 DEF JobsInv, JobsTypeOK
      <3> QED
        BY <2>1, <3>1, <3>2 DEF JobsInv, JobsTypeOK
    <2>7. OnePlace'
      BY <2>1, <2>4, <2>5, <1>1 DEF JobsInv, OnePlace, Active, Busy, Places
    <2>8. ClientKnows'
      <3>1. \A d \in Clients \ {c} : Active(d) => client[d].id # i
        BY <1>1 DEF JobsInv, OnePlace, i
      <3> QED
        BY <2>1, <2>2, <2>3, <2>4, <2>5, <1>1, <3>1 DEF JobsInv, ClientKnows, Active
    <2>9. QueueKnows' /\ WorkerKnows' /\ FoundKnows'
      <3>1. QueueKnows'
        <4>1. \A p \in Servers : \A n \in Places(p) : queue[p][n] \in JobIds
          BY DEF JobsInv, JobsTypeOK, Places
        <4> QED
          BY <2>1, <2>2, <2>3, <4>1 DEF JobsInv, QueueKnows, Places
      <3>2. WorkerKnows'
        BY <2>1, <2>2, <2>3 DEF JobsInv, WorkerKnows, Busy
      <3>3. FoundKnows'
        BY <2>1, <2>2, <2>3 DEF JobsInv, FoundKnows, JobsTypeOK
      <3> QED
        BY <3>1, <3>2, <3>3
    <2>10. RowsKnow'
      <3>1. row.key = k /\ row.status # "completed"
        BY DEF row
      <3>2. \A j \in JobIds : job[j] # NoRow => job[j].key # k
        BY <1>3 DEF WithKey
      <3> QED
        BY <2>1, <2>2, <2>3, <3>1, <3>2, <1>1 DEF JobsInv, RowsKnow
    <2> QED
      BY <2>6, <2>7, <2>8, <2>9, <2>10 DEF JobsInv
  <1> QED
    BY <1>2, <1>3

\* executor.submit moves the job to the queue, or loses it to a shutdown.
LEMMA EnqueueKeeps == ASSUME JobsInv, NEW c \in Clients, Enqueue(c) PROVE JobsInv'
  <1> DEFINE i == client[c].id
             h == ServerOf[c]
  <1>0. i \in JobIds /\ asked[i] = 0 /\ job[i] # NoRow /\ Active(c) /\ h \in Servers
    BY JobsAssumption DEF Enqueue, JobsInv, ClientKnows, Active
  <1>p. queue' = queue \/ queue' = [queue EXCEPT ![h] = Append(@, i)]
    BY DEF Enqueue
  <1>d. /\ \A d \in Clients \ {c} : Active(d) => client[d].id # i
        /\ \A p \in Servers : \A n \in Places(p) : queue[p][n] # i
        /\ \A w \in Workers : Busy(w) => worker[w].id # i
    BY <1>0 DEF JobsInv, OnePlace
  <1> HIDE DEF i, h
  <1>1. client' = [client EXCEPT ![c] = FreeClient] /\ UNCHANGED <<job, used, worker, proc, found, asked>>
    BY DEF Enqueue
  <1>2. client'[c] = FreeClient /\ ~Active(c)' /\ \A d \in Clients \ {c} : client'[d] = client[d]
    BY <1>1 DEF JobsInv, JobsTypeOK, Active, FreeClient
  <1>3. client' \in [Clients -> Client]
    BY <1>1, JobsAssumption DEF JobsInv, JobsTypeOK, Client, FreeClient
  <1>4. CASE queue' = queue
    <2>1. JobsTypeOK'
      BY <1>1, <1>3, <1>4 DEF JobsInv, JobsTypeOK
    <2> QED
      BY <1>1, <1>2, <1>4, <2>1, FewerKeeps DEF JobsInv, FoundKnows
  <1>5. CASE queue' = [queue EXCEPT ![h] = Append(@, i)]
    <2>1. queue'[h] = Append(queue[h], i) /\ \A p \in Servers \ {h} : queue'[p] = queue[p]
      BY <1>0, <1>5 DEF JobsInv, JobsTypeOK
    <2>2. queue[h] \in Seq(JobIds)
      BY <1>0 DEF JobsInv, JobsTypeOK
    <2>3. queue'[h] \in Seq(JobIds) /\ Places(h)' = Places(h) \cup {Len(queue[h]) + 1}
          /\ queue'[h][Len(queue[h]) + 1] = i /\ \A n \in Places(h) : queue'[h][n] = queue[h][n]
      BY <1>0, <2>1, <2>2 DEF Places
    <2>4. \A p \in Servers \ {h} : Places(p)' = Places(p)
      BY <2>1 DEF Places
    <2>5. JobsTypeOK'
      <3>1. queue' \in [Servers -> Seq(JobIds)]
        BY <1>5, <2>3, <1>0, <2>1 DEF JobsInv, JobsTypeOK
      <3> QED
        BY <1>1, <1>3, <3>1 DEF JobsInv, JobsTypeOK
    <2>n. \A p \in Servers : \A n \in Places(p)' :
            (n \in Places(p) /\ queue'[p][n] = queue[p][n]) \/ (p = h /\ n = Len(queue[h]) + 1 /\ queue'[p][n] = i)
      BY <2>1, <2>3, <2>4
    <2>6. OnePlace'
      <3>3. \A p, q \in Servers : \A m \in Places(p)', n \in Places(q)' :
              queue'[p][m] = queue'[q][n] => p = q /\ m = n
        BY <2>n, <1>d DEF JobsInv, OnePlace
      <3>4. \A d \in Clients, p \in Servers : \A n \in Places(p)' : Active(d)' => queue'[p][n] # client'[d].id
        <4>1. \A d \in Clients : Active(d)' => d # c /\ Active(d) /\ client'[d].id = client[d].id
          BY <1>2 DEF Active
        <4> QED
          BY <2>n, <4>1, <1>d DEF JobsInv, OnePlace
      <3>5. \A w \in Workers, p \in Servers : \A n \in Places(p)' : Busy(w)' => queue'[p][n] # worker'[w].id
        BY <2>n, <1>d, <1>1 DEF JobsInv, OnePlace, Busy
      <3>6. /\ \A d, e \in Clients : Active(d)' /\ Active(e)' /\ client'[d].id = client'[e].id => d = e
            /\ \A w, v \in Workers : Busy(w)' /\ Busy(v)' /\ worker'[w].id = worker'[v].id => w = v
            /\ \A d \in Clients, w \in Workers : Active(d)' /\ Busy(w)' => worker'[w].id # client'[d].id
        BY <1>1, <1>2 DEF JobsInv, OnePlace, Active, Busy
      <3> QED
        BY <3>3, <3>4, <3>5, <3>6 DEF OnePlace
    <2>7. ClientKnows'
      BY <1>1, <1>2 DEF JobsInv, ClientKnows, Active
    <2>8. QueueKnows'
      BY <1>0, <1>1, <2>n DEF JobsInv, QueueKnows
    <2>9. WorkerKnows' /\ FoundKnows' /\ RowsKnow'
      BY <1>1 DEF JobsInv, WorkerKnows, FoundKnows, RowsKnow, Busy
    <2> QED
      BY <2>5, <2>6, <2>7, <2>8, <2>9 DEF JobsInv
  <1> QED
    BY <1>4, <1>5, <1>p

\* A thread of the executor takes the first job of its queue.
LEMMA TakeKeeps == ASSUME JobsInv, NEW w \in Workers, Take(w) PROVE JobsInv'
  <1> DEFINE h == ServerOf[w]
             i == Head(queue[h])
  <1>0. h \in Servers /\ queue[h] \in Seq(JobIds) /\ queue[h] # <<>>
    BY JobsAssumption DEF Take, JobsInv, JobsTypeOK
  <1>1. i \in JobIds /\ 1 \in Places(h) /\ i = queue[h][1] /\ Tail(queue[h]) \in Seq(JobIds)
    BY <1>0 DEF Places
  <1>2. /\ worker' = [worker EXCEPT ![w] = [pc |-> "mark", id |-> i]]
        /\ queue' = [queue EXCEPT ![h] = Tail(@)]
        /\ UNCHANGED <<job, used, client, proc, found, asked>>
    BY DEF Take
  <1>3. job[i] # NoRow /\ asked[i] = 0
    BY <1>0, <1>1 DEF JobsInv, QueueKnows
  <1>4. queue'[h] = Tail(queue[h]) /\ \A p \in Servers \ {h} : queue'[p] = queue[p]
    BY <1>0, <1>2 DEF JobsInv, JobsTypeOK
  <1>5. \A n \in Places(h)' : n + 1 \in Places(h) /\ n + 1 # 1 /\ queue'[h][n] = queue[h][n + 1] /\ n \in Int
    BY <1>0, <1>4 DEF Places
  <1>6. \A p \in Servers \ {h} : Places(p)' = Places(p)
    BY <1>4 DEF Places
  <1>d. /\ \A c \in Clients : Active(c) => client[c].id # i
        /\ \A v \in Workers : Busy(v) => worker[v].id # i
        /\ \A p \in Servers : \A n \in Places(p)' : queue'[p][n] # i
    <2>1. \A n \in Places(h)' : queue'[h][n] # i
      BY <1>0, <1>1, <1>5 DEF JobsInv, OnePlace
    <2>2. \A p \in Servers \ {h} : \A n \in Places(p)' : queue'[p][n] # i
      BY <1>0, <1>1, <1>4, <1>6 DEF JobsInv, OnePlace
    <2> QED
      BY <1>0, <1>1, <2>1, <2>2 DEF JobsInv, OnePlace
  <1> HIDE DEF i, h
  <1>7. worker'[w] = [pc |-> "mark", id |-> i] /\ \A v \in Workers \ {w} : worker'[v] = worker[v]
    BY <1>2 DEF JobsInv, JobsTypeOK
  <1>8. JobsTypeOK'
    <2>1. worker' \in [Workers -> Worker]
      BY <1>1, <1>2, JobsAssumption DEF JobsInv, JobsTypeOK, Worker, JobIds
    <2>2. queue' \in [Servers -> Seq(JobIds)]
      BY <1>0, <1>1, <1>2 DEF JobsInv, JobsTypeOK
    <2> QED
      BY <1>2, <2>1, <2>2 DEF JobsInv, JobsTypeOK
  <1> DEFINE From(p, n) == IF p = h THEN n + 1 ELSE n
  <1>n. \A p \in Servers : \A n \in Places(p)' : From(p, n) \in Places(p) /\ queue'[p][n] = queue[p][From(p, n)]
    BY <1>4, <1>5, <1>6
  <1>i. \A p \in Servers : \A m, n \in Places(p)' : From(p, m) = From(p, n) => m = n
    BY <1>5
  <1> HIDE DEF From
  <1>9. OnePlace'
    <2>1. \A p, q \in Servers : \A m \in Places(p)', n \in Places(q)' :
            queue'[p][m] = queue'[q][n] => p = q /\ m = n
      <3> SUFFICES ASSUME NEW p \in Servers, NEW q \in Servers, NEW m \in Places(p)', NEW n \in Places(q)',
                          queue'[p][m] = queue'[q][n]
                   PROVE  p = q /\ m = n
        OBVIOUS
      <3>1. From(p, m) \in Places(p) /\ From(q, n) \in Places(q) /\ queue[p][From(p, m)] = queue[q][From(q, n)]
        BY <1>n
      <3>2. p = q /\ From(p, m) = From(q, n)
        BY <3>1 DEF JobsInv, OnePlace
      <3> QED
        BY <3>2, <1>i
    <2>2. \A c \in Clients, p \in Servers : \A n \in Places(p)' : Active(c)' => queue'[p][n] # client'[c].id
      <3> SUFFICES ASSUME NEW c \in Clients, NEW p \in Servers, NEW n \in Places(p)', Active(c)'
                   PROVE  queue'[p][n] # client'[c].id
        OBVIOUS
      <3>1. Active(c) /\ client'[c] = client[c]
        BY <1>2 DEF Active
      <3> QED
        BY <1>n, <3>1 DEF JobsInv, OnePlace
    <2>3. \A v \in Workers, p \in Servers : \A n \in Places(p)' : Busy(v)' => queue'[p][n] # worker'[v].id
      BY <1>n, <1>7, <1>d DEF JobsInv, OnePlace, Busy
    <2>4. /\ \A c, d \in Clients : Active(c)' /\ Active(d)' /\ client'[c].id = client'[d].id => c = d
          /\ \A v, u \in Workers : Busy(v)' /\ Busy(u)' /\ worker'[v].id = worker'[u].id => v = u
          /\ \A c \in Clients, v \in Workers : Active(c)' /\ Busy(v)' => worker'[v].id # client'[c].id
      BY <1>2, <1>7, <1>d DEF JobsInv, OnePlace, Active, Busy
    <2> QED
      BY <2>1, <2>2, <2>3, <2>4 DEF OnePlace
  <1>10. ClientKnows' /\ FoundKnows' /\ RowsKnow'
    BY <1>2 DEF JobsInv, ClientKnows, FoundKnows, RowsKnow, Active
  <1>11. QueueKnows'
    <2> SUFFICES ASSUME NEW p \in Servers, NEW n \in Places(p)'
                 PROVE  job[queue'[p][n]] # NoRow /\ asked[queue'[p][n]] = 0
      BY <1>2 DEF QueueKnows
    <2> QED
      BY <1>n DEF JobsInv, QueueKnows
  <1>12. WorkerKnows'
    BY <1>1, <1>2, <1>3, <1>7 DEF JobsInv, WorkerKnows, Busy
  <1> QED
    BY <1>8, <1>9, <1>10, <1>11, <1>12 DEF JobsInv

\* A worker that goes on with its job, or is done with it, shares it with nobody.
LEMMA WorkerOnePlace ==
    ASSUME JobsInv, UNCHANGED <<client, queue>>,
           \A v \in Workers : Busy(v)' => Busy(v) /\ worker'[v].id = worker[v].id
    PROVE  OnePlace'
  BY DEF JobsInv, OnePlace, Active, Places

\* The job of a busy worker is in nobody else's hands.
LEMMA WorkerAlone ==
    ASSUME JobsInv, NEW w \in Workers, Busy(w)
    PROVE  /\ worker[w].id \in JobIds /\ job[worker[w].id] # NoRow
           /\ \A c \in Clients : Active(c) => client[c].id # worker[w].id
           /\ \A v \in Workers \ {w} : Busy(v) => worker[v].id # worker[w].id
           /\ \A p \in Servers : \A n \in Places(p) : queue[p][n] # worker[w].id
  BY DEF JobsInv, OnePlace, WorkerKnows

\* Another place for the worker.
LEMMA GotoKeeps ==
    ASSUME JobsInv, NEW w \in Workers, Busy(w), NEW place, Goto(w, place),
           place \in {"mark", "running", "run", "finish", "completed", "fail", "failed"}
    PROVE  /\ worker' \in [Workers -> Worker]
           /\ worker'[w].pc = place /\ worker'[w].id = worker[w].id
           /\ \A v \in Workers \ {w} : worker'[v] = worker[v]
           /\ \A v \in Workers : Busy(v)' => Busy(v) /\ worker'[v].id = worker[v].id
  <1>1. worker[w] \in Worker /\ worker \in [Workers -> Worker]
    BY DEF JobsInv, JobsTypeOK
  <1>2. worker'[w] = [worker[w] EXCEPT !.pc = place] /\ \A v \in Workers \ {w} : worker'[v] = worker[v]
    BY <1>1 DEF Goto
  <1>3. worker'[w] \in Worker /\ worker'[w].pc = place /\ worker'[w].id = worker[w].id
    BY <1>1, <1>2 DEF Worker
  <1>4. worker' \in [Workers -> Worker]
    BY <1>1, <1>3 DEF Goto
  <1> QED
    BY <1>2, <1>3, <1>4 DEF Busy

\* The reads change no row.
LEMMA ReadKeeps == ASSUME JobsInv, NEW w \in Workers, ReadJob(w) PROVE JobsInv'
  <1>1. Busy(w) /\ UNCHANGED <<job, used, client, queue, proc, found, asked>>
    BY DEF ReadJob, Busy
  <1>2. PICK place \in {"running", "completed", "failed"} :
          /\ Goto(w, place)
          /\ (place = "running") = (worker[w].pc \notin {"finish", "completed", "fail", "failed"})
    BY DEF ReadJob
  <1>3. /\ worker' \in [Workers -> Worker]
        /\ worker'[w].pc = place /\ worker'[w].id = worker[w].id
        /\ \A v \in Workers \ {w} : worker'[v] = worker[v]
        /\ \A v \in Workers : Busy(v)' => Busy(v) /\ worker'[v].id = worker[v].id
    BY <1>1, <1>2, GotoKeeps
  <1>4. JobsTypeOK'
    BY <1>1, <1>3 DEF JobsInv, JobsTypeOK
  <1>5. OnePlace'
    BY <1>1, <1>3, WorkerOnePlace
  <1>6. WorkerKnows'
    BY <1>1, <1>2, <1>3 DEF JobsInv, WorkerKnows, Busy
  <1>7. ClientKnows' /\ QueueKnows' /\ FoundKnows' /\ RowsKnow'
    BY <1>1 DEF JobsInv, ClientKnows, QueueKnows, FoundKnows, RowsKnow, Active, Places
  <1> QED
    BY <1>4, <1>5, <1>6, <1>7 DEF JobsInv

\* The request goes through the gate, for the first time: nobody else has the job.
LEMMA ExecuteKeeps ==
    ASSUME JobsInv, NEW w \in Workers, Execute(w) \/ ExecuteRaises(w) PROVE JobsInv'
  <1> DEFINE i == worker[w].id
  <1>p. PICK place \in {"finish", "fail"} : Goto(w, place)
    BY DEF Execute, ExecuteRaises
  <1>1. /\ Busy(w) /\ UNCHANGED <<job, used, client, queue, proc, found>>
        /\ asked' = [asked EXCEPT ![i] = @ + 1]
    BY DEF Execute, ExecuteRaises, Busy
  <1>2. i \in JobIds /\ job[i] # NoRow /\ asked[i] = 0
    BY DEF Execute, ExecuteRaises, JobsInv, WorkerKnows, Busy
  <1>3. asked'[i] = 1 /\ \A j \in JobIds \ {i} : asked'[j] = asked[j]
    BY <1>1, <1>2 DEF JobsInv, JobsTypeOK
  <1>a. /\ \A c \in Clients : Active(c) => client[c].id # i
        /\ \A v \in Workers \ {w} : Busy(v) => worker[v].id # i
        /\ \A p \in Servers : \A n \in Places(p) : queue[p][n] # i
    BY <1>1, WorkerAlone
  <1>4. /\ worker' \in [Workers -> Worker]
        /\ worker'[w].pc = place /\ worker'[w].id = i
        /\ \A v \in Workers \ {w} : worker'[v] = worker[v]
        /\ \A v \in Workers : Busy(v)' => Busy(v) /\ worker'[v].id = worker[v].id
    BY <1>1, <1>p, GotoKeeps
  <1> HIDE DEF i
  <1>5. JobsTypeOK'
    <2>1. asked' \in [JobIds -> 0 .. 2]
      BY <1>1, <1>2, <1>3 DEF JobsInv, JobsTypeOK
    <2> QED
      BY <1>1, <1>4, <2>1 DEF JobsInv, JobsTypeOK
  <1>6. OnePlace'
    BY <1>1, <1>4, WorkerOnePlace
  <1>7. WorkerKnows'
    BY <1>1, <1>2, <1>3, <1>4, <1>a DEF JobsInv, WorkerKnows, Busy
  <1>8. ClientKnows'
    BY <1>1, <1>3, <1>a DEF JobsInv, ClientKnows, Active
  <1>9. QueueKnows'
    <2>1. \A p \in Servers : \A n \in Places(p) : queue[p][n] \in JobIds
      BY DEF JobsInv, JobsTypeOK, Places
    <2> QED
      BY <1>1, <1>3, <1>a, <2>1 DEF JobsInv, QueueKnows, Places
  <1>10. FoundKnows' /\ RowsKnow'
    BY <1>1, <1>2, <1>3 DEF JobsInv, FoundKnows, RowsKnow
  <1> QED
    BY <1>5, <1>6, <1>7, <1>8, <1>9, <1>10 DEF JobsInv

\* A row that is written stays a row with its key, and nobody's place changes:
\* what is left to look at is the status and the worker.
LEMMA WriteKeeps ==
    ASSUME JobsInv, JobsTypeOK', WorkerKnows', FoundKnows', UNCHANGED <<used, client, queue, asked>>,
           \A v \in Workers : Busy(v)' => Busy(v) /\ worker'[v].id = worker[v].id,
           \A i \in JobIds : job[i] = NoRow => job'[i] = NoRow,
           \A i \in JobIds : job[i] # NoRow => job'[i] # NoRow /\ job'[i].key = job[i].key,
           \A i \in JobIds : job'[i].status = "completed" => asked[i] = 1
    PROVE  JobsInv'
  <1>1. OnePlace'
    BY WorkerOnePlace
  <1>2. ClientKnows'
    BY DEF JobsInv, ClientKnows, Active
  <1>3. QueueKnows'
    <2>1. \A p \in Servers : \A n \in Places(p) : queue[p][n] \in JobIds
      BY DEF JobsInv, JobsTypeOK, Places
    <2> QED
      BY <2>1 DEF JobsInv, QueueKnows, Places
  <1>4. RowsKnow'
    BY DEF JobsInv, RowsKnow
  <1> QED
    BY <1>1, <1>2, <1>3, <1>4 DEF JobsInv

\* What changes when one row is written.
LEMMA OneRow ==
    ASSUME JobsInv, NEW i \in JobIds, job[i] # NoRow, NEW row \in JobRow, row.key = job[i].key,
           job' = [job EXCEPT ![i] = row]
    PROVE  /\ job' \in [JobIds -> JobRow \cup {NoRow}]
           /\ job'[i] = row /\ row # NoRow
           /\ \A j \in JobIds \ {i} : job'[j] = job[j]
           /\ \A j \in JobIds : job[j] = NoRow => job'[j] = NoRow
           /\ \A j \in JobIds : job[j] # NoRow => job'[j] # NoRow /\ job'[j].key = job[j].key
  <1>1. row # NoRow
    <2>1. row.status \in Live \cup Terminal
      BY DEF JobRow
    <2>2. NoRow.status \notin Live \cup Terminal
      BY DEF NoRow, Live, Terminal
    <2> QED
      BY <2>1, <2>2
  <1>2. job' \in [JobIds -> JobRow \cup {NoRow}] /\ job'[i] = row /\ \A j \in JobIds \ {i} : job'[j] = job[j]
    BY DEF JobsInv, JobsTypeOK
  <1> QED
    BY <1>1, <1>2

\* The row is marked RUNNING before anything is executed.
LEMMA MarkRunningKeeps == ASSUME JobsInv, NEW w \in Workers, MarkRunning(w) PROVE JobsInv'
  <1> DEFINE i == worker[w].id
             row == [job[i] EXCEPT !.status = "running"]
  <1>1. /\ Busy(w) /\ Goto(w, "run") /\ UNCHANGED <<used, client, queue, proc, found, asked>>
        /\ job' = [job EXCEPT ![i] = row]
    BY DEF MarkRunning, Busy
  <1>2. i \in JobIds /\ job[i] # NoRow /\ asked[i] = 0
    BY DEF MarkRunning, JobsInv, WorkerKnows, Busy
  <1>3. job[i] \in JobRow
    BY <1>2, RowIsJob DEF JobsInv
  <1>4. row \in JobRow /\ row.key = job[i].key /\ row.status = "running"
    BY <1>3 DEF JobRow, Live
  <1>5. /\ worker' \in [Workers -> Worker]
        /\ worker'[w].pc = "run" /\ worker'[w].id = i
        /\ \A v \in Workers \ {w} : worker'[v] = worker[v]
        /\ \A v \in Workers : Busy(v)' => Busy(v) /\ worker'[v].id = worker[v].id
    BY <1>1, GotoKeeps
  <1> HIDE DEF i, row
  <1>6. /\ job' \in [JobIds -> JobRow \cup {NoRow}]
        /\ job'[i] = row /\ row # NoRow
        /\ \A j \in JobIds \ {i} : job'[j] = job[j]
        /\ \A j \in JobIds : job[j] = NoRow => job'[j] = NoRow
        /\ \A j \in JobIds : job[j] # NoRow => job'[j] # NoRow /\ job'[j].key = job[j].key
    BY <1>1, <1>2, <1>4, OneRow
  <1>7. JobsTypeOK'
    BY <1>1, <1>5, <1>6 DEF JobsInv, JobsTypeOK
  <1>8. WorkerKnows'
    BY <1>1, <1>2, <1>5, <1>6 DEF JobsInv, WorkerKnows, Busy
  <1>9. FoundKnows'
    BY <1>1, <1>6 DEF JobsInv, FoundKnows, JobsTypeOK
  <1>10. \A j \in JobIds : job'[j].status = "completed" => asked[j] = 1
    BY <1>4, <1>6 DEF JobsInv, RowsKnow
  <1> QED
    BY <1>1, <1>5, <1>6, <1>7, <1>8, <1>9, <1>10, WriteKeeps

\* The end of a job: completed is written only after its execution.
LEMMA FinishKeeps == ASSUME JobsInv, NEW w \in Workers, Finish(w) PROVE JobsInv'
  <1> DEFINE i == worker[w].id
             row == [job[i] EXCEPT !.status = worker[w].pc,
                                   !.error = IF worker[w].pc = "failed" THEN "raised" ELSE job[i].error]
  <1>1. /\ Busy(w) /\ worker[w].pc \in {"completed", "failed"}
        /\ worker' = [worker EXCEPT ![w] = Resting] /\ UNCHANGED <<used, client, queue, proc, found, asked>>
    BY DEF Finish, Busy
  <1>j. job' = [job EXCEPT ![i] = row]
    BY DEF Finish
  <1>2. i \in JobIds /\ job[i] # NoRow /\ (worker[w].pc = "completed" => asked[i] = 1)
    BY <1>1 DEF JobsInv, WorkerKnows
  <1>3. job[i] \in JobRow
    BY <1>2, RowIsJob DEF JobsInv
  <1>4. row \in JobRow /\ row.key = job[i].key /\ row.status = worker[w].pc
    BY <1>1, <1>3 DEF JobRow, Live, Terminal
  <1>5. /\ worker' \in [Workers -> Worker] /\ ~Busy(w)'
        /\ \A v \in Workers \ {w} : worker'[v] = worker[v]
    BY <1>1, JobsAssumption DEF JobsInv, JobsTypeOK, Resting, Worker, Busy
  <1>b. \A v \in Workers : Busy(v)' => Busy(v) /\ worker'[v] = worker[v]
    BY <1>5 DEF Busy
  <1> HIDE DEF i, row
  <1>6. /\ job' \in [JobIds -> JobRow \cup {NoRow}]
        /\ job'[i] = row /\ row # NoRow
        /\ \A j \in JobIds \ {i} : job'[j] = job[j]
        /\ \A j \in JobIds : job[j] = NoRow => job'[j] = NoRow
        /\ \A j \in JobIds : job[j] # NoRow => job'[j] # NoRow /\ job'[j].key = job[j].key
    BY <1>1, <1>j, <1>2, <1>4, OneRow
  <1>7. JobsTypeOK'
    BY <1>1, <1>5, <1>6 DEF JobsInv, JobsTypeOK
  <1>8. WorkerKnows'
    BY <1>1, <1>b, <1>6 DEF JobsInv, WorkerKnows
  <1>9. FoundKnows'
    BY <1>1, <1>6 DEF JobsInv, FoundKnows, JobsTypeOK
  <1>10. \A j \in JobIds : job'[j].status = "completed" => asked[j] = 1
    BY <1>2, <1>4, <1>6 DEF JobsInv, RowsKnow
  <1> QED
    BY <1>1, <1>b, <1>6, <1>7, <1>8, <1>9, <1>10, WriteKeeps

\* recover fails the rows it found, whoever works on them meanwhile.
LEMMA RecoverKeeps == ASSUME JobsInv, NEW p \in Servers, Recover(p) PROVE JobsInv'
  <1> DEFINE row(i) == [job[i] EXCEPT !.status = "failed", !.error = "interrupted"]
  <1>1. /\ job' = [i \in JobIds |-> IF i \in found[p] THEN row(i) ELSE job[i]]
        /\ found' = [found EXCEPT ![p] = {}] /\ proc' = [proc EXCEPT ![p] = "up"]
        /\ UNCHANGED <<used, client, queue, worker, asked>>
    BY DEF Recover
  <1>2. \A i \in JobIds : i \in found[p] => job[i] \in JobRow /\ job[i] # NoRow
    BY RowIsJob DEF JobsInv, FoundKnows
  <1>3. \A i \in JobIds : i \in found[p] => row(i) \in JobRow /\ row(i).key = job[i].key /\ row(i).status = "failed"
    BY <1>2 DEF JobRow, Terminal
  <1> HIDE DEF row
  <1>4. \A i \in JobIds : i \in found[p] => row(i) # NoRow
    BY <1>3 DEF NoRow
  <1>5. \A i \in JobIds : (i \in found[p] /\ job'[i] = row(i)) \/ (i \notin found[p] /\ job'[i] = job[i])
    BY <1>1
  <1>6. /\ \A j \in JobIds : job[j] = NoRow => job'[j] = NoRow
        /\ \A j \in JobIds : job[j] # NoRow => job'[j] # NoRow /\ job'[j].key = job[j].key
    BY <1>2, <1>3, <1>4, <1>5
  <1>7. JobsTypeOK'
    <2>1. job' \in [JobIds -> JobRow \cup {NoRow}]
      BY <1>1, <1>3 DEF JobsInv, JobsTypeOK
    <2> QED
      BY <1>1, <2>1 DEF JobsInv, JobsTypeOK
  <1>8. WorkerKnows'
    BY <1>1, <1>6 DEF JobsInv, WorkerKnows, Busy
  <1>9. FoundKnows'
    <2>1. \A q \in Servers : found'[q] \subseteq found[q] /\ found[q] \subseteq JobIds
      BY <1>1 DEF JobsInv, JobsTypeOK
    <2> QED
      BY <1>6, <2>1 DEF JobsInv, FoundKnows
  <1>10. \A j \in JobIds : job'[j].status = "completed" => asked[j] = 1
    BY <1>3, <1>5 DEF JobsInv, RowsKnow
  <1> QED
    BY <1>1, <1>6, <1>7, <1>8, <1>9, <1>10, WriteKeeps DEF Busy

\* A process that starts selects rows that are there.
LEMMA StartKeeps == ASSUME JobsInv, NEW p \in Servers, Start(p) PROVE JobsInv'
  <1>1. /\ found' = [found EXCEPT ![p] = {i \in JobIds : job[i].status \in Live}]
        /\ proc' = [proc EXCEPT ![p] = "recover"]
        /\ UNCHANGED <<job, used, client, queue, worker, asked>>
    BY DEF Start
  <1>2. JobsTypeOK'
    BY <1>1 DEF JobsInv, JobsTypeOK
  <1>3. \A i \in JobIds : job[i].status \in Live => job[i] # NoRow
    BY DEF NoRow, Live
  <1>4. FoundKnows'
    <2>1. found'[p] = {i \in JobIds : job[i].status \in Live} /\ \A q \in Servers \ {p} : found'[q] = found[q]
      BY <1>1 DEF JobsInv, JobsTypeOK
    <2> QED
      BY <1>1, <1>3, <2>1 DEF JobsInv, FoundKnows
  <1> QED
    BY <1>1, <1>2, <1>4, FewerKeeps

\* A process that stops takes its threads and its queue with it, no row.
LEMMA DownKeeps == ASSUME JobsInv, NEW p \in Servers, Down(p) PROVE JobsInv'
  <1>1. \A q \in Servers : found'[q] \subseteq found[q] /\ (queue'[q] = queue[q] \/ queue'[q] = <<>>)
    BY DEF Down, JobsInv, JobsTypeOK
  <1>2. client' \in [Clients -> Client] /\ \A c \in Clients : client'[c] = client[c] \/ ~Active(c)'
    BY JobsAssumption DEF Down, JobsInv, JobsTypeOK, Client, FreeClient, Active
  <1>3. worker' \in [Workers -> Worker] /\ \A w \in Workers : worker'[w] = worker[w] \/ ~Busy(w)'
    BY JobsAssumption DEF Down, JobsInv, JobsTypeOK, Worker, Resting, Busy
  <1>4. JobsTypeOK'
    <2>1. queue' \in [Servers -> Seq(JobIds)] /\ found' \in [Servers -> SUBSET JobIds]
      BY DEF Down, JobsInv, JobsTypeOK
    <2> QED
      BY <1>2, <1>3, <2>1 DEF Down, JobsInv, JobsTypeOK
  <1>5. FoundKnows'
    BY <1>1 DEF Down, JobsInv, FoundKnows
  <1> QED
    BY <1>1, <1>2, <1>3, <1>4, <1>5, FewerKeeps DEF Down

\* shutdown cancels what waits.
LEMMA ShutdownKeeps == ASSUME JobsInv, NEW p \in Servers, Shutdown(p) PROVE JobsInv'
  <1>1. \A q \in Servers : queue'[q] = queue[q] \/ queue'[q] = <<>>
    BY DEF Shutdown, JobsInv, JobsTypeOK
  <1>2. JobsTypeOK'
    <2>1. queue' \in [Servers -> Seq(JobIds)]
      BY DEF Shutdown, JobsInv, JobsTypeOK
    <2> QED
      BY <2>1 DEF Shutdown, JobsInv, JobsTypeOK
  <1> QED
    BY <1>1, <1>2, FewerKeeps DEF Shutdown, JobsInv, FoundKnows

\* Every step of clients, workers and processes keeps the invariant.
LEMMA StepJobs == JobsInv /\ [JobsNext]_jobsVars => JobsInv'
  <1> SUFFICES ASSUME JobsInv, [JobsNext]_jobsVars PROVE JobsInv'
    OBVIOUS
  <1>1. CASE UNCHANGED jobsVars
    <2>1. JobsTypeOK' /\ FoundKnows'
      BY <1>1 DEF jobsVars, JobsInv, JobsTypeOK, FoundKnows
    <2> QED
      BY <1>1, <2>1, FewerKeeps DEF jobsVars
  <1>2. ASSUME NEW c \in Clients, SubmitStep(c) \/ \E k \in Keys : SubmitGet(c, k) PROVE JobsInv'
    BY <1>2, SubmitGetKeeps, SubmitInsertKeeps, EnqueueKeeps DEF SubmitStep
  <1>3. ASSUME NEW w \in Workers, Take(w) \/ Run(w) PROVE JobsInv'
    BY <1>3, TakeKeeps, ReadKeeps, MarkRunningKeeps, ExecuteKeeps, FinishKeeps DEF Run
  <1>4. ASSUME NEW p \in Servers, Start(p) \/ Recover(p) \/ Exit(p) \/ Crash(p) \/ Shutdown(p) PROVE JobsInv'
    BY <1>4, StartKeeps, RecoverKeeps, DownKeeps, ShutdownKeeps DEF Exit, Crash
  <1> QED
    BY <1>1, <1>2, <1>3, <1>4 DEF JobsNext

\* JobService keeps its rows, its queues and its threads well typed, and every
\* submission in one place.
THEOREM JobsInvariant == JobsSpec => []JobsInv
  BY InitJobs, StepJobs, PTL DEF JobsSpec

\* However submissions, workers, stops and recoveries of any number of processes
\* interleave, a key is put to the execution gate at most once and a completed job
\* was answered there, whatever the answer (_run).
THEOREM OncePerKeyHolds == JobsSpec => []OncePerKey
  <1>1. JobsInv => OncePerKey
    BY DEF JobsInv, RowsKnow, OncePerKey
  <1> QED
    BY <1>1, JobsInvariant, PTL

-----------------------------------------------------------------------------
(* No job is forgotten *)

\* The job is with the client that hands it to the executor, in an executor's
\* queue, or with a worker.
Held(i) ==
    \/ \E c \in Clients : client[c].pc = "enqueue" /\ client[c].id = i
    \/ \E p \in Servers : \E n \in Places(p) : queue[p][n] = i
    \/ \E w \in Workers : Busy(w) /\ worker[w].id = i

\* A process is on its way through a restart that selects the row, or has
\* selected it.
Awaited(i) == \E p \in Servers :
    \/ proc[p] \in {"down", "stopping"}
    \/ proc[p] = "recover" /\ i \in found[p]

\* A job that is queued or running is in somebody's hands, or a recovery to come
\* will fail it.
NoJobForgotten == \A i \in JobIds : job[i].status \in Live => Held(i) \/ Awaited(i)

\* Threads submit only in a process that has recovered.
ClientsUp == \A c \in Clients : Active(c) => proc[ServerOf[c]] \in {"up", "stopping"}

RememberInv == ClientsUp /\ NoJobForgotten

\* The steps of clients up to the executor.
LEMMA SubmitRemembers ==
    ASSUME JobsInv, RememberInv, NEW c \in Clients, SubmitStep(c) \/ \E k \in Keys : SubmitGet(c, k)
    PROVE  RememberInv'
  <1>0. /\ proc' = proc /\ found' = found /\ worker' = worker
        /\ client \in [Clients -> Client] /\ queue \in [Servers -> Seq(JobIds)] /\ ServerOf[c] \in Servers
    BY JobsAssumption DEF SubmitStep, SubmitGet, SubmitInsert, Enqueue, JobsInv, JobsTypeOK
  <1>a. \A i \in JobIds : Awaited(i)' = Awaited(i)
    BY <1>0 DEF Awaited
  <1>b. \A d \in Clients \ {c} : client'[d] = client[d]
    BY <1>0 DEF SubmitStep, SubmitGet, SubmitInsert, Enqueue
  <1>c. \A w \in Workers : Busy(w)' = Busy(w)
    BY <1>0 DEF Busy
  <1>1. CASE \E k \in Keys : SubmitGet(c, k)
    <2>1. client[c].pc = "idle" /\ proc[ServerOf[c]] = "up" /\ job' = job /\ queue' = queue
      BY <1>1 DEF SubmitGet
    <2>2. ClientsUp'
      BY <1>0, <1>b, <2>1 DEF RememberInv, ClientsUp, Active
    <2>3. ASSUME NEW i \in JobIds, Held(i) PROVE Held(i)'
      BY <1>0, <1>b, <1>c, <2>1, <2>3 DEF Held, Places
    <2> QED
      BY <1>a, <2>1, <2>2, <2>3 DEF RememberInv, NoJobForgotten
  <1>2. CASE SubmitInsert(c)
    <2>1. client[c].pc = "insert" /\ queue' = queue /\ client[c].id \in JobIds
      BY <1>2 DEF SubmitInsert, JobsInv, ClientKnows, Active
    <2>2. proc[ServerOf[c]] \in {"up", "stopping"}
      BY <2>1 DEF RememberInv, ClientsUp, Active
    <2>3. ClientsUp'
      BY <1>0, <1>b, <2>2 DEF RememberInv, ClientsUp, Active
    <2>4. ASSUME NEW i \in JobIds, Held(i) PROVE Held(i)'
      BY <1>0, <1>b, <1>c, <2>1, <2>4 DEF Held, Places
    <2>5. ASSUME NEW i \in JobIds, job'[i].status \in Live PROVE Held(i)' \/ Awaited(i)'
      <3>1. CASE i = client[c].id /\ WithKey(client[c].key) = {}
        <4>1. client' = [client EXCEPT ![c].pc = "enqueue"]
          BY <1>2, <3>1 DEF SubmitInsert
        <4>2. client'[c].pc = "enqueue" /\ client'[c].id = i
          BY <1>0, <3>1, <4>1 DEF Client
        <4> QED
          BY <4>2 DEF Held
      <3>2. CASE ~(i = client[c].id /\ WithKey(client[c].key) = {})
        <4>1. job'[i] = job[i]
          BY <1>2, <2>1, <3>2 DEF SubmitInsert, JobsInv, JobsTypeOK
        <4> QED
          BY <1>a, <2>4, <2>5, <4>1 DEF RememberInv, NoJobForgotten
      <3> QED
        BY <3>1, <3>2
    <2> QED
      BY <2>3, <2>5 DEF RememberInv, NoJobForgotten
  <1>3. CASE Enqueue(c)
    <2>1. client[c].pc = "enqueue" /\ job' = job /\ client' = [client EXCEPT ![c] = FreeClient] /\ client[c].id \in JobIds
      BY <1>3 DEF Enqueue, JobsInv, ClientKnows, Active
    <2>2. ClientsUp'
      BY <1>0, <1>b, <2>1 DEF RememberInv, ClientsUp, Active, FreeClient
    <2>3. CASE proc[ServerOf[c]] = "up"
      <3> DEFINE h == ServerOf[c]
      <3>1. queue' = [queue EXCEPT ![h] = Append(queue[h], client[c].id)]
        BY <1>3, <2>3 DEF Enqueue
      <3>2. /\ \A p \in Servers \ {h} : queue'[p] = queue[p]
            /\ queue'[h] = Append(queue[h], client[c].id)
        BY <1>0, <3>1
      <3> HIDE DEF h
      <3>3. h \in Servers /\ queue[h] \in Seq(JobIds)
        BY <1>0 DEF h
      <3>4. /\ \A n \in 1 .. Len(queue[h]) : n \in 1 .. Len(queue'[h]) /\ queue'[h][n] = queue[h][n]
            /\ \E n \in 1 .. Len(queue'[h]) : queue'[h][n] = client[c].id
        <4>1. Len(queue'[h]) = Len(queue[h]) + 1 /\ queue'[h][Len(queue[h]) + 1] = client[c].id /\ Len(queue[h]) \in Nat
              /\ \A n \in 1 .. Len(queue[h]) : queue'[h][n] = queue[h][n]
          BY <2>1, <3>2, <3>3
        <4> QED
          BY <4>1
      <3>5. ASSUME NEW i \in JobIds, Held(i) PROVE Held(i)'
        <4>1. CASE \E d \in Clients : client[d].pc = "enqueue" /\ client[d].id = i
          BY <1>b, <3>3, <3>4, <4>1 DEF Held, Places
        <4>2. CASE \E p \in Servers : \E n \in Places(p) : queue[p][n] = i
          BY <3>2, <3>3, <3>4, <4>2 DEF Held, Places
        <4>3. CASE \E w \in Workers : Busy(w) /\ worker[w].id = i
          BY <1>0, <1>c, <4>3 DEF Held
        <4> QED
          BY <3>5, <4>1, <4>2, <4>3 DEF Held
      <3> QED
        BY <1>a, <2>1, <2>2, <3>5 DEF RememberInv, NoJobForgotten
    <2>4. CASE proc[ServerOf[c]] # "up"
      <3>1. proc[ServerOf[c]] = "stopping"
        BY <2>1, <2>4 DEF RememberInv, ClientsUp, Active
      <3>2. \A i \in JobIds : Awaited(i)'
        BY <1>0, <3>1 DEF Awaited
      <3> QED
        BY <2>2, <3>2 DEF RememberInv, NoJobForgotten
    <2> QED
      BY <2>3, <2>4
  <1> QED
    BY <1>1, <1>2, <1>3 DEF SubmitStep

\* A worker keeps its job until the row says how it ended.
LEMMA WorkerRemembers ==
    ASSUME JobsInv, RememberInv, NEW w \in Workers, Take(w) \/ Run(w)
    PROVE  RememberInv'
  <1>0. /\ proc' = proc /\ found' = found /\ client' = client
        /\ worker \in [Workers -> Worker] /\ queue \in [Servers -> Seq(JobIds)] /\ ServerOf[w] \in Servers
    BY JobsAssumption DEF Take, Run, ReadJob, MarkRunning, Execute, ExecuteRaises, Finish, JobsInv, JobsTypeOK
  <1>a. \A i \in JobIds : Awaited(i)' = Awaited(i)
    BY <1>0 DEF Awaited
  <1>b. \A v \in Workers \ {w} : worker'[v] = worker[v]
    BY <1>0 DEF Take, Run, ReadJob, MarkRunning, Execute, ExecuteRaises, Finish, Goto
  <1>c. ClientsUp'
    BY <1>0 DEF RememberInv, ClientsUp, Active
  <1>1. CASE Take(w)
    <2> DEFINE h == ServerOf[w]
    <2>1. /\ queue[h] # <<>> /\ job' = job /\ worker[w].pc = "idle"
          /\ queue' = [queue EXCEPT ![h] = Tail(queue[h])]
          /\ worker' = [worker EXCEPT ![w] = [pc |-> "mark", id |-> Head(queue[h])]]
      BY <1>1 DEF Take
    <2>2. /\ \A p \in Servers \ {h} : queue'[p] = queue[p]
          /\ queue'[h] = Tail(queue[h])
          /\ worker'[w].pc = "mark" /\ worker'[w].id = Head(queue[h])
      BY <1>0, <2>1
    <2> HIDE DEF h
    <2>3. h \in Servers /\ queue[h] \in Seq(JobIds)
      BY <1>0 DEF h
    <2>4. \A n \in 1 .. Len(queue[h]) : queue[h][n] = Head(queue[h]) \/ \E m \in 1 .. Len(queue'[h]) : queue'[h][m] = queue[h][n]
      <3>1. PICK q \in Seq(JobIds) : q = queue[h] /\ q # <<>> /\ queue'[h] = Tail(q)
        BY <2>1, <2>2, <2>3
      <3>2. Len(q) \in Nat /\ Len(q) > 0 /\ Len(Tail(q)) = Len(q) - 1 /\ q[1] = Head(q)
        BY <3>1
      <3>3. \A n \in 1 .. Len(q) : n = 1 \/ (n - 1 \in 1 .. Len(Tail(q)) /\ Tail(q)[n - 1] = q[n])
        BY <3>1, <3>2
      <3> QED
        BY <3>1, <3>2, <3>3
    <2>5. ASSUME NEW i \in JobIds, Held(i) PROVE Held(i)'
      <3>1. CASE \E d \in Clients : client[d].pc = "enqueue" /\ client[d].id = i
        BY <1>0, <3>1 DEF Held
      <3>2. CASE \E p \in Servers : \E n \in Places(p) : queue[p][n] = i
        <4>1. PICK p \in Servers : \E n \in Places(p) : queue[p][n] = i
          BY <3>2
        <4>2. CASE p # h
          BY <2>2, <4>1, <4>2 DEF Held, Places
        <4>3. CASE p = h
          BY <2>2, <2>3, <2>4, <4>1, <4>3 DEF Held, Places, Busy
        <4> QED
          BY <4>2, <4>3
      <3>3. CASE \E v \in Workers : Busy(v) /\ worker[v].id = i
        BY <1>b, <2>1, <3>3 DEF Held, Busy
      <3> QED
        BY <2>5, <3>1, <3>2, <3>3 DEF Held
    <2> QED
      BY <1>a, <1>c, <2>1, <2>5 DEF RememberInv, NoJobForgotten
  <1>2. CASE Run(w)
    <2>1. queue' = queue /\ Busy(w) /\ worker[w].id \in JobIds /\ job \in [JobIds -> JobRow \cup {NoRow}]
      BY <1>2 DEF Run, ReadJob, MarkRunning, Execute, ExecuteRaises, Finish, Busy, JobsInv, WorkerKnows, JobsTypeOK
    <2>2. \A i \in JobIds \ {worker[w].id} : job'[i] = job[i]
      BY <1>2, <2>1 DEF Run, ReadJob, MarkRunning, Execute, ExecuteRaises, Finish
    <2>3. ASSUME NEW i \in JobIds \ {worker[w].id}, Held(i) PROVE Held(i)'
      BY <1>0, <1>b, <2>1, <2>3 DEF Held, Places, Busy
    <2>4. ASSUME NEW i \in JobIds, i = worker[w].id, job'[i].status \in Live PROVE Held(i)'
      <3>1. CASE Finish(w)
        <4> DEFINE row == [job[i] EXCEPT !.status = worker[w].pc,
                                 !.error = IF worker[w].pc = "failed" THEN "raised" ELSE job[i].error]
        <4>1. job' = [job EXCEPT ![i] = row] /\ worker[w].pc \in {"completed", "failed"}
          BY <2>4, <3>1 DEF Finish
        <4>2. job[i] \in JobRow
          BY <2>1, <2>4, RowIsJob DEF JobsInv, WorkerKnows
        <4>3. row.status = worker[w].pc
          BY <4>2 DEF JobRow
        <4>4. job'[i] = row
          BY <2>1, <4>1
        <4> QED
          BY <2>4, <4>1, <4>3, <4>4 DEF Live
      <3>2. CASE ~Finish(w)
        <4>1. \E place \in {"running", "completed", "failed", "run", "finish", "fail"} : worker' = [worker EXCEPT ![w].pc = place]
          BY <1>2, <3>2 DEF Run, ReadJob, MarkRunning, Execute, ExecuteRaises, Goto
        <4>2. worker'[w].pc # "idle" /\ worker'[w].id = worker[w].id
          BY <1>0, <4>1 DEF Worker
        <4> QED
          BY <2>4, <4>2 DEF Held, Busy
      <3> QED
        BY <3>1, <3>2
    <2>5. ASSUME NEW i \in JobIds, job'[i].status \in Live PROVE Held(i)' \/ Awaited(i)'
      <3>1. CASE i = worker[w].id
        BY <2>4, <2>5, <3>1
      <3>2. CASE i # worker[w].id
        <4>1. job'[i] = job[i] /\ i \in JobIds \ {worker[w].id}
          BY <2>2, <3>2
        <4>2. Held(i) \/ Awaited(i)
          BY <2>5, <4>1 DEF RememberInv, NoJobForgotten
        <4> QED
          BY <1>a, <2>3, <4>1, <4>2
      <3> QED
        BY <3>1, <3>2
    <2> QED
      BY <1>c, <2>5 DEF RememberInv, NoJobForgotten
  <1> QED
    BY <1>1, <1>2

\* A process that stops leaves its jobs to its next start, which selects them.
LEMMA ProcessRemembers ==
    ASSUME JobsInv, RememberInv, NEW p \in Servers,
           Start(p) \/ Recover(p) \/ Exit(p) \/ Crash(p) \/ Shutdown(p)
    PROVE  RememberInv'
  <1>0. proc \in [Servers -> {"down", "recover", "up", "stopping"}] /\ found \in [Servers -> SUBSET JobIds]
    BY DEF JobsInv, JobsTypeOK
  <1>1. CASE Down(p)
    <2>1. proc'[p] = "down" /\ \A q \in Servers \ {p} : proc'[q] = proc[q]
      BY <1>0, <1>1 DEF Down
    <2>2. \A i \in JobIds : Awaited(i)'
      BY <2>1 DEF Awaited
    <2>3. ClientsUp'
      <3> SUFFICES ASSUME NEW c \in Clients, Active(c)' PROVE proc'[ServerOf[c]] \in {"up", "stopping"}
        BY DEF ClientsUp
      <3>1. ServerOf[c] # p /\ client'[c] = client[c] /\ ServerOf[c] \in Servers
        BY <1>1, JobsAssumption DEF Down, Active, FreeClient
      <3> QED
        BY <2>1, <3>1 DEF RememberInv, ClientsUp, Active
    <2> QED
      BY <2>2, <2>3 DEF RememberInv, NoJobForgotten
  <1>2. CASE Shutdown(p)
    <2>1. proc'[p] = "stopping" /\ (\A q \in Servers \ {p} : proc'[q] = proc[q]) /\ client' = client
      BY <1>0, <1>2 DEF Shutdown
    <2>2. \A i \in JobIds : Awaited(i)'
      BY <2>1 DEF Awaited
    <2>3. ClientsUp'
      BY <2>1, JobsAssumption DEF RememberInv, ClientsUp, Active
    <2> QED
      BY <2>2, <2>3 DEF RememberInv, NoJobForgotten
  <1>3. CASE Start(p)
    <2>1. /\ proc[p] = "down" /\ proc'[p] = "recover" /\ (\A q \in Servers \ {p} : proc'[q] = proc[q])
          /\ found'[p] = {i \in JobIds : job[i].status \in Live} /\ job' = job /\ client' = client
      BY <1>0, <1>3 DEF Start
    <2>2. \A i \in JobIds : job'[i].status \in Live => Awaited(i)'
      BY <2>1 DEF Awaited
    <2>3. ClientsUp'
      <3>1. \A c \in Clients : Active(c) => ServerOf[c] # p /\ ServerOf[c] \in Servers
        BY <2>1, JobsAssumption DEF RememberInv, ClientsUp
      <3> QED
        BY <2>1, <3>1 DEF RememberInv, ClientsUp, Active
    <2> QED
      BY <2>2, <2>3 DEF RememberInv, NoJobForgotten
  <1>4. CASE Recover(p)
    <2>1. /\ proc'[p] = "up" /\ (\A q \in Servers \ {p} : proc'[q] = proc[q] /\ found'[q] = found[q])
          /\ proc[p] = "recover" /\ client' = client /\ queue' = queue /\ worker' = worker
          /\ \A i \in JobIds : job'[i] = IF i \in found[p] THEN [job[i] EXCEPT !.status = "failed", !.error = "interrupted"] ELSE job[i]
      BY <1>0, <1>4 DEF Recover
    <2>2. ClientsUp'
      BY <2>1, JobsAssumption DEF RememberInv, ClientsUp, Active
    <2>3. ASSUME NEW i \in JobIds, job'[i].status \in Live PROVE Held(i)' \/ Awaited(i)'
      <3>1. i \notin found[p]
        <4> SUFFICES ASSUME i \in found[p] PROVE FALSE
          OBVIOUS
        <4>1. job[i] \in JobRow
          BY RowIsJob DEF JobsInv, FoundKnows
        <4>2. [job[i] EXCEPT !.status = "failed", !.error = "interrupted"].status = "failed"
          BY <4>1 DEF JobRow
        <4> QED
          BY <2>1, <2>3, <4>2 DEF Live
      <3>2. job[i].status \in Live
        BY <2>1, <2>3, <3>1
      <3>3. Held(i)' = Held(i)
        BY <2>1 DEF Held, Places, Busy
      <3>4. Awaited(i) => Awaited(i)'
        BY <2>1, <3>1 DEF Awaited
      <3> QED
        BY <3>2, <3>3, <3>4 DEF RememberInv, NoJobForgotten
    <2> QED
      BY <2>2, <2>3 DEF RememberInv, NoJobForgotten
  <1> QED
    BY <1>1, <1>2, <1>3, <1>4 DEF Exit, Crash

\* However clients, workers, stops and recoveries of any number of processes
\* interleave, a job that is queued or running is in somebody's hands, or a
\* process is down, stopping or about to fail it: what EveryJobEnds rests on.
THEOREM NoJobForgottenHolds == JobsSpec => []NoJobForgotten
  <1>1. JobsInit => RememberInv
    <2> SUFFICES ASSUME JobsInit PROVE RememberInv
      OBVIOUS
    <2>1. (\A c \in Clients : ~Active(c)) /\ \A i \in JobIds : job[i].status = "none"
      BY DEF JobsInit, Active, FreeClient, NoRow
    <2> QED
      BY <2>1 DEF RememberInv, ClientsUp, NoJobForgotten, Live
  <1>2. JobsInv /\ RememberInv /\ [JobsNext]_jobsVars => RememberInv'
    <2> SUFFICES ASSUME JobsInv, RememberInv, [JobsNext]_jobsVars PROVE RememberInv'
      OBVIOUS
    <2>1. CASE UNCHANGED jobsVars
      BY <2>1 DEF jobsVars, RememberInv, ClientsUp, NoJobForgotten, Held, Awaited, Active, Busy, Places
    <2> QED
      BY <2>1, SubmitRemembers, WorkerRemembers, ProcessRemembers DEF JobsNext
  <1>3. RememberInv => NoJobForgotten
    BY DEF RememberInv
  <1> QED
    BY <1>1, <1>2, <1>3, JobsInvariant, PTL DEF JobsSpec
=============================================================================
