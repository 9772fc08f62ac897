--------------------------------- MODULE Jobs ---------------------------------
(***************************************************************************)
(* JobService: submissions persist a row and hand the job to a pool of     *)
(* worker threads; workers mark it, execute it and store its end; a        *)
(* process that starts fails the jobs an earlier process left behind.      *)
(* Every database access is a transaction of its own, and inside one the   *)
(* read of a row and its update by primary key are separate steps.  A job  *)
(* is known by the number of the submission that created it.               *)
(***************************************************************************)
EXTENDS Integers, Sequences, FiniteSets

CONSTANTS
    Clients,     \* threads that submit, and
    Workers,     \* threads of the executors, and
    Servers,
    ServerOf,    \* the process of each of them
    Keys,        \* idempotency keys
    Failures,    \* TRUE: processes stop and requests raise
    MaxJobs,     \* bound on the submissions
    NoJobKey

ASSUME JobsAssumption ==
    /\ ServerOf \in [Clients \cup Workers -> Servers]
    /\ Clients \cap Workers = {}
    /\ Failures \in BOOLEAN /\ MaxJobs \in Nat
    /\ NoJobKey \notin Keys

VARIABLES
    job,      \* the rows, by number of the submission
    used,     \* submissions so far
    client,   \* what a submitting thread is doing
    queue,    \* futures of each executor
    worker,   \* what an executor thread is doing
    proc,     \* state of each process
    found,    \* rows that a recovery has selected
    asked     \* how often each job was put to the execution gate (history)

jobsVars == <<job, used, client, queue, worker, proc, found, asked>>

JobIds == 1 .. MaxJobs
Live == {"queued", "running"}
Terminal == {"completed", "failed"}
NoRow == [status |-> "none"]
JobRow == [key: Keys, status: Live \cup Terminal, error: {"", "raised", "interrupted"}]

FreeClient == [pc |-> "idle", id |-> 0, key |-> NoJobKey]
Client == [pc: {"idle", "insert", "enqueue"}, id: 0 .. MaxJobs, key: Keys \cup {NoJobKey}]

Resting == [pc |-> "idle", id |-> 0]
Worker == [pc: {"idle", "mark", "running", "run", "finish", "completed", "fail", "failed"},
           id: 0 .. MaxJobs]

JobsTypeOK ==
    /\ job \in [JobIds -> JobRow \cup {NoRow}]
    /\ used \in 0 .. MaxJobs
    /\ client \in [Clients -> Client]
    /\ queue \in [Servers -> Seq(JobIds)]
    /\ worker \in [Workers -> Worker]
    /\ proc \in [Servers -> {"down", "recover", "up", "stopping"}]
    /\ found \in [Servers -> SUBSET JobIds]
    /\ asked \in [JobIds -> 0 .. 2]

JobsInit ==
    /\ job = [i \in JobIds |-> NoRow]
    /\ used = 0
    /\ client = [c \in Clients |-> FreeClient]
    /\ queue = [p \in Servers |-> <<>>]
    /\ worker = [w \in Workers |-> Resting]
    /\ proc = [p \in Servers |-> "down"]
    /\ found = [p \in Servers |-> {}]
    /\ asked = [i \in JobIds |-> 0]

-----------------------------------------------------------------------------
(* submit *)

WithKey(k) == {i \in JobIds : job[i] # NoRow /\ job[i].key = k}

\* _get_by_key: a known key returns its job, a new one goes on to the insert.
SubmitGet(c, k) ==
    /\ proc[ServerOf[c]] = "up" /\ client[c].pc = "idle" /\ used < MaxJobs
    /\ WithKey(k) = {}
    /\ used' = used + 1
    /\ client' = [client EXCEPT ![c] = [pc |-> "insert", id |-> used + 1, key |-> k]]
    /\ UNCHANGED <<job, queue, worker, proc, found, asked>>

\* Mutant: the key is not unique.
SubmitInsert_NotUnique(c) ==
    /\ client[c].pc = "insert"
    /\ job' = [job EXCEPT ![client[c].id] =
                 [key |-> client[c].key, status |-> "queued", error |-> ""]]
    /\ client' = [client EXCEPT ![c].pc = "enqueue"]
    /\ UNCHANGED <<used, queue, worker, proc, found, asked>>

\* The insert; (actor, key) is unique, and the loser returns the winner's job.
SubmitInsert(c) ==
    /\ client[c].pc = "insert"
    /\ IF WithKey(client[c].key) = {}
       THEN /\ job' = [job EXCEPT ![client[c].id] =
                         [key |-> client[c].key, status |-> "queued", error |-> ""]]
            /\ client' = [client EXCEPT ![c].pc = "enqueue"]
       ELSE /\ client' = [client EXCEPT ![c] = FreeClient]
            /\ UNCHANGED job
    /\ UNCHANGED <<used, queue, worker, proc, found, asked>>

\* executor.submit; it raises once the executor is shut down.
Enqueue(c) ==
    /\ client[c].pc = "enqueue"
    /\ queue' = IF proc[ServerOf[c]] = "up"
                THEN [queue EXCEPT ![ServerOf[c]] = Append(@, client[c].id)] ELSE queue
    /\ client' = [client EXCEPT ![c] = FreeClient]
    /\ UNCHANGED <<job, used, worker, proc, found, asked>>

-----------------------------------------------------------------------------
(* _run *)

Goto(w, place) == worker' = [worker EXCEPT ![w].pc = place]

Take(w) ==
    /\ worker[w].pc = "idle" /\ queue[ServerOf[w]] # <<>>
    /\ worker' = [worker EXCEPT ![w] = [pc |-> "mark", id |-> Head(queue[ServerOf[w]])]]
    /\ queue' = [queue EXCEPT ![ServerOf[w]] = Tail(@)]
    /\ UNCHANGED <<job, used, client, proc, found, asked>>

\* The read of the row that the next write updates.
ReadJob(w) ==
    /\ worker[w].pc \in {"mark", "finish", "fail"}
    /\ Goto(w, CASE worker[w].pc = "mark" -> "running"
                 [] worker[w].pc = "finish" -> "completed"
                 [] worker[w].pc = "fail" -> "failed")
    /\ UNCHANGED <<job, used, client, queue, proc, found, asked>>

\* _mark_status(RUNNING).
MarkRunning(w) ==
    /\ worker[w].pc = "running"
    /\ job' = [job EXCEPT ![worker[w].id].status = "running"]
    /\ Goto(w, "run")
    /\ UNCHANGED <<used, client, queue, proc, found, asked>>

\* execution_service.request answers: executed, denied, failed or waiting for a
\* confirmation, which is the job's result and no matter of its status ...
Execute(w) ==
    /\ worker[w].pc = "run"
    /\ asked' = [asked EXCEPT ![worker[w].id] = @ + 1]
    /\ Goto(w, "finish")
    /\ UNCHANGED <<job, used, client, queue, proc, found>>

\* ... or raises, before or after the action was executed.
ExecuteRaises(w) ==
    /\ Failures /\ worker[w].pc = "run"
    /\ asked' = [asked EXCEPT ![worker[w].id] = @ + 1]
    /\ Goto(w, "fail")
    /\ UNCHANGED <<job, used, client, queue, proc, found>>

\* The end of the job is written: only the columns it assigns, so an error
\* stored by someone else stays.
Finish(w) ==
    /\ worker[w].pc \in {"completed", "failed"}
    /\ LET row == job[worker[w].id]
       IN  job' = [job EXCEPT ![worker[w].id] =
                     [row EXCEPT !.status = worker[w].pc,
                                 !.error = IF worker[w].pc = "failed" THEN "raised" ELSE row.error]]
    /\ worker' = [worker EXCEPT ![w] = Resting]
    /\ UNCHANGED <<used, client, queue, proc, found, asked>>

-----------------------------------------------------------------------------
(* The life of a process *)

Start(p) ==
    /\ proc[p] = "down"
    /\ found' = [found EXCEPT ![p] = {i \in JobIds : job[i].status \in Live}]
    /\ proc' = [proc EXCEPT ![p] = "recover"]
    /\ UNCHANGED <<job, used, client, queue, worker, asked>>

Recover_Raises(p) ==
    /\ proc[p] = "recover"
    /\ proc' = [proc EXCEPT ![p] = IF found[p] = {} THEN "up" ELSE "down"]
    /\ found' = [found EXCEPT ![p] = {}]
    /\ UNCHANGED <<job, used, client, queue, worker, asked>>

\* recover: the rows that were queued or running when it read them are failed.
Recover(p) ==
    /\ proc[p] = "recover"
    /\ job' = [i \in JobIds |-> IF i \in found[p]
                                THEN [job[i] EXCEPT !.status = "failed", !.error = "interrupted"]
                                ELSE job[i]]
    /\ found' = [found EXCEPT ![p] = {}]
    /\ proc' = [proc EXCEPT ![p] = "up"]
    /\ UNCHANGED <<used, client, queue, worker, asked>>

ThreadsOf(threads, p) == {x \in threads : ServerOf[x] = p}

\* The process is gone with its threads.
Down(p) ==
    /\ proc' = [proc EXCEPT ![p] = "down"]
    /\ found' = [found EXCEPT ![p] = {}]
    /\ queue' = [queue EXCEPT ![p] = <<>>]
    /\ client' = [c \in Clients |-> IF ServerOf[c] = p THEN FreeClient ELSE client[c]]
    /\ worker' = [w \in Workers |-> IF ServerOf[w] = p THEN Resting ELSE worker[w]]
    /\ UNCHANGED <<job, used, asked>>

Crash(p) == Failures /\ proc[p] # "down" /\ Down(p)

\* shutdown: what waits in the executor is cancelled, what runs is finished.
Shutdown(p) ==
    /\ Failures /\ proc[p] = "up"
    /\ proc' = [proc EXCEPT ![p] = "stopping"]
    /\ queue' = [queue EXCEPT ![p] = <<>>]
    /\ UNCHANGED <<job, used, client, worker, found, asked>>

Exit(p) ==
    /\ proc[p] = "stopping"
    /\ \A w \in ThreadsOf(Workers, p) : worker[w] = Resting
    /\ \A c \in ThreadsOf(Clients, p) : client[c] = FreeClient
    /\ Down(p)

Run(w) == ReadJob(w) \/ MarkRunning(w) \/ Execute(w) \/ ExecuteRaises(w) \/ Finish(w)
SubmitStep(c) == SubmitInsert(c) \/ Enqueue(c)

JobsNext ==
    \/ \E c \in Clients : SubmitStep(c) \/ \E k \in Keys : SubmitGet(c, k)
    \/ \E w \in Workers : Take(w) \/ Run(w)
    \/ \E p \in Servers : Start(p) \/ Recover(p) \/ Exit(p) \/ Crash(p) \/ Shutdown(p)

\* Threads run and processes are started again, not for ever only to stop in
\* the middle of their recovery; nothing obliges a client to submit or a
\* process to stop.
JobsFairness ==
    /\ \A c \in Clients : WF_jobsVars(SubmitStep(c))
    /\ \A w \in Workers : WF_jobsVars(Take(w)) /\ WF_jobsVars(Run(w))
    /\ \A p \in Servers : WF_jobsVars(Start(p)) /\ WF_jobsVars(Exit(p)) /\ SF_jobsVars(Recover(p))

JobsSpec == JobsInit /\ [][JobsNext]_jobsVars /\ JobsFairness

-----------------------------------------------------------------------------
\* However submissions, workers, stops and recoveries interleave, a key is put
\* to the execution gate at most once, a request that raised included, and a
\* job that is completed was answered there.  (The answer may be a refusal or a
\* confirmation to give: completed does not mean executed.)
OncePerKey ==
    /\ \A i, j \in JobIds : asked[i] > 0 /\ asked[j] > 0 /\ job[i].key = job[j].key => i = j
    /\ \A i \in JobIds : asked[i] <= 1 /\ (job[i].status = "completed" => asked[i] = 1)

\* Every job ends, completed or failed, whatever stops in between.
EveryJobEnds == \A i \in JobIds : (job[i].status \in Live) ~> (job[i].status \in Terminal)
=============================================================================
