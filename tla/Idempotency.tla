----------------------------- MODULE Idempotency -----------------------------
(***************************************************************************)
(* IdempotencyService.run for one (actor, key): callers that retry, double *)
(* or reuse the key, each in a thread of its own.  Every database access   *)
(* is a transaction of its own, so what a caller has read may be stale by  *)
(* the time it deletes, inserts or updates.  Records expire TTL after they *)
(* are created; one that is still "processing" after ProcTTL counts as     *)
(* abandoned.  Responses and records are known by the number of the        *)
(* call that made them.                                                    *)
(***************************************************************************)
EXTENDS Integers

CONSTANTS
    Threads,
    Requests,      \* request fingerprints that callers send under the key
    TTL,           \* idempotency_ttl_seconds
    ProcTTL,       \* idempotency_processing_ttl_seconds
    DispatchTime,  \* the time a dispatch takes at most, its _complete included
    ReadTime,      \* the time between a read and the decision made on it
    Faults,        \* of "raise", "late", "crash", "database"
    MaxTime,       \* bound on the clock
    MaxCalls,      \* bound on the calls
    None

Record == [id: Nat, request: Requests, status: {"processing", "completed"},
           response: Nat, created: Nat]

\* The provider timeout bounds validate and execute (30 s each by default),
\* far below the 300 s after which a record counts as abandoned: what is left
\* is the time a caller may dwell on a record it has read.
ASSUME IdempotencyAssumption ==
    /\ TTL \in Nat /\ ProcTTL \in Nat /\ DispatchTime \in Nat /\ ReadTime \in Nat
    /\ DispatchTime + ReadTime <= ProcTTL /\ ProcTTL <= TTL
    /\ Faults \subseteq {"raise", "late", "crash", "database"}
    /\ MaxTime \in Nat /\ MaxCalls \in Nat
    /\ None \notin Requests \cup Record

VARIABLES
    now,
    rec,       \* the row of the key, or None
    pc,
    call,      \* what a caller holds in its local variables
    keyEffects,   \* the dispatches that may have acted (history)
    answers,   \* what callers got (history)
    calls      \* calls made so far

idemVars == <<now, rec, pc, call, keyEffects, answers, calls>>

Call == [request: Requests \cup {None}, seen: Record \cup {None},
         second: BOOLEAN, id: Nat, began: Nat, read: Nat]
NoCall == [request |-> None, seen |-> None, second |-> FALSE, id |-> 0,
           began |-> 0, read |-> 0]

Places == {"idle", "get", "decide", "delete", "begin", "reread", "raced",
           "dispatch", "complete", "write"}

\* ok: a response; conflict and busy: the two 409s; raised: the error of the
\* dispatch; error: an error of run() itself.
Statuses == {"ok", "conflict", "busy", "raised", "error"}

IdemTypeOK ==
    /\ now \in 0 .. MaxTime
    /\ rec \in Record \cup {None}
    /\ pc \in [Threads -> Places]
    /\ call \in [Threads -> Call]
    /\ keyEffects \subseteq [id: Nat, request: Requests, began: Nat, end: {"", "left", "late"}]
    /\ answers \subseteq [request: Requests, status: Statuses, response: Nat]
    /\ calls \in 0 .. MaxCalls

IdemInit ==
    /\ now = 0
    /\ rec = None
    /\ pc = [t \in Threads |-> "idle"]
    /\ call = [t \in Threads |-> NoCall]
    /\ keyEffects = {}
    /\ answers = {}
    /\ calls = 0

-----------------------------------------------------------------------------
MoveTo(t, place) == pc' = [pc EXCEPT ![t] = place]

\* run() is left with a response, or with an exception.
Leave(t, status, response) ==
    /\ MoveTo(t, "idle")
    /\ call' = [call EXCEPT ![t] = NoCall]
    /\ answers' = answers \cup
           {[request |-> call[t].request, status |-> status, response |-> response]}

IsExpired(r) == now > r.created + TTL
IsStaleProcessing(r) == r.status = "processing" /\ now > r.created + ProcTTL

\* A client sends the key with request r.
Begins(t, r) ==
    /\ pc[t] = "idle" /\ calls < MaxCalls
    /\ calls' = calls + 1
    /\ call' = [call EXCEPT ![t] = [NoCall EXCEPT !.request = r, !.id = calls + 1]]
    /\ MoveTo(t, "get")
    /\ UNCHANGED <<now, rec, keyEffects, answers>>

\* _get: the first read, and the read of the winner after a lost race.
Get(t) ==
    /\ pc[t] \in {"get", "reread"}
    /\ call' = [call EXCEPT ![t].seen = rec, ![t].read = now]
    /\ MoveTo(t, IF pc[t] = "get" THEN "decide" ELSE "raced")
    /\ UNCHANGED <<now, rec, keyEffects, answers, calls>>

\* Mutant: a completed request is dispatched once more.
Resolve_Again(t) ==
    /\ call[t].seen.status = "completed"
    /\ IF call[t].seen.request = call[t].request
       THEN /\ call' = [call EXCEPT ![t].began = now]
            /\ MoveTo(t, "dispatch")
            /\ UNCHANGED answers
       ELSE Leave(t, "conflict", 0)

\* _resolve_completed: the recorded response, or IdempotencyConflict.
Resolve(t) ==
    /\ call[t].seen.status = "completed"
    /\ IF call[t].seen.request = call[t].request
       THEN Leave(t, "ok", call[t].seen.response)
       ELSE Leave(t, "conflict", 0)

\* IdempotencyInProgress.
Busy(t) ==
    /\ call[t].seen.status = "processing"
    /\ ~ IsStaleProcessing(call[t].seen)
    /\ Leave(t, "busy", 0)

Drop(t, second) ==
    /\ call' = [call EXCEPT ![t].second = second]
    /\ MoveTo(t, "delete")
    /\ UNCHANGED answers

\* What run() makes of its first read.
Decide(t) ==
    /\ pc[t] = "decide"
    /\ LET seen == call[t].seen
       IN  \/ seen = None /\ MoveTo(t, "begin") /\ UNCHANGED <<call, answers>>
           \/ /\ seen # None /\ (IsExpired(seen) \/ IsStaleProcessing(seen))
              /\ Drop(t, FALSE)
           \/ seen # None /\ ~ IsExpired(seen) /\ (Resolve(t) \/ Busy(t))
    /\ UNCHANGED <<now, rec, keyEffects, calls>>

\* What it makes of the winner's record: no expiry check, and a record that
\* is gone again is an AttributeError.  A second lost race is always "busy".
Raced(t) ==
    /\ pc[t] = "raced"
    /\ LET seen == call[t].seen
       IN  \/ call[t].second /\ Leave(t, "busy", 0)
           \/ ~ call[t].second /\ seen = None /\ Leave(t, "error", 0)
           \/ ~ call[t].second /\ seen # None /\ (Resolve(t) \/ Busy(t))
           \/ ~ call[t].second /\ seen # None /\ IsStaleProcessing(seen) /\ Drop(t, TRUE)
    /\ UNCHANGED <<now, rec, keyEffects, calls>>

\* _delete: by primary key, so it never hits the record of a later attempt.
Delete(t) ==
    /\ pc[t] = "delete"
    /\ rec' = IF rec # None /\ rec.id = call[t].seen.id THEN None ELSE rec
    /\ MoveTo(t, "begin")
    /\ UNCHANGED <<now, call, keyEffects, answers, calls>>

\* _begin: the INSERT, refused by the unique (actor, key) if there is a row.
Begin(t) ==
    /\ pc[t] = "begin"
    /\ IF rec = None
       THEN /\ rec' = [id |-> call[t].id, request |-> call[t].request, status |-> "processing",
                       response |-> 0, created |-> now]
            /\ call' = [call EXCEPT ![t].began = now]
            /\ MoveTo(t, "dispatch")
       ELSE MoveTo(t, "reread") /\ UNCHANGED <<rec, call>>
    /\ UNCHANGED <<now, keyEffects, answers, calls>>

Effect(t, end) == [id |-> call[t].id, request |-> call[t].request,
                   began |-> call[t].began, end |-> end]

\* dispatch() returns its response: executed, refused or failed, it counts.
Dispatch(t) ==
    /\ pc[t] = "dispatch"
    /\ keyEffects' = keyEffects \cup {Effect(t, "")}
    /\ MoveTo(t, "complete")
    /\ UNCHANGED <<now, rec, call, answers, calls>>

\* _discard, and the error is raised again.
Discard(t) ==
    /\ rec' = IF rec # None /\ rec.id = call[t].id THEN None ELSE rec
    /\ Leave(t, "raised", 0)
    /\ UNCHANGED <<now, calls>>

\* dispatch() raises before the action took effect.
DispatchRaises(t) ==
    /\ "raise" \in Faults /\ pc[t] = "dispatch"
    /\ Discard(t)
    /\ UNCHANGED keyEffects

\* dispatch() raises after it: the provider has acted and the transaction
\* that records the outcome fails.
DispatchRaisesLate(t) ==
    /\ "late" \in Faults /\ pc[t] = "dispatch"
    /\ keyEffects' = keyEffects \cup {Effect(t, "late")}
    /\ Discard(t)

\* _complete reads its record; one that is gone is not recorded again.
CompleteRead(t) ==
    /\ pc[t] = "complete"
    /\ IF rec # None /\ rec.id = call[t].id
       THEN MoveTo(t, "write") /\ UNCHANGED <<call, answers>>
       ELSE Leave(t, "ok", call[t].id)
    /\ UNCHANGED <<now, rec, keyEffects, calls>>

\* Its UPDATE, by primary key.  No row: StaleDataError.
CompleteWrite(t) ==
    /\ pc[t] = "write"
    /\ IF rec # None /\ rec.id = call[t].id
       THEN /\ rec' = [rec EXCEPT !.status = "completed", !.response = call[t].id]
            /\ Leave(t, "ok", call[t].id)
       ELSE Leave(t, "error", 0) /\ UNCHANGED rec
    /\ UNCHANGED <<now, keyEffects, calls>>

\* An attempt is over and its record, if it has one, still "processing".
LeaveRecord(t) == keyEffects' = {IF e.id = call[t].id THEN [e EXCEPT !.end = "left"] ELSE e : e \in keyEffects}

\* A transaction of run() itself fails and is rolled back: _get, _delete, _begin,
\* _discard after an error of the dispatch, or _complete after its effect (which
\* is where a _discard that fails after a late error leads, too).
TransactionFails(t) ==
    /\ "database" \in Faults /\ pc[t] \notin {"idle", "decide", "raced"}
    /\ Leave(t, "error", 0)
    /\ LeaveRecord(t)
    /\ UNCHANGED <<now, rec, calls>>

\* The process stops; the caller gets nothing and the record stays.
CallerCrashes(t) ==
    /\ "crash" \in Faults /\ pc[t] # "idle"
    /\ MoveTo(t, "idle")
    /\ call' = [call EXCEPT ![t] = NoCall]
    /\ LeaveRecord(t)
    /\ UNCHANGED <<now, rec, answers, calls>>

\* Time passes; a dispatch and its _complete take at most DispatchTime, the
\* way from a read to its decision at most ReadTime.
Tick ==
    /\ now < MaxTime
    /\ \A t \in Threads :
         /\ pc[t] \in {"dispatch", "complete", "write"} => now < call[t].began + DispatchTime
         /\ pc[t] \in {"decide", "raced"} => now < call[t].read + ReadTime
    /\ now' = now + 1
    /\ UNCHANGED <<rec, pc, call, keyEffects, answers, calls>>

Step(t) == \/ Get(t) \/ Decide(t) \/ Raced(t) \/ Delete(t) \/ Begin(t) \/ Dispatch(t)
           \/ DispatchRaises(t) \/ DispatchRaisesLate(t)
           \/ CompleteRead(t) \/ CompleteWrite(t) \/ TransactionFails(t) \/ CallerCrashes(t)

IdemNext == Tick \/ \E t \in Threads : Step(t) \/ \E r \in Requests : Begins(t, r)

IdemSpec == IdemInit /\ [][IdemNext]_idemVars

-----------------------------------------------------------------------------
\* A key takes effect once: while its record lasts, no retry, no duplicate
\* and no lost race dispatches a second time.  Only an attempt that left its
\* record "processing", since its process died or _complete's transaction
\* failed, may be followed by another, and not before it counts as abandoned.
AtMostOnce == \A e, f \in keyEffects :
    e.id # f.id /\ e.began <= f.began
        => f.began > e.began + (IF e.end = "left" THEN ProcTTL ELSE TTL)

\* The same of every dispatch that did not raise after its effect: those are
\* the only ones whose record run() discards while their effect stands.  (A
\* late one of the same instant may have been the first of the two.)
OnceUnlessLate == \A e, f \in keyEffects :
    e.id # f.id /\ e.end # "late"
        /\ (e.began < f.began \/ (e.began = f.began /\ f.end # "late"))
    => f.began > e.began + (IF e.end = "left" THEN ProcTTL ELSE TTL)

=============================================================================
