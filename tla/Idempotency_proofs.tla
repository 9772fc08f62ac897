-------------------------- MODULE Idempotency_proofs --------------------------
(***************************************************************************)
(* A key takes effect once while its record lasts, for any number of       *)
(* callers and every choice of the times the assumption admits; and the    *)
(* responses that callers get are those of their own requests.             *)
(***************************************************************************)
EXTENDS Idempotency, TLAPS

\* How long an effect keeps others away.
Bound(e) == IF e.end = "left" THEN ProcTTL ELSE TTL

\* A thread before its insert; one between its insert and its end; one that
\* acts on what it has read.
Fresh(t) == pc[t] \in {"get", "decide", "delete", "begin", "reread", "raced"}
Holding(t) == pc[t] \in {"dispatch", "complete", "write"}
Looking(t) == pc[t] \in {"decide", "raced", "delete"} /\ call[t].seen # None

\* An attempt that will not change its record or its effect any more.
Dead(id) == /\ \A t \in Threads : Holding(t) => call[t].id # id
            /\ \A e \in keyEffects : e.id = id => e.end \in {"late", "left"}

\* Calls are numbered apart, and what exists belongs to a call that was made; a
\* call that has inserted nothing yet has left no trace.
Numbered ==
    /\ \A t \in Threads : pc[t] # "idle" => call[t].id \in 1 .. calls /\ call[t].request \in Requests
    /\ \A t, u \in Threads : pc[t] # "idle" /\ pc[u] # "idle" /\ call[t].id = call[u].id => t = u
    /\ rec # None => rec.id \in 1 .. calls
    /\ \A e \in keyEffects : e.id \in 1 .. calls
    /\ \A t \in Threads : Looking(t) => call[t].seen.id \in 1 .. calls
    /\ \A t \in Threads : Fresh(t) =>
         /\ rec # None => rec.id # call[t].id
         /\ \A e \in keyEffects : e.id # call[t].id
         /\ \A u \in Threads : Looking(u) => call[u].seen.id # call[t].id

\* Between its insert and its end a call owns the record: nobody deletes it.
Owned == \A t \in Threads : Holding(t) =>
    /\ rec # None /\ rec.id = call[t].id
    /\ rec.status = "processing" /\ rec.created = call[t].began
    /\ now <= call[t].began + DispatchTime
    /\ \A e \in keyEffects : e.id = call[t].id => e.end = "" /\ pc[t] # "dispatch"

\* The record is later than every effect of another attempt, by as much as that
\* effect keeps others away; one that is still processing and has an effect but
\* no thread was left behind by a crash or a failing _complete.
RecordKnows == rec # None =>
    /\ rec.created <= now
    /\ \A e \in keyEffects : e.id = rec.id =>
         /\ e.began = rec.created /\ e.end # "late"
         /\ rec.status = "processing" /\ (\A t \in Threads : Holding(t) => call[t].id # rec.id) => e.end = "left"
    /\ \A e \in keyEffects : e.id # rec.id =>
         /\ e.began <= rec.created
         /\ e.end # "late" => rec.created > e.began + Bound(e)

\* An effect has its record, or its time is over.
EffectsKnow == \A e \in keyEffects :
    /\ e.began <= now
    /\ e.end # "late" => (rec # None /\ rec.id = e.id) \/ now > e.began + Bound(e)

\* A record that was read may be stale in its status alone, and a decision to
\* delete it is right for good.
SeenOK(t) ==
    LET seen == call[t].seen IN
    /\ rec # None /\ rec.id = seen.id => rec.created = seen.created
    /\ \A e \in keyEffects : e.id = seen.id => e.began = seen.created
    /\ pc[t] = "delete" =>
         /\ now > seen.created + ProcTTL
         /\ \A e \in keyEffects : e.id = seen.id /\ e.end # "late" => now > e.began + Bound(e)
    /\ pc[t] # "delete" =>
         /\ now <= call[t].read + ReadTime
         /\ seen.status = "processing" => call[t].read <= seen.created + DispatchTime \/ Dead(seen.id)

SeenKnows == \A t \in Threads : Looking(t) => SeenOK(t)

DeleteHasSeen == \A t \in Threads : pc[t] = "delete" => call[t].seen # None

IdempotencyInv ==
    /\ IdemTypeOK /\ Numbered /\ Owned /\ RecordKnows /\ EffectsKnow /\ SeenKnows /\ DeleteHasSeen
    /\ OnceUnlessLate

-----------------------------------------------------------------------------
(* Types *)

\* The clock and the times the assumption is about.
LEMMA Times ==
    ASSUME IdemTypeOK
    PROVE  /\ now \in Nat /\ calls \in Nat
           /\ TTL \in Nat /\ ProcTTL \in Nat /\ DispatchTime \in Nat /\ ReadTime \in Nat
           /\ DispatchTime + ReadTime <= ProcTTL /\ ProcTTL <= TTL
  <1>0. /\ TTL \in Nat /\ ProcTTL \in Nat /\ DispatchTime \in Nat /\ ReadTime \in Nat
        /\ DispatchTime + ReadTime <= ProcTTL /\ ProcTTL <= TTL
        /\ MaxTime \in Nat /\ MaxCalls \in Nat
    BY IdempotencyAssumption
  <1>1. now \in 0 .. MaxTime /\ calls \in 0 .. MaxCalls
    BY DEF IdemTypeOK
  <1> QED
    BY <1>0, <1>1

\* The numbers and times of a call, and of the record it has read.
LEMMA CallFields ==
    ASSUME IdemTypeOK, NEW t \in Threads
    PROVE  /\ call[t] \in Call
           /\ call[t].id \in Nat /\ call[t].began \in Nat /\ call[t].read \in Nat
           /\ call[t].seen \in Record \cup {None}
  <1>1. call[t] \in Call
    BY DEF IdemTypeOK
  <1> QED
    BY <1>1 DEF Call

\* The numbers and times of a record.
LEMMA RecordFields ==
    ASSUME NEW r \in Record
    PROVE  r.id \in Nat /\ r.created \in Nat /\ r.response \in Nat
  BY DEF Record

\* The same of the record a caller has read.
LEMMA SeenFields ==
    ASSUME IdemTypeOK, NEW t \in Threads, call[t].seen # None
    PROVE  call[t].seen.created \in Nat /\ call[t].seen.response \in Nat /\ call[t].seen.id \in Nat
  <1>1. call[t].seen \in Record
    BY CallFields
  <1> QED
    BY <1>1, RecordFields

\* The same of the row.
LEMMA RowFields ==
    ASSUME IdemTypeOK, rec # None
    PROVE  rec \in Record /\ rec.created \in Nat /\ rec.id \in Nat
  <1>1. rec \in Record
    BY DEF IdemTypeOK
  <1> QED
    BY <1>1, RecordFields

\* The numbers and times of an effect.
LEMMA EffectFields ==
    ASSUME IdemTypeOK, NEW e \in keyEffects
    PROVE  e.id \in Nat /\ e.began \in Nat /\ Bound(e) \in Nat /\ Bound(e) <= TTL
  <1>1. e \in [id: Nat, request: Requests, began: Nat, end: {"", "left", "late"}]
    BY DEF IdemTypeOK
  <1>2. e.id \in Nat /\ e.began \in Nat
    BY <1>1
  <1> QED
    BY <1>2, Times DEF Bound

\* A caller that is done holds nothing.
LEMMA NoCallTyped == NoCall \in Call
  BY IdempotencyAssumption DEF NoCall, Call

\* run() returns or raises: what it leaves behind is typed.
LEMMA LeaveTyped ==
    ASSUME IdemTypeOK, Numbered, NEW t \in Threads, pc[t] # "idle", NEW status \in Statuses, NEW response \in Nat,
           Leave(t, status, response)
    PROVE  /\ pc' \in [Threads -> Places] /\ call' \in [Threads -> Call]
           /\ answers' \subseteq [request: Requests, status: Statuses, response: Nat]
           /\ pc' = [pc EXCEPT ![t] = "idle"] /\ call' = [call EXCEPT ![t] = NoCall]
  <1>1. pc' = [pc EXCEPT ![t] = "idle"] /\ call' = [call EXCEPT ![t] = NoCall]
    BY DEF Leave, MoveTo
  <1>2. pc' \in [Threads -> Places] /\ call' \in [Threads -> Call]
    BY <1>1, NoCallTyped DEF IdemTypeOK, Places
  <1>3. call[t].request \in Requests
    BY DEF Numbered
  <1>4. [request |-> call[t].request, status |-> status, response |-> response]
           \in [request: Requests, status: Statuses, response: Nat]
    BY <1>3
  <1>5. answers' \subseteq [request: Requests, status: Statuses, response: Nat]
    BY <1>4 DEF Leave, IdemTypeOK
  <1> QED
    BY <1>1, <1>2, <1>5

-----------------------------------------------------------------------------
(* Steps of one thread that change nothing but its own variables *)

\* A thread that holds no record is gone, with an answer or without.
LEMMA GoneKeeps ==
    ASSUME IdempotencyInv, NEW t \in Threads, pc[t] # "idle", ~Holding(t), IdemTypeOK',
           pc' = [pc EXCEPT ![t] = "idle"], call' = [call EXCEPT ![t] = NoCall],
           UNCHANGED <<now, rec, keyEffects, calls>>
    PROVE  IdempotencyInv'
  <1>3. pc'[t] = "idle" /\ \A u \in Threads \ {t} : pc'[u] = pc[u] /\ call'[u] = call[u]
    BY DEF IdempotencyInv, IdemTypeOK
  <1>4. \A u \in Threads : /\ (Holding(u)' <=> Holding(u))
                           /\ Holding(u) => call'[u] = call[u] /\ pc'[u] = pc[u]
                           /\ Fresh(u)' => Fresh(u) /\ call'[u] = call[u]
                           /\ Looking(u)' => Looking(u) /\ call'[u] = call[u] /\ pc'[u] = pc[u]
                           /\ pc'[u] # "idle" => pc[u] # "idle" /\ call'[u] = call[u]
                           /\ pc'[u] = "delete" => pc[u] = "delete" /\ call'[u] = call[u]
    BY <1>3 DEF Holding, Fresh, Looking
  <1>5. Numbered'
    BY <1>4 DEF IdempotencyInv, Numbered
  <1>6. Owned'
    <2>1. ASSUME NEW u \in Threads, Holding(u)'
          PROVE  /\ rec' # None /\ rec'.id = call'[u].id
                 /\ rec'.status = "processing" /\ rec'.created = call'[u].began
                 /\ now' <= call'[u].began + DispatchTime
                 /\ \A e \in keyEffects' : e.id = call'[u].id => e.end = "" /\ pc'[u] # "dispatch"
      <3>1. Holding(u) /\ call'[u] = call[u] /\ pc'[u] = pc[u]
        BY <1>4, <2>1
      <3> QED
        BY <3>1 DEF IdempotencyInv, Owned
    <2> QED
      BY <2>1 DEF Owned
  <1>7. RecordKnows'
    BY <1>4 DEF IdempotencyInv, RecordKnows, Bound
  <1>8. EffectsKnow' /\ OnceUnlessLate'
    BY DEF IdempotencyInv, EffectsKnow, OnceUnlessLate, Bound
  <1>9. SeenKnows'
    <2>1. \A id : Dead(id) => Dead(id)'
      BY <1>4 DEF Dead
    <2> QED
      BY <1>4, <2>1 DEF IdempotencyInv, SeenKnows, SeenOK, Bound
  <1>10. DeleteHasSeen'
    BY <1>4 DEF IdempotencyInv, DeleteHasSeen
  <1> QED
    BY <1>5, <1>6, <1>7, <1>8, <1>9, <1>10 DEF IdempotencyInv

\* It leaves run() with an answer.
LEMMA LeaveKeeps ==
    ASSUME IdempotencyInv, NEW t \in Threads, pc[t] # "idle", ~Holding(t),
           NEW status \in Statuses, NEW response \in Nat,
           Leave(t, status, response), UNCHANGED <<now, rec, keyEffects, calls>>
    PROVE  IdempotencyInv'
  <1>1. /\ pc' \in [Threads -> Places] /\ call' \in [Threads -> Call]
        /\ answers' \subseteq [request: Requests, status: Statuses, response: Nat]
        /\ pc' = [pc EXCEPT ![t] = "idle"] /\ call' = [call EXCEPT ![t] = NoCall]
    BY LeaveTyped DEF IdempotencyInv
  <1>2. IdemTypeOK'
    BY <1>1 DEF IdempotencyInv, IdemTypeOK
  <1> QED
    BY <1>1, <1>2, GoneKeeps

\* A thread that has inserted nothing yet goes on, with what it has read.
LEMMA LookKeeps ==
    ASSUME IdempotencyInv, NEW t \in Threads, Fresh(t), IdemTypeOK', UNCHANGED <<now, rec, keyEffects, calls>>,
           \A u \in Threads \ {t} : pc'[u] = pc[u] /\ call'[u] = call[u],
           Fresh(t)', call'[t].id = call[t].id, call'[t].request = call[t].request,
           Looking(t)' => (Looking(t) /\ call'[t].seen = call[t].seen) \/ call'[t].seen = rec,
           Looking(t)' => SeenOK(t)', pc'[t] = "delete" => call'[t].seen # None
    PROVE  IdempotencyInv'
  <1>1. pc[t] # "idle" /\ pc'[t] # "idle" /\ ~Holding(t) /\ ~Holding(t)'
    BY DEF Fresh, Holding
  <1>2. \A u \in Threads : /\ Holding(u)' <=> Holding(u)
                           /\ Holding(u) => call'[u] = call[u] /\ pc'[u] = pc[u]
                           /\ Fresh(u)' <=> Fresh(u)
                           /\ pc'[u] # "idle" <=> pc[u] # "idle"
                           /\ call'[u].id = call[u].id /\ call'[u].request = call[u].request
    BY <1>1 DEF Holding, Fresh
  <1>3. \A u \in Threads \ {t} : (Looking(u)' <=> Looking(u)) /\ call'[u] = call[u] /\ pc'[u] = pc[u]
    BY DEF Looking
  <1>4. Looking(t)' => call'[t].seen # None
    BY DEF Looking
  <1>5. Numbered'
    <2>1. Looking(t)' => /\ call'[t].seen.id \in 1 .. calls
                         /\ \A u \in Threads : Fresh(u) => call'[t].seen.id # call[u].id
      BY <1>4 DEF IdempotencyInv, Numbered
    <2>2. \A u \in Threads : Looking(u)' => /\ call'[u].seen.id \in 1 .. calls
                                            /\ \A v \in Threads : Fresh(v) => call'[u].seen.id # call[v].id
      BY <1>3, <2>1 DEF IdempotencyInv, Numbered
    <2> QED
      BY <1>2, <2>2 DEF IdempotencyInv, Numbered
  <1>6. Owned'
    <2>1. ASSUME NEW u \in Threads, Holding(u)'
          PROVE  /\ rec' # None /\ rec'.id = call'[u].id
                 /\ rec'.status = "processing" /\ rec'.created = call'[u].began
                 /\ now' <= call'[u].began + DispatchTime
                 /\ \A e \in keyEffects' : e.id = call'[u].id => e.end = "" /\ pc'[u] # "dispatch"
      <3>1. Holding(u) /\ call'[u] = call[u] /\ pc'[u] = pc[u]
        BY <1>2, <2>1
      <3> QED
        BY <3>1 DEF IdempotencyInv, Owned
    <2> QED
      BY <2>1 DEF Owned
  <1>7. RecordKnows'
    BY <1>2 DEF IdempotencyInv, RecordKnows, Bound
  <1>8. EffectsKnow' /\ OnceUnlessLate'
    BY DEF IdempotencyInv, EffectsKnow, OnceUnlessLate, Bound
  <1>9. SeenKnows'
    <2>1. \A id : Dead(id) => Dead(id)'
      BY <1>2 DEF Dead
    <2>2. \A u \in Threads \ {t} : Looking(u)' => SeenOK(u)'
      BY <1>3, <2>1 DEF IdempotencyInv, SeenKnows, SeenOK, Bound
    <2> QED
      BY <2>2 DEF SeenKnows
  <1>10. DeleteHasSeen'
    BY <1>3 DEF IdempotencyInv, DeleteHasSeen
  <1> QED
    BY <1>5, <1>6, <1>7, <1>8, <1>9, <1>10 DEF IdempotencyInv

\* The row is read: what is read agrees with the row, and if it is still
\* processing its thread is at work, or dead.
LEMMA GetKeeps == ASSUME IdempotencyInv, NEW t \in Threads, Get(t) PROVE IdempotencyInv'
  <1>1. /\ Fresh(t) /\ UNCHANGED <<now, rec, keyEffects, calls, answers>>
        /\ call' = [call EXCEPT ![t].seen = rec, ![t].read = now]
    BY DEF Get, Fresh
  <1>2. PICK place \in {"decide", "raced"} : pc' = [pc EXCEPT ![t] = place]
    BY DEF Get, MoveTo
  <1>3. pc'[t] = place /\ \A u \in Threads \ {t} : pc'[u] = pc[u] /\ call'[u] = call[u]
    BY <1>1, <1>2 DEF IdempotencyInv, IdemTypeOK
  <1>c. call[t] \in Call /\ rec \in Record \cup {None} /\ now \in Nat
    BY Times DEF IdempotencyInv, IdemTypeOK
  <1>4. call'[t] = [call[t] EXCEPT !.seen = rec, !.read = now]
    BY <1>1 DEF IdempotencyInv, IdemTypeOK
  <1>5. /\ call'[t] \in Call /\ call'[t].id = call[t].id /\ call'[t].request = call[t].request
        /\ call'[t].seen = rec /\ call'[t].read = now
    BY <1>4, <1>c DEF Call
  <1>6. IdemTypeOK'
    <2>1. call' \in [Threads -> Call]
      BY <1>1, <1>3, <1>5 DEF IdempotencyInv, IdemTypeOK
    <2>2. pc' \in [Threads -> Places]
      BY <1>2 DEF IdempotencyInv, IdemTypeOK, Places
    <2> QED
      BY <1>1, <2>1, <2>2 DEF IdempotencyInv, IdemTypeOK
  <1>7. Looking(t)' => SeenOK(t)'
    <2> SUFFICES ASSUME rec # None PROVE SeenOK(t)'
      BY <1>5 DEF Looking
    <2>0. \A e \in keyEffects : e.id = rec.id => e.began = rec.created
      BY DEF IdempotencyInv, RecordKnows
    <2>1. \A u \in Threads : (Holding(u)' <=> Holding(u)) /\ (Holding(u) => call'[u] = call[u])
      BY <1>1, <1>3 DEF Holding, Fresh
    <2>2. ASSUME rec.status = "processing" PROVE now <= rec.created + DispatchTime \/ Dead(rec.id)'
      <3>1. CASE \E u \in Threads : Holding(u) /\ call[u].id = rec.id
        BY <3>1 DEF IdempotencyInv, Owned
      <3>2. CASE \A u \in Threads : Holding(u) => call[u].id # rec.id
        <4>1. \A e \in keyEffects : e.id = rec.id => e.end = "left"
          BY <3>2, <2>2 DEF IdempotencyInv, RecordKnows
        <4> QED
          BY <4>1, <3>2, <2>1, <1>1 DEF Dead
      <3> QED
        BY <3>1, <3>2
    <2>3. now <= now + ReadTime
      BY Times DEF IdempotencyInv
    <2> QED
      BY <1>1, <1>3, <1>5, <2>0, <2>2, <2>3 DEF SeenOK
  <1> QED
    BY <1>1, <1>3, <1>5, <1>6, <1>7, LookKeeps DEF Fresh

\* A record that is to be deleted is past the time it protects.
LEMMA DropKeeps ==
    ASSUME IdempotencyInv, NEW t \in Threads, pc[t] \in {"decide", "raced"}, call[t].seen # None,
           IsExpired(call[t].seen) \/ IsStaleProcessing(call[t].seen),
           NEW second \in BOOLEAN, Drop(t, second), UNCHANGED <<now, rec, keyEffects, calls>>
    PROVE  IdempotencyInv'
  <1> DEFINE seen == call[t].seen
  <1>1. /\ call' = [call EXCEPT ![t].second = second] /\ pc' = [pc EXCEPT ![t] = "delete"]
        /\ UNCHANGED answers
    BY DEF Drop, MoveTo
  <1>2. pc'[t] = "delete" /\ \A u \in Threads \ {t} : pc'[u] = pc[u] /\ call'[u] = call[u]
    BY <1>1 DEF IdempotencyInv, IdemTypeOK
  <1>3. call[t] \in Call /\ call'[t] = [call[t] EXCEPT !.second = second]
    BY <1>1 DEF IdempotencyInv, IdemTypeOK
  <1>4. /\ call'[t] \in Call /\ call'[t].id = call[t].id /\ call'[t].request = call[t].request
        /\ call'[t].seen = seen
    BY <1>3 DEF Call
  <1>5. IdemTypeOK'
    <2>1. call' \in [Threads -> Call]
      BY <1>1, <1>2, <1>4 DEF IdempotencyInv, IdemTypeOK
    <2>2. pc' \in [Threads -> Places]
      BY <1>1 DEF IdempotencyInv, IdemTypeOK, Places
    <2> QED
      BY <1>1, <2>1, <2>2 DEF IdempotencyInv, IdemTypeOK
  <1>6. Looking(t) /\ SeenOK(t)
    BY DEF Looking, IdempotencyInv, SeenKnows
  <1>7. /\ now > seen.created + ProcTTL
        /\ \A e \in keyEffects : e.id = seen.id /\ e.end # "late" => now > e.began + Bound(e)
    <2>s. seen.created \in Nat
      BY SeenFields DEF IdempotencyInv
    <2>t. /\ now \in Nat
          /\ TTL \in Nat /\ ProcTTL \in Nat /\ DispatchTime \in Nat /\ ReadTime \in Nat
          /\ DispatchTime + ReadTime <= ProcTTL /\ ProcTTL <= TTL
      BY Times DEF IdempotencyInv
    <2>f. /\ call[t].read \in Nat
          /\ \A e \in keyEffects : e.began \in Nat /\ Bound(e) \in Nat /\ Bound(e) <= TTL
      BY CallFields, EffectFields DEF IdempotencyInv
    <2>b. \A e \in keyEffects : e.id = seen.id => e.began = seen.created
      BY <1>6 DEF SeenOK
    <2>1. CASE now > seen.created + TTL
      BY <2>1, <2>b, <2>f, <2>s, <2>t
    <2>2. CASE seen.status = "processing" /\ now > seen.created + ProcTTL
      <3>1. now <= call[t].read + ReadTime /\ (call[t].read <= seen.created + DispatchTime \/ Dead(seen.id))
        BY <1>6, <2>2 DEF SeenOK
      <3>2. Dead(seen.id)
        BY <3>1, <2>2, <2>f, <2>s, <2>t
      <3>3. \A e \in keyEffects : e.id = seen.id /\ e.end # "late" => Bound(e) = ProcTTL
        BY <3>2 DEF Dead, Bound
      <3> QED
        BY <2>2, <2>b, <3>3
    <2> QED
      BY <2>1, <2>2 DEF IsExpired, IsStaleProcessing
  <1> HIDE DEF seen
  <1>8. SeenOK(t)'
    BY <1>2, <1>4, <1>6, <1>7 DEF SeenOK, Bound, seen
  <1> QED
    BY <1>2, <1>4, <1>5, <1>6, <1>8, LookKeeps DEF Fresh, seen

\* What run() makes of its reads: it leaves, deletes, or goes on to its insert.
LEMMA DecideKeeps == ASSUME IdempotencyInv, NEW t \in Threads, Decide(t) \/ Raced(t) PROVE IdempotencyInv'
  <1> DEFINE seen == call[t].seen
  <1>1. /\ UNCHANGED <<now, rec, keyEffects, calls>> /\ pc[t] \in {"decide", "raced"}
        /\ pc[t] # "idle" /\ ~Holding(t) /\ Fresh(t)
    BY DEF Decide, Raced, Holding, Fresh
  <1>2. ASSUME seen # None, Resolve(t) \/ Busy(t) PROVE IdempotencyInv'
    <2>1. seen.response \in Nat
      BY <1>2, SeenFields DEF IdempotencyInv
    <2> QED
      BY <1>1, <1>2, <2>1, LeaveKeeps DEF Resolve, Busy, Statuses
  <1>3. ASSUME NEW status \in {"busy", "error"}, Leave(t, status, 0) PROVE IdempotencyInv'
    BY <1>1, <1>3, LeaveKeeps DEF Statuses
  <1>4. CASE seen = None /\ MoveTo(t, "begin") /\ UNCHANGED <<call, answers>>
    <2>1. pc'[t] = "begin" /\ pc' \in [Threads -> Places] /\ \A u \in Threads \ {t} : pc'[u] = pc[u]
      BY <1>4 DEF MoveTo, IdempotencyInv, IdemTypeOK, Places
    <2>2. IdemTypeOK'
      BY <1>1, <1>4, <2>1 DEF IdempotencyInv, IdemTypeOK
    <2> QED
      BY <1>1, <1>4, <2>1, <2>2, LookKeeps DEF Fresh, Looking
  <1>5. ASSUME seen # None, IsExpired(seen) \/ IsStaleProcessing(seen), NEW second \in BOOLEAN, Drop(t, second)
        PROVE  IdempotencyInv'
    BY <1>1, <1>5, DropKeeps
  <1> HIDE DEF seen
  <1> QED
    BY <1>2, <1>3, <1>4, <1>5 DEF Decide, Raced, seen

-----------------------------------------------------------------------------
(* Steps that change the row, the effects or the clock *)

\* A new call has a number of its own.
LEMMA BeginsKeeps == ASSUME IdempotencyInv, NEW t \in Threads, NEW r \in Requests, Begins(t, r) PROVE IdempotencyInv'
  <1> DEFINE new == [NoCall EXCEPT !.request = r, !.id = calls + 1]
  <1>1. /\ pc[t] = "idle" /\ calls < MaxCalls /\ calls' = calls + 1
        /\ call' = [call EXCEPT ![t] = new] /\ pc' = [pc EXCEPT ![t] = "get"]
        /\ UNCHANGED <<now, rec, keyEffects, answers>>
    BY DEF Begins, MoveTo
  <1>m. MaxCalls \in Nat /\ calls \in Nat
    BY Times, IdempotencyAssumption DEF IdempotencyInv
  <1>2. calls \in Nat /\ calls + 1 \in 0 .. MaxCalls /\ calls + 1 \in Nat
    BY <1>1, <1>m
  <1>n. NoCall \in [request: Requests \cup {None}, seen: Record \cup {None}, second: BOOLEAN,
                     id: Nat, began: Nat, read: Nat]
    BY NoCallTyped DEF Call
  <1>3. new \in Call /\ new.id = calls + 1 /\ new.request = r
    <2> HIDE DEF NoCall
    <2> QED
      BY <1>2, <1>n DEF Call
  <1> HIDE DEF new
  <1>4. /\ pc'[t] = "get" /\ call'[t] = new
        /\ \A u \in Threads \ {t} : pc'[u] = pc[u] /\ call'[u] = call[u]
    BY <1>1 DEF IdempotencyInv, IdemTypeOK
  <1>5. IdemTypeOK'
    <2>1. call' \in [Threads -> Call] /\ pc' \in [Threads -> Places]
      BY <1>1, <1>3 DEF IdempotencyInv, IdemTypeOK, Places
    <2> QED
      BY <1>1, <1>2, <2>1 DEF IdempotencyInv, IdemTypeOK
  <1>6. \A u \in Threads : /\ Holding(u)' <=> Holding(u)
                           /\ Holding(u) => call'[u] = call[u] /\ pc'[u] = pc[u]
                           /\ Looking(u)' <=> Looking(u)
                           /\ Looking(u) => call'[u] = call[u] /\ pc'[u] = pc[u]
                           /\ Fresh(u)' <=> Fresh(u) \/ u = t
                           /\ pc'[u] # "idle" <=> pc[u] # "idle" \/ u = t
    BY <1>1, <1>4 DEF Holding, Looking, Fresh
  <1>7. /\ rec # None => rec.id # calls + 1 /\ rec.id \in 1 .. calls'
        /\ \A e \in keyEffects : e.id # calls + 1 /\ e.id \in 1 .. calls'
        /\ \A u \in Threads : Looking(u) => call[u].seen.id # calls + 1 /\ call[u].seen.id \in 1 .. calls'
        /\ \A u \in Threads : pc[u] # "idle" => call[u].id # calls + 1 /\ call[u].id \in 1 .. calls'
    BY <1>1, <1>2 DEF IdempotencyInv, Numbered
  <1>8. Numbered'
    <2>1. \A u \in Threads : pc'[u] # "idle" => call'[u].id \in 1 .. calls' /\ call'[u].request \in Requests
      BY <1>1, <1>2, <1>3, <1>4, <1>6, <1>7 DEF IdempotencyInv, Numbered
    <2>2. \A u, v \in Threads : pc'[u] # "idle" /\ pc'[v] # "idle" /\ call'[u].id = call'[v].id => u = v
      BY <1>3, <1>4, <1>6, <1>7 DEF IdempotencyInv, Numbered
    <2>3. \A u \in Threads : Fresh(u)' =>
             /\ rec # None => rec.id # call'[u].id
             /\ \A e \in keyEffects : e.id # call'[u].id
             /\ \A v \in Threads : Looking(v) => call[v].seen.id # call'[u].id
      BY <1>3, <1>4, <1>6, <1>7 DEF IdempotencyInv, Numbered
    <2> QED
      BY <1>1, <1>6, <1>7, <2>1, <2>2, <2>3 DEF Numbered
  <1>9. Owned'
    <2>1. ASSUME NEW u \in Threads, Holding(u)'
          PROVE  /\ rec' # None /\ rec'.id = call'[u].id
                 /\ rec'.status = "processing" /\ rec'.created = call'[u].began
                 /\ now' <= call'[u].began + DispatchTime
                 /\ \A e \in keyEffects' : e.id = call'[u].id => e.end = "" /\ pc'[u] # "dispatch"
      <3>1. Holding(u) /\ call'[u] = call[u] /\ pc'[u] = pc[u]
        BY <1>6, <2>1
      <3> QED
        BY <3>1, <1>1 DEF IdempotencyInv, Owned
    <2> QED
      BY <2>1 DEF Owned
  <1>10. RecordKnows' /\ EffectsKnow' /\ OnceUnlessLate'
    BY <1>1, <1>6 DEF IdempotencyInv, RecordKnows, EffectsKnow, OnceUnlessLate, Bound
  <1>11. SeenKnows'
    <2>1. \A id : Dead(id) => Dead(id)'
      BY <1>1, <1>6 DEF Dead
    <2> QED
      BY <1>1, <1>6, <2>1 DEF IdempotencyInv, SeenKnows, SeenOK, Bound
  <1>12. DeleteHasSeen'
    BY <1>4 DEF IdempotencyInv, DeleteHasSeen
  <1> QED
    BY <1>5, <1>8, <1>9, <1>10, <1>11, <1>12 DEF IdempotencyInv

\* The delete, by primary key, hits the record that was judged or none: never
\* the record of a thread at work.
LEMMA DeleteKeeps == ASSUME IdempotencyInv, NEW t \in Threads, Delete(t) PROVE IdempotencyInv'
  <1> DEFINE seen == call[t].seen
             hits == rec # None /\ rec.id = seen.id
  <1>1. /\ pc[t] = "delete" /\ pc' = [pc EXCEPT ![t] = "begin"]
        /\ UNCHANGED <<now, call, keyEffects, answers, calls>>
    BY DEF Delete, MoveTo
  <1>r. (hits /\ rec' = None) \/ (~hits /\ rec' = rec)
    BY DEF Delete
  <1>2. pc'[t] = "begin" /\ \A u \in Threads \ {t} : pc'[u] = pc[u]
    BY <1>1 DEF IdempotencyInv, IdemTypeOK
  <1>3. Looking(t) /\ SeenOK(t)
    BY <1>1 DEF Looking, IdempotencyInv, SeenKnows, DeleteHasSeen
  <1>4. IdemTypeOK'
    <2>1. pc' \in [Threads -> Places]
      BY <1>1 DEF IdempotencyInv, IdemTypeOK, Places
    <2> QED
      BY <1>1, <1>r, <2>1 DEF IdempotencyInv, IdemTypeOK
  <1>5. hits => /\ \A u \in Threads : ~Holding(u)
                /\ \A e \in keyEffects : e.id = rec.id /\ e.end # "late" => now > e.began + Bound(e)
    <2> SUFFICES ASSUME hits PROVE /\ \A u \in Threads : ~Holding(u)
                                   /\ \A e \in keyEffects : e.id = rec.id /\ e.end # "late" => now > e.began + Bound(e)
      OBVIOUS
    <2>1. now > rec.created + ProcTTL
      BY <1>1, <1>3 DEF SeenOK
    <2>2. \A u \in Threads : Holding(u) => now <= rec.created + DispatchTime
      BY DEF IdempotencyInv, Owned
    <2>3. rec.created \in Nat /\ now \in Nat /\ DispatchTime \in Nat /\ ReadTime \in Nat /\ ProcTTL \in Nat
          /\ DispatchTime + ReadTime <= ProcTTL
      BY Times, RowFields DEF IdempotencyInv
    <2>4. ~(now <= rec.created + DispatchTime)
      BY <2>1, <2>3
    <2>5. \A u \in Threads : ~Holding(u)
      BY <2>2, <2>4
    <2> QED
      BY <1>1, <1>3, <2>5 DEF SeenOK
  <1> HIDE DEF hits, seen
  <1>6. \A u \in Threads : /\ Holding(u)' <=> Holding(u)
                           /\ Holding(u) => pc'[u] = pc[u]
                           /\ Looking(u)' => Looking(u) /\ pc'[u] = pc[u]
                           /\ Fresh(u)' <=> Fresh(u)
                           /\ pc'[u] # "idle" <=> pc[u] # "idle"
                           /\ pc'[u] = "delete" => pc[u] = "delete"
    BY <1>1, <1>2 DEF Holding, Looking, Fresh
  <1>7. Numbered'
    BY <1>1, <1>r, <1>6 DEF IdempotencyInv, Numbered
  <1>8. Owned'
    <2>1. ASSUME NEW u \in Threads, Holding(u)'
          PROVE  /\ rec' # None /\ rec'.id = call'[u].id
                 /\ rec'.status = "processing" /\ rec'.created = call'[u].began
                 /\ now' <= call'[u].began + DispatchTime
                 /\ \A e \in keyEffects' : e.id = call'[u].id => e.end = "" /\ pc'[u] # "dispatch"
      <3>1. Holding(u) /\ call'[u] = call[u] /\ pc'[u] = pc[u] /\ rec' = rec
        BY <1>1, <1>5, <1>6, <1>r, <2>1
      <3> QED
        BY <3>1, <1>1 DEF IdempotencyInv, Owned
    <2> QED
      BY <2>1 DEF Owned
  <1>9. RecordKnows'
    BY <1>1, <1>6, <1>r DEF IdempotencyInv, RecordKnows, Bound
  <1>10. EffectsKnow'
    BY <1>1, <1>5, <1>r DEF IdempotencyInv, EffectsKnow, Bound
  <1>11. OnceUnlessLate' /\ DeleteHasSeen'
    BY <1>1, <1>6 DEF IdempotencyInv, OnceUnlessLate, DeleteHasSeen
  <1>12. SeenKnows'
    <2>1. \A id : Dead(id) => Dead(id)'
      BY <1>1, <1>6 DEF Dead
    <2> QED
      BY <1>1, <1>6, <1>r, <2>1 DEF IdempotencyInv, SeenKnows, SeenOK, Bound
  <1> QED
    BY <1>4, <1>7, <1>8, <1>9, <1>10, <1>11, <1>12 DEF IdempotencyInv

\* The insert: with no row there is nobody at work, and every effect that counts
\* is over.
LEMMA BeginKeeps == ASSUME IdempotencyInv, NEW t \in Threads, Begin(t) PROVE IdempotencyInv'
  <1>1. pc[t] = "begin" /\ Fresh(t) /\ ~Holding(t) /\ UNCHANGED <<now, keyEffects, answers, calls>>
    BY DEF Begin, Fresh, Holding
  <1>2. CASE rec # None
    <2>1. pc' = [pc EXCEPT ![t] = "reread"] /\ UNCHANGED <<rec, call>>
      BY <1>2 DEF Begin, MoveTo
    <2>2. pc'[t] = "reread" /\ pc' \in [Threads -> Places] /\ \A u \in Threads \ {t} : pc'[u] = pc[u]
      BY <2>1 DEF IdempotencyInv, IdemTypeOK, Places
    <2>3. IdemTypeOK'
      BY <1>1, <2>1, <2>2 DEF IdempotencyInv, IdemTypeOK
    <2> QED
      BY <1>1, <2>1, <2>2, <2>3, LookKeeps DEF Fresh, Looking
  <1>3. CASE rec = None
    <2> DEFINE new == [id |-> call[t].id, request |-> call[t].request, status |-> "processing",
                       response |-> 0, created |-> now]
    <2>1. /\ rec' = new /\ pc' = [pc EXCEPT ![t] = "dispatch"]
          /\ call' = [call EXCEPT ![t].began = now]
      BY <1>3 DEF Begin, MoveTo
    <2>f. /\ call[t] \in Call /\ call[t].id \in 1 .. calls /\ call[t].id \in Nat
          /\ call[t].request \in Requests /\ now \in Nat
      BY <1>1, Times, CallFields DEF IdempotencyInv, Numbered
    <2>2. /\ new \in Record /\ new # None /\ new.id = call[t].id /\ new.status = "processing"
          /\ new.created = now
      BY <2>f, IdempotencyAssumption DEF Record
    <2> HIDE DEF new
    <2>3. /\ pc'[t] = "dispatch" /\ call'[t] = [call[t] EXCEPT !.began = now]
          /\ \A u \in Threads \ {t} : pc'[u] = pc[u] /\ call'[u] = call[u]
      BY <2>1 DEF IdempotencyInv, IdemTypeOK
    <2>4. /\ call'[t] \in Call /\ call'[t].id = call[t].id /\ call'[t].request = call[t].request
          /\ call'[t].began = now
      BY <2>3, <2>f DEF Call
    <2>5. IdemTypeOK'
      <3>1. call' \in [Threads -> Call]
        BY <2>1, <2>3, <2>4 DEF IdempotencyInv, IdemTypeOK
      <3>2. pc' \in [Threads -> Places]
        BY <2>1 DEF IdempotencyInv, IdemTypeOK, Places
      <3> QED
        BY <1>1, <2>1, <2>2, <3>1, <3>2 DEF IdempotencyInv, IdemTypeOK
    <2>6. \A u \in Threads : ~Holding(u)
      BY <1>3 DEF IdempotencyInv, Owned
    <2>7. \A u \in Threads : /\ Holding(u)' <=> u = t
                             /\ Fresh(u)' => Fresh(u) /\ u # t
                             /\ Looking(u)' => Looking(u) /\ u # t
                             /\ pc'[u] # "idle" => pc[u] # "idle"
                             /\ pc'[u] = "delete" => pc[u] = "delete" /\ u # t
                             /\ call'[u].id = call[u].id /\ call'[u].request = call[u].request
      BY <1>1, <2>3, <2>4, <2>6 DEF Holding, Fresh, Looking
    <2>8. /\ \A e \in keyEffects : e.id # call[t].id
          /\ \A u \in Threads : Looking(u) => call[u].seen.id # call[t].id
          /\ \A u \in Threads \ {t} : pc[u] # "idle" => call[u].id # call[t].id
      BY <1>1 DEF IdempotencyInv, Numbered
    <2>9. Numbered'
      <3>1. \A u \in Threads : Fresh(u)' => rec'.id # call'[u].id
        BY <2>1, <2>2, <2>7, <2>8 DEF Fresh
      <3>2. rec'.id \in 1 .. calls'
        BY <1>1, <2>1, <2>2, <2>f
      <3>3. \A u \in Threads : Looking(u)' => Looking(u) /\ call'[u].seen = call[u].seen
        BY <2>3, <2>7
      <3> QED
        BY <1>1, <2>7, <3>1, <3>2, <3>3 DEF IdempotencyInv, Numbered
    <2>10. Owned'
      <3>1. now <= now + DispatchTime
        BY Times DEF IdempotencyInv
      <3> QED
        BY <1>1, <2>1, <2>2, <2>4, <2>7, <2>8, <3>1 DEF Owned
    <2>11. RecordKnows' /\ EffectsKnow'
      <3>1. now <= now
        BY <2>f
      <3>2. \A e \in keyEffects : e.began <= now /\ (e.end # "late" => now > e.began + Bound(e))
        BY <1>3 DEF IdempotencyInv, EffectsKnow
      <3> QED
        BY <1>1, <2>1, <2>2, <2>8, <3>1, <3>2 DEF RecordKnows, EffectsKnow, Bound
    <2>12. SeenKnows'
      <3>1. \A id : id # call[t].id /\ Dead(id) => Dead(id)'
        BY <1>1, <2>7 DEF Dead
      <3>2. ASSUME NEW u \in Threads, Looking(u)' PROVE SeenOK(u)'
        <4>1. Looking(u) /\ SeenOK(u) /\ pc'[u] = pc[u] /\ call'[u] = call[u]
          BY <2>3, <2>7, <3>2 DEF IdempotencyInv, SeenKnows
        <4>2. rec'.id # call[u].seen.id /\ call[u].seen.id # call[t].id
          BY <2>1, <2>2, <2>8, <4>1
        <4> QED
          BY <1>1, <3>1, <4>1, <4>2 DEF SeenOK, Bound
      <3> QED
        BY <3>2 DEF SeenKnows
    <2>13. DeleteHasSeen' /\ OnceUnlessLate'
      BY <1>1, <2>3, <2>7 DEF IdempotencyInv, DeleteHasSeen, OnceUnlessLate
    <2> QED
      BY <2>5, <2>9, <2>10, <2>11, <2>12, <2>13 DEF IdempotencyInv
  <1> QED
    BY <1>2, <1>3

-----------------------------------------------------------------------------
(* Steps of the thread that holds the record *)

\* It is the only one at work, the record is its own, every other effect is
\* earlier and over, and nobody is about to delete the record.
LEMMA HolderAlone ==
    ASSUME IdempotencyInv, NEW t \in Threads, Holding(t)
    PROVE  /\ rec # None /\ rec \in Record /\ rec.id = call[t].id /\ rec.status = "processing"
           /\ rec.created = call[t].began /\ call[t].began \in Nat /\ call[t].began <= now
           /\ pc[t] # "idle" /\ call[t].id \in 1 .. calls /\ call[t].id \in Nat /\ call[t].request \in Requests
           /\ \A u \in Threads \ {t} : ~Holding(u) /\ (pc[u] # "idle" => call[u].id # call[t].id)
           /\ \A e \in keyEffects : e.id = call[t].id => e.end = "" /\ e.began = call[t].began /\ pc[t] # "dispatch"
           /\ \A e \in keyEffects : e.id # call[t].id => e.began <= call[t].began
           /\ \A e \in keyEffects : e.id # call[t].id /\ e.end # "late" =>
                 call[t].began > e.began + Bound(e) /\ now > e.began + Bound(e)
           /\ \A u \in Threads : pc[u] = "delete" => call[u].seen.id # call[t].id
  <1>1. /\ rec # None /\ rec.id = call[t].id /\ rec.status = "processing" /\ rec.created = call[t].began
        /\ now <= call[t].began + DispatchTime
        /\ \A e \in keyEffects : e.id = call[t].id => e.end = "" /\ pc[t] # "dispatch"
    BY DEF IdempotencyInv, Owned
  <1>2. rec \in Record /\ call[t].began \in Nat /\ call[t].id \in Nat
    BY <1>1, RowFields, CallFields DEF IdempotencyInv
  <1>3. /\ call[t].began <= now
        /\ \A e \in keyEffects : e.id = call[t].id => e.began = call[t].began
        /\ \A e \in keyEffects : e.id # call[t].id => e.began <= call[t].began
        /\ \A e \in keyEffects : e.id # call[t].id /\ e.end # "late" => call[t].began > e.began + Bound(e)
    BY <1>1 DEF IdempotencyInv, RecordKnows
  <1>4. pc[t] # "idle" /\ call[t].id \in 1 .. calls /\ call[t].request \in Requests
    BY DEF Holding, IdempotencyInv, Numbered
  <1>5. \A u \in Threads \ {t} : pc[u] # "idle" => call[u].id # call[t].id
    BY <1>4 DEF IdempotencyInv, Numbered
  <1>6. \A u \in Threads \ {t} : ~Holding(u)
    <2> SUFFICES ASSUME NEW u \in Threads \ {t}, Holding(u) PROVE FALSE
      OBVIOUS
    <2>1. pc[u] # "idle" /\ rec.id = call[u].id
      BY DEF Holding, IdempotencyInv, Owned
    <2> QED
      BY <1>1, <1>5, <2>1
  <1>7. ASSUME NEW e \in keyEffects, e.id # call[t].id, e.end # "late" PROVE now > e.began + Bound(e)
    <2>1. call[t].began > e.began + Bound(e)
      BY <1>3, <1>7
    <2>2. e.began \in Nat /\ Bound(e) \in Nat /\ now \in Nat
      BY EffectFields, Times DEF IdempotencyInv
    <2> QED
      BY <1>2, <1>3, <2>1, <2>2
  <1>8. ASSUME NEW u \in Threads, pc[u] = "delete", call[u].seen.id = call[t].id PROVE FALSE
    <2>1. Looking(u)
      BY <1>8 DEF IdempotencyInv, DeleteHasSeen, Looking
    <2>2. now > call[t].began + ProcTTL
      BY <1>1, <1>8, <2>1 DEF IdempotencyInv, SeenKnows, SeenOK
    <2>3. now \in Nat /\ DispatchTime \in Nat /\ ReadTime \in Nat /\ ProcTTL \in Nat
          /\ DispatchTime + ReadTime <= ProcTTL
      BY Times DEF IdempotencyInv
    <2>4. now <= call[t].began + DispatchTime /\ call[t].began \in Nat
      BY <1>1, <1>2
    <2> QED
      BY <2>2, <2>3, <2>4
  <1> QED
    BY <1>1, <1>2, <1>3, <1>4, <1>5, <1>6, <1>7, <1>8

\* dispatch() returns: its effect is the only one of its time.
LEMMA DispatchKeeps == ASSUME IdempotencyInv, NEW t \in Threads, Dispatch(t) PROVE IdempotencyInv'
  <1> DEFINE new == Effect(t, "")
  <1>1. /\ pc[t] = "dispatch" /\ Holding(t) /\ pc' = [pc EXCEPT ![t] = "complete"]
        /\ keyEffects' = keyEffects \cup {new} /\ UNCHANGED <<now, rec, call, answers, calls>>
    BY DEF Dispatch, MoveTo, Holding
  <1>h. /\ rec # None /\ rec.id = call[t].id /\ rec.status = "processing"
        /\ rec.created = call[t].began /\ call[t].began \in Nat /\ call[t].began <= now
        /\ call[t].id \in 1 .. calls /\ call[t].id \in Nat /\ call[t].request \in Requests
        /\ \A u \in Threads \ {t} : ~Holding(u) /\ (pc[u] # "idle" => call[u].id # call[t].id)
        /\ \A e \in keyEffects : e.id # call[t].id
        /\ \A e \in keyEffects : e.began <= call[t].began
        /\ \A e \in keyEffects : e.end # "late" => call[t].began > e.began + Bound(e)
        /\ \A u \in Threads : pc[u] = "delete" => call[u].seen.id # call[t].id
    BY <1>1, HolderAlone
  <1>n. /\ new \in [id: Nat, request: Requests, began: Nat, end: {"", "left", "late"}]
        /\ new.id = call[t].id /\ new.began = call[t].began /\ new.end = ""
    BY <1>h DEF Effect
  <1> HIDE DEF new
  <1>2. pc'[t] = "complete" /\ \A u \in Threads \ {t} : pc'[u] = pc[u]
    BY <1>1 DEF IdempotencyInv, IdemTypeOK
  <1>3. IdemTypeOK'
    <2>1. pc' \in [Threads -> Places]
      BY <1>1 DEF IdempotencyInv, IdemTypeOK, Places
    <2> QED
      BY <1>1, <1>n, <2>1 DEF IdempotencyInv, IdemTypeOK
  <1>4. \A u \in Threads : /\ Holding(u)' <=> u = t
                           /\ Fresh(u)' => Fresh(u) /\ u # t
                           /\ Looking(u)' => Looking(u) /\ u # t
                           /\ pc'[u] # "idle" => pc[u] # "idle"
                           /\ pc'[u] = "delete" => pc[u] = "delete"
    BY <1>1, <1>2, <1>h DEF Holding, Fresh, Looking
  <1>5. Numbered'
    <2>1. ASSUME NEW u \in Threads, Fresh(u)' PROVE \A e \in keyEffects' : e.id # call[u].id
      <3>1. Fresh(u) /\ u # t /\ pc[u] # "idle"
        BY <1>4, <2>1 DEF Fresh
      <3>2. new.id # call[u].id
        BY <1>h, <1>n, <3>1
      <3> QED
        BY <1>1, <3>1, <3>2 DEF IdempotencyInv, Numbered
    <2>2. \A e \in keyEffects' : e.id \in 1 .. calls
      BY <1>1, <1>h, <1>n DEF IdempotencyInv, Numbered
    <2> QED
      BY <1>1, <1>4, <2>1, <2>2 DEF IdempotencyInv, Numbered
  <1>6. Owned'
    <2>1. now <= call[t].began + DispatchTime
      BY <1>1 DEF IdempotencyInv, Owned
    <2>2. \A e \in keyEffects' : e.id = call[t].id => e.end = ""
      BY <1>1, <1>h, <1>n
    <2> QED
      BY <1>1, <1>2, <1>4, <1>h, <2>1, <2>2 DEF Owned
  <1>7. RecordKnows'
    <2>1. Holding(t)' /\ rec'.id = call'[t].id
      BY <1>1, <1>4, <1>h
    <2> QED
      BY <1>1, <1>h, <1>n, <2>1 DEF RecordKnows, Bound
  <1>8. EffectsKnow'
    BY <1>1, <1>h, <1>n DEF IdempotencyInv, EffectsKnow, Bound
  <1>9. OnceUnlessLate'
    <2>1. ASSUME NEW f \in keyEffects PROVE ~(new.began < f.began \/ (new.began = f.began /\ f.end # "late"))
      <3>1. f.began \in Nat /\ Bound(f) \in Nat /\ f.began <= new.began /\ new.began \in Nat
        BY <1>h, <1>n, EffectFields DEF IdempotencyInv
      <3>2. f.end # "late" => new.began > f.began + Bound(f)
        BY <1>h, <1>n
      <3> QED
        BY <3>1, <3>2
    <2>2. \A e \in keyEffects : e.end # "late" => new.began > e.began + Bound(e)
      BY <1>h, <1>n
    <2> QED
      BY <1>1, <2>1, <2>2 DEF IdempotencyInv, OnceUnlessLate, Bound
  <1>10. SeenKnows'
    <2>1. \A id : Dead(id) => id # call[t].id
      BY <1>1 DEF Dead
    <2>2. \A id : Dead(id) => Dead(id)'
      <3> SUFFICES ASSUME NEW id, Dead(id) PROVE Dead(id)'
        OBVIOUS
      <3>1. id # call[t].id
        BY <2>1
      <3>2. \A e \in keyEffects' : e.id = id => e.end \in {"late", "left"}
        BY <1>1, <1>n, <3>1 DEF Dead
      <3>3. \A u \in Threads : Holding(u)' => call'[u].id # id
        BY <1>1, <1>4, <3>1
      <3> QED
        BY <3>2, <3>3 DEF Dead
    <2>3. ASSUME NEW u \in Threads, Looking(u)' PROVE SeenOK(u)'
      <3>1. Looking(u) /\ SeenOK(u) /\ pc'[u] = pc[u] /\ call'[u] = call[u]
        BY <1>1, <1>2, <1>4, <2>3 DEF IdempotencyInv, SeenKnows
      <3>2. \A e \in keyEffects' : e.id = call[u].seen.id => e.began = call[u].seen.created
        BY <1>1, <1>h, <1>n, <3>1 DEF SeenOK
      <3>3. pc[u] = "delete" => new.id # call[u].seen.id
        BY <1>h, <1>n
      <3> QED
        BY <1>1, <2>2, <3>1, <3>2, <3>3 DEF SeenOK, Bound
    <2> QED
      BY <2>3 DEF SeenKnows
  <1>11. DeleteHasSeen'
    BY <1>1, <1>4 DEF IdempotencyInv, DeleteHasSeen
  <1> QED
    BY <1>3, <1>5, <1>6, <1>7, <1>8, <1>9, <1>10, <1>11 DEF IdempotencyInv

\* dispatch() raises, before its effect or after it: the record is discarded,
\* and an effect that stands without a record is a late one.
LEMMA DiscardKeeps ==
    ASSUME IdempotencyInv, NEW t \in Threads, pc[t] = "dispatch", Discard(t),
           keyEffects' \in {keyEffects, keyEffects \cup {Effect(t, "late")}}
    PROVE  IdempotencyInv'
  <1> DEFINE new == Effect(t, "late")
  <1>0. Holding(t)
    BY DEF Holding
  <1>h. /\ rec # None /\ rec.id = call[t].id /\ rec.created = call[t].began
        /\ call[t].began \in Nat /\ call[t].began <= now
        /\ pc[t] # "idle" /\ call[t].id \in 1 .. calls /\ call[t].id \in Nat /\ call[t].request \in Requests
        /\ \A u \in Threads \ {t} : ~Holding(u) /\ (pc[u] # "idle" => call[u].id # call[t].id)
        /\ \A e \in keyEffects : e.id # call[t].id
        /\ \A e \in keyEffects : e.end # "late" => call[t].began > e.began + Bound(e) /\ now > e.began + Bound(e)
    BY <1>0, HolderAlone
  <1>1. rec' = None /\ Leave(t, "raised", 0) /\ UNCHANGED <<now, calls>>
    BY <1>h DEF Discard
  <1>2. /\ pc' \in [Threads -> Places] /\ call' \in [Threads -> Call]
        /\ answers' \subseteq [request: Requests, status: Statuses, response: Nat]
        /\ pc' = [pc EXCEPT ![t] = "idle"] /\ call' = [call EXCEPT ![t] = NoCall]
    <2>1. "raised" \in Statuses /\ 0 \in Nat
      BY DEF Statuses
    <2> QED
      BY <1>1, <1>h, <2>1, LeaveTyped DEF IdempotencyInv
  <1>n. /\ new \in [id: Nat, request: Requests, began: Nat, end: {"", "left", "late"}]
        /\ new.id = call[t].id /\ new.began = call[t].began /\ new.end = "late"
    BY <1>h DEF Effect
  <1>e. keyEffects \subseteq keyEffects' /\ \A e \in keyEffects' : e \in keyEffects \/ e = new
    OBVIOUS
  <1> HIDE DEF new
  <1>3. pc'[t] = "idle" /\ \A u \in Threads \ {t} : pc'[u] = pc[u] /\ call'[u] = call[u]
    BY <1>2 DEF IdempotencyInv, IdemTypeOK
  <1>4. IdemTypeOK'
    BY <1>1, <1>2, <1>e, <1>n DEF IdempotencyInv, IdemTypeOK
  <1>5. \A u \in Threads : /\ ~Holding(u)'
                           /\ Fresh(u)' => Fresh(u) /\ u # t /\ call'[u] = call[u]
                           /\ Looking(u)' => Looking(u) /\ call'[u] = call[u] /\ pc'[u] = pc[u]
                           /\ pc'[u] # "idle" => pc[u] # "idle" /\ u # t /\ call'[u] = call[u]
                           /\ pc'[u] = "delete" => pc[u] = "delete" /\ call'[u] = call[u]
    BY <1>3, <1>h DEF Holding, Fresh, Looking
  <1>6. Numbered'
    <2>1. ASSUME NEW u \in Threads, Fresh(u)' PROVE \A e \in keyEffects' : e.id # call'[u].id
      <3>1. Fresh(u) /\ u # t /\ pc[u] # "idle" /\ call'[u] = call[u]
        BY <1>5, <2>1 DEF Fresh
      <3>2. new.id # call[u].id
        BY <1>h, <1>n, <3>1
      <3> QED
        BY <1>e, <3>1, <3>2 DEF IdempotencyInv, Numbered
    <2>2. \A e \in keyEffects' : e.id \in 1 .. calls
      BY <1>e, <1>h, <1>n DEF IdempotencyInv, Numbered
    <2> QED
      BY <1>1, <1>5, <2>1, <2>2 DEF IdempotencyInv, Numbered
  <1>7. Owned' /\ RecordKnows'
    BY <1>1, <1>5 DEF Owned, RecordKnows
  <1>8. EffectsKnow'
    <2>1. \A e \in keyEffects : e.began <= now /\ (e.end # "late" => now > e.began + Bound(e))
      BY <1>h DEF IdempotencyInv, EffectsKnow
    <2> QED
      BY <1>1, <1>e, <1>h, <1>n, <2>1 DEF EffectsKnow, Bound
  <1>9. OnceUnlessLate'
    <2>1. \A e \in keyEffects : e.end # "late" => new.began > e.began + Bound(e)
      BY <1>h, <1>n
    <2> QED
      BY <1>e, <1>n, <2>1 DEF IdempotencyInv, OnceUnlessLate, Bound
  <1>10. SeenKnows'
    <2>2. ASSUME NEW id, Dead(id) PROVE Dead(id)'
      BY <1>5, <1>e, <1>n, <2>2 DEF Dead
    <2>3. ASSUME NEW u \in Threads, Looking(u)' PROVE SeenOK(u)'
      <3>1. Looking(u) /\ SeenOK(u) /\ pc'[u] = pc[u] /\ call'[u] = call[u]
        BY <1>5, <2>3 DEF IdempotencyInv, SeenKnows
      <3>2. \A e \in keyEffects' : e.id = call[u].seen.id => e.began = call[u].seen.created
        BY <1>e, <1>h, <1>n, <3>1 DEF SeenOK
      <3>3. pc[u] = "delete" =>
              \A e \in keyEffects' : e.id = call[u].seen.id /\ e.end # "late" => now > e.began + Bound(e)
        BY <1>e, <1>n, <3>1 DEF SeenOK
      <3> QED
        BY <1>1, <2>2, <3>1, <3>2, <3>3 DEF SeenOK, Bound
    <2> QED
      BY <2>3 DEF SeenKnows
  <1>11. DeleteHasSeen'
    BY <1>5 DEF IdempotencyInv, DeleteHasSeen
  <1> QED
    BY <1>4, <1>6, <1>7, <1>8, <1>9, <1>10, <1>11 DEF IdempotencyInv

\* _complete finds its record: nobody has taken it away.
LEMMA CompleteReadKeeps == ASSUME IdempotencyInv, NEW t \in Threads, CompleteRead(t) PROVE IdempotencyInv'
  <1>1. pc[t] = "complete" /\ Holding(t) /\ UNCHANGED <<now, rec, keyEffects, calls>>
    BY DEF CompleteRead, Holding
  <1>2. rec # None /\ rec.id = call[t].id
    BY <1>1, HolderAlone
  <1>3. pc' = [pc EXCEPT ![t] = "write"] /\ UNCHANGED <<call, answers>>
    BY <1>2 DEF CompleteRead, MoveTo
  <1>4. pc'[t] = "write" /\ \A u \in Threads \ {t} : pc'[u] = pc[u]
    BY <1>3 DEF IdempotencyInv, IdemTypeOK
  <1>5. IdemTypeOK'
    <2>1. pc' \in [Threads -> Places]
      BY <1>3 DEF IdempotencyInv, IdemTypeOK, Places
    <2> QED
      BY <1>1, <1>3, <2>1 DEF IdempotencyInv, IdemTypeOK
  <1>6. \A u \in Threads : /\ Holding(u)' <=> Holding(u)
                           /\ Fresh(u)' <=> Fresh(u)
                           /\ Looking(u)' <=> Looking(u)
                           /\ Looking(u) => pc'[u] = pc[u]
                           /\ pc'[u] # "idle" <=> pc[u] # "idle"
                           /\ pc'[u] = "delete" <=> pc[u] = "delete"
                           /\ pc'[u] = "dispatch" <=> pc[u] = "dispatch"
    BY <1>1, <1>3, <1>4 DEF Holding, Fresh, Looking
  <1>7. Numbered'
    BY <1>1, <1>3, <1>6 DEF IdempotencyInv, Numbered
  <1>8. Owned'
    BY <1>1, <1>3, <1>6 DEF IdempotencyInv, Owned
  <1>9. RecordKnows' /\ EffectsKnow' /\ OnceUnlessLate'
    BY <1>1, <1>3, <1>6 DEF IdempotencyInv, RecordKnows, EffectsKnow, OnceUnlessLate, Bound
  <1>10. SeenKnows' /\ DeleteHasSeen'
    <2>1. \A id : Dead(id) => Dead(id)'
      BY <1>1, <1>3, <1>6 DEF Dead
    <2>2. SeenKnows'
      BY <1>1, <1>3, <1>6, <2>1 DEF IdempotencyInv, SeenKnows, SeenOK, Bound
    <2>3. DeleteHasSeen'
      BY <1>3, <1>6 DEF IdempotencyInv, DeleteHasSeen
    <2> QED
      BY <2>2, <2>3
  <1> QED
    BY <1>5, <1>7, <1>8, <1>9, <1>10 DEF IdempotencyInv

\* Its update finds the record as well, and the thread leaves with its response.
LEMMA CompleteWriteKeeps == ASSUME IdempotencyInv, NEW t \in Threads, CompleteWrite(t) PROVE IdempotencyInv'
  <1>1. pc[t] = "write" /\ Holding(t) /\ UNCHANGED <<now, keyEffects, calls>>
    BY DEF CompleteWrite, Holding
  <1>h. /\ rec # None /\ rec \in Record /\ rec.id = call[t].id /\ call[t].id \in Nat /\ pc[t] # "idle"
        /\ \A u \in Threads \ {t} : ~Holding(u)
    BY <1>1, HolderAlone
  <1>2. rec' = [rec EXCEPT !.status = "completed", !.response = call[t].id] /\ Leave(t, "ok", call[t].id)
    BY <1>h DEF CompleteWrite
  <1>3. /\ rec' \in Record /\ rec'.id = rec.id /\ rec'.created = rec.created /\ rec'.status = "completed"
        /\ rec' # None
    <2>1. rec' \in Record /\ rec'.id = rec.id /\ rec'.created = rec.created /\ rec'.status = "completed"
      BY <1>2, <1>h DEF Record
    <2> QED
      BY <2>1, IdempotencyAssumption
  <1>4. /\ pc' \in [Threads -> Places] /\ call' \in [Threads -> Call]
        /\ answers' \subseteq [request: Requests, status: Statuses, response: Nat]
        /\ pc' = [pc EXCEPT ![t] = "idle"] /\ call' = [call EXCEPT ![t] = NoCall]
    <2>1. "ok" \in Statuses
      BY DEF Statuses
    <2> QED
      BY <1>2, <1>h, <2>1, LeaveTyped DEF IdempotencyInv
  <1>5. pc'[t] = "idle" /\ \A u \in Threads \ {t} : pc'[u] = pc[u] /\ call'[u] = call[u]
    BY <1>4 DEF IdempotencyInv, IdemTypeOK
  <1>6. IdemTypeOK'
    BY <1>1, <1>3, <1>4 DEF IdempotencyInv, IdemTypeOK
  <1>7. \A u \in Threads : /\ ~Holding(u)'
                           /\ Fresh(u)' => Fresh(u) /\ call'[u] = call[u]
                           /\ Looking(u)' => Looking(u) /\ call'[u] = call[u] /\ pc'[u] = pc[u]
                           /\ pc'[u] # "idle" => pc[u] # "idle" /\ call'[u] = call[u]
                           /\ pc'[u] = "delete" => pc[u] = "delete" /\ call'[u] = call[u]
    BY <1>5, <1>h DEF Holding, Fresh, Looking
  <1>8. Numbered'
    BY <1>1, <1>3, <1>7, <1>h DEF IdempotencyInv, Numbered
  <1>9. Owned'
    BY <1>7 DEF Owned
  <1>10. RecordKnows'
    BY <1>1, <1>3, <1>h DEF IdempotencyInv, RecordKnows, Bound
  <1>11. EffectsKnow' /\ OnceUnlessLate'
    BY <1>1, <1>3, <1>h DEF IdempotencyInv, EffectsKnow, OnceUnlessLate, Bound
  <1>12. SeenKnows'
    <2>1. \A id : Dead(id) => Dead(id)'
      BY <1>1, <1>7 DEF Dead
    <2> QED
      BY <1>1, <1>3, <1>7, <1>h, <2>1 DEF IdempotencyInv, SeenKnows, SeenOK, Bound
  <1>13. DeleteHasSeen'
    BY <1>7 DEF IdempotencyInv, DeleteHasSeen
  <1> QED
    BY <1>6, <1>8, <1>9, <1>10, <1>11, <1>12, <1>13 DEF IdempotencyInv

-----------------------------------------------------------------------------
(* The process stops, a transaction fails, and time passes *)

\* A thread that holds the record dies or fails: the record stays, and its effect
\* counts as abandoned ProcTTL after it was created.
LEMMA DiesKeeps ==
    ASSUME IdempotencyInv, NEW t \in Threads, Holding(t), LeaveRecord(t),
           pc' = [pc EXCEPT ![t] = "idle"], call' = [call EXCEPT ![t] = NoCall], UNCHANGED <<now, rec, calls>>,
           answers' \subseteq [request: Requests, status: Statuses, response: Nat]
    PROVE  IdempotencyInv'
  <1> DEFINE Ends(e) == IF e.id = call[t].id THEN [e EXCEPT !.end = "left"] ELSE e
  <1>1. /\ pc' = [pc EXCEPT ![t] = "idle"] /\ call' = [call EXCEPT ![t] = NoCall]
        /\ UNCHANGED <<now, rec, calls>>
    OBVIOUS
  <1>2. keyEffects' = {Ends(e) : e \in keyEffects}
    BY DEF LeaveRecord
  <1>h. /\ rec # None /\ rec.id = call[t].id /\ rec.created = call[t].began
        /\ \A u \in Threads \ {t} : ~Holding(u)
        /\ \A e \in keyEffects : e.id = call[t].id => e.end = ""
    BY HolderAlone
  <1>3. pc'[t] = "idle" /\ \A u \in Threads \ {t} : pc'[u] = pc[u] /\ call'[u] = call[u]
    BY <1>1 DEF IdempotencyInv, IdemTypeOK
  <1>4. \A e \in keyEffects : /\ Ends(e) \in [id: Nat, request: Requests, began: Nat, end: {"", "left", "late"}]
                              /\ Ends(e).id = e.id /\ Ends(e).began = e.began
                              /\ e.id # call[t].id => Ends(e) = e
                              /\ e.id = call[t].id => Ends(e).end = "left" /\ e.end = ""
    <2> SUFFICES ASSUME NEW e \in keyEffects
                 PROVE  /\ Ends(e) \in [id: Nat, request: Requests, began: Nat, end: {"", "left", "late"}]
                        /\ Ends(e).id = e.id /\ Ends(e).began = e.began
                        /\ e.id # call[t].id => Ends(e) = e
                        /\ e.id = call[t].id => Ends(e).end = "left" /\ e.end = ""
      OBVIOUS
    <2>1. e \in [id: Nat, request: Requests, began: Nat, end: {"", "left", "late"}]
      BY DEF IdempotencyInv, IdemTypeOK
    <2>2. e.id = call[t].id => e.end = ""
      BY <1>h
    <2> QED
      BY <2>1, <2>2
  <1> HIDE DEF Ends
  <1>5. \A f \in keyEffects' : \E e \in keyEffects : f = Ends(e)
    BY <1>2
  <1>6. ASSUME NEW f \in keyEffects' PROVE \E e \in keyEffects :
             /\ f.id = e.id /\ f.began = e.began /\ (f.end = "late" <=> e.end = "late")
             /\ (f = e /\ e.id # call[t].id) \/ (e.id = call[t].id /\ f.end = "left" /\ e.end = "")
             /\ Bound(f) \in Nat /\ Bound(e) \in Nat /\ Bound(f) <= Bound(e)
    <2>1. PICK e \in keyEffects : f = Ends(e)
      BY <1>5
    <2>2. ProcTTL \in Nat /\ TTL \in Nat /\ ProcTTL <= TTL /\ Bound(e) \in Nat /\ Bound(e) <= Bound(e)
      <3>1. Bound(e) \in Nat
        BY EffectFields DEF IdempotencyInv
      <3> QED
        BY <3>1, Times DEF IdempotencyInv
    <2>3. CASE e.id # call[t].id
      <3>1. f = e
        BY <1>4, <2>1, <2>3
      <3> QED
        BY <2>2, <2>3, <3>1
    <2>4. CASE e.id = call[t].id
      <3>1. f.id = e.id /\ f.began = e.began /\ f.end = "left" /\ e.end = ""
        BY <1>4, <2>1, <2>4
      <3>2. Bound(f) = ProcTTL /\ Bound(e) = TTL
        BY <3>1 DEF Bound
      <3> QED
        BY <2>2, <2>4, <3>1, <3>2
    <2> QED
      BY <2>3, <2>4
  <1>8. IdemTypeOK'
    <2>1. ASSUME NEW f \in keyEffects'
          PROVE  f \in [id: Nat, request: Requests, began: Nat, end: {"", "left", "late"}]
      <3>1. PICK e \in keyEffects : f = Ends(e)
        BY <1>5
      <3> QED
        BY <1>4, <3>1
    <2>2. pc' \in [Threads -> Places] /\ call' \in [Threads -> Call]
      BY <1>1, NoCallTyped DEF IdempotencyInv, IdemTypeOK, Places
    <2> QED
      BY <1>1, <2>1, <2>2 DEF IdempotencyInv, IdemTypeOK
  <1>9. \A u \in Threads : /\ ~Holding(u)'
                           /\ Fresh(u)' => Fresh(u) /\ call'[u] = call[u]
                           /\ Looking(u)' => Looking(u) /\ call'[u] = call[u] /\ pc'[u] = pc[u]
                           /\ pc'[u] # "idle" => pc[u] # "idle" /\ call'[u] = call[u]
                           /\ pc'[u] = "delete" => pc[u] = "delete" /\ call'[u] = call[u]
    BY <1>3, <1>h DEF Holding, Fresh, Looking
  <1>10. Numbered'
    <2>1. ASSUME NEW f \in keyEffects'
          PROVE  f.id \in 1 .. calls /\ \A u \in Threads : Fresh(u) => f.id # call[u].id
      <3>1. PICK e \in keyEffects :
              /\ f.id = e.id /\ f.began = e.began /\ (f.end = "late" <=> e.end = "late")
              /\ (f = e /\ e.id # call[t].id) \/ (e.id = call[t].id /\ f.end = "left" /\ e.end = "")
        BY <1>6
      <3> QED
        BY <3>1 DEF IdempotencyInv, Numbered
    <2> QED
      BY <1>1, <1>9, <2>1 DEF IdempotencyInv, Numbered
  <1>11. Owned'
    BY <1>9 DEF Owned
  <1>12. RecordKnows'
    <2>1. ASSUME NEW f \in keyEffects'
          PROVE  /\ f.id = rec.id => f.began = rec.created /\ f.end = "left"
                 /\ f.id # rec.id => f.began <= rec.created
                 /\ f.id # rec.id /\ f.end # "late" => rec.created > f.began + Bound(f)
      <3>1. PICK e \in keyEffects :
              /\ f.id = e.id /\ f.began = e.began /\ (f.end = "late" <=> e.end = "late")
              /\ (f = e /\ e.id # call[t].id) \/ (e.id = call[t].id /\ f.end = "left" /\ e.end = "")
        BY <1>6
      <3>2. /\ e.id = rec.id => e.began = rec.created
            /\ e.id # rec.id => e.began <= rec.created
            /\ e.id # rec.id /\ e.end # "late" => rec.created > e.began + Bound(e)
        BY <1>h DEF IdempotencyInv, RecordKnows
      <3> QED
        BY <1>h, <3>1, <3>2
    <2>3. rec.created <= now
      BY <1>h DEF IdempotencyInv, RecordKnows
    <2> QED
      BY <1>1, <2>1, <2>3 DEF RecordKnows, Bound
  <1>13. EffectsKnow'
    <2>1. ASSUME NEW f \in keyEffects'
          PROVE  /\ f.began <= now
                 /\ f.end # "late" => (rec # None /\ rec.id = f.id) \/ now > f.began + Bound(f)
      BY <1>6, <1>h DEF IdempotencyInv, EffectsKnow
    <2> QED
      BY <1>1, <2>1 DEF EffectsKnow, Bound
  <1>14. OnceUnlessLate'
    <2>1. ASSUME NEW e1 \in keyEffects', NEW f1 \in keyEffects', e1.id # f1.id, e1.end # "late",
                 e1.began < f1.began \/ (e1.began = f1.began /\ f1.end # "late")
          PROVE  f1.began > e1.began + Bound(e1)
      <3>1. PICK e \in keyEffects :
              /\ e1.id = e.id /\ e1.began = e.began /\ (e1.end = "late" <=> e.end = "late")
              /\ Bound(e1) \in Nat /\ Bound(e) \in Nat /\ Bound(e1) <= Bound(e)
        BY <1>6
      <3>2. PICK f \in keyEffects : f1.id = f.id /\ f1.began = f.began /\ (f1.end = "late" <=> f.end = "late")
        BY <1>6
      <3>3. f.began > e.began + Bound(e)
        BY <2>1, <3>1, <3>2 DEF IdempotencyInv, OnceUnlessLate, Bound
      <3>4. e.began \in Nat /\ f.began \in Nat
        BY EffectFields DEF IdempotencyInv
      <3> QED
        BY <3>1, <3>2, <3>3, <3>4
    <2> QED
      BY <2>1 DEF OnceUnlessLate, Bound
  <1>15. SeenKnows'
    <2>1. ASSUME NEW id, Dead(id) PROVE Dead(id)'
      <3>1. id # call[t].id
        BY <2>1 DEF Dead
      <3>2. \A f \in keyEffects' : f.id = id => f \in keyEffects
        BY <1>6, <3>1
      <3> QED
        BY <1>9, <2>1, <3>2 DEF Dead
    <2>2. ASSUME NEW u \in Threads, Looking(u)' PROVE SeenOK(u)'
      <3>1. Looking(u) /\ SeenOK(u) /\ pc'[u] = pc[u] /\ call'[u] = call[u]
        BY <1>9, <2>2 DEF IdempotencyInv, SeenKnows
      <3>2. ASSUME NEW f \in keyEffects', f.id = call[u].seen.id PROVE f.began = call[u].seen.created
        <4>1. PICK e \in keyEffects :
                /\ f.id = e.id /\ f.began = e.began /\ (f.end = "late" <=> e.end = "late")
                /\ (f = e /\ e.id # call[t].id) \/ (e.id = call[t].id /\ f.end = "left" /\ e.end = "")
          BY <1>6
        <4> QED
          BY <3>1, <3>2, <4>1 DEF SeenOK
      <3>3. ASSUME pc[u] = "delete", NEW f \in keyEffects', f.id = call[u].seen.id, f.end # "late"
            PROVE  now > f.began + Bound(f)
        <4>1. PICK e \in keyEffects :
                /\ f.id = e.id /\ f.began = e.began /\ (f.end = "late" <=> e.end = "late")
                /\ Bound(f) \in Nat /\ Bound(e) \in Nat /\ Bound(f) <= Bound(e)
          BY <1>6
        <4>2. now > e.began + Bound(e)
          BY <3>1, <3>3, <4>1 DEF SeenOK
        <4>3. e.began \in Nat /\ now \in Nat
          BY EffectFields, Times DEF IdempotencyInv
        <4> QED
          BY <4>1, <4>2, <4>3
      <3> QED
        BY <1>1, <2>1, <3>1, <3>2, <3>3 DEF SeenOK, Bound
    <2> QED
      BY <2>2 DEF SeenKnows
  <1>16. DeleteHasSeen'
    BY <1>9 DEF IdempotencyInv, DeleteHasSeen
  <1> QED
    BY <1>8, <1>10, <1>11, <1>12, <1>13, <1>14, <1>15, <1>16 DEF IdempotencyInv

\* The process of a thread stops at any place, or a transaction of it fails; before
\* its insert it leaves no trace.
LEMMA CrashKeeps ==
    ASSUME IdempotencyInv, NEW t \in Threads, CallerCrashes(t) \/ TransactionFails(t) PROVE IdempotencyInv'
  <1>0. /\ pc[t] # "idle" /\ pc' = [pc EXCEPT ![t] = "idle"] /\ call' = [call EXCEPT ![t] = NoCall]
        /\ UNCHANGED <<now, rec, calls>> /\ LeaveRecord(t)
    BY DEF CallerCrashes, TransactionFails, Leave, MoveTo
  <1>a. answers' \subseteq [request: Requests, status: Statuses, response: Nat]
    <2>1. CASE CallerCrashes(t)
      BY <2>1 DEF CallerCrashes, IdempotencyInv, IdemTypeOK
    <2>2. CASE TransactionFails(t)
      BY <1>0, <2>2, LeaveTyped DEF TransactionFails, Statuses, IdempotencyInv
    <2> QED
      BY <2>1, <2>2
  <1>1. CASE ~Holding(t)
    <2>2. Fresh(t)
      BY <1>0, <1>1 DEF Fresh, Holding, IdempotencyInv, IdemTypeOK, Places
    <2>3. \A e \in keyEffects : e.id # call[t].id
      BY <2>2 DEF IdempotencyInv, Numbered
    <2>4. keyEffects' = keyEffects
      BY <1>0, <2>3 DEF LeaveRecord
    <2>5. pc' \in [Threads -> Places] /\ call' \in [Threads -> Call]
      BY <1>0, NoCallTyped DEF IdempotencyInv, IdemTypeOK, Places
    <2>6. IdemTypeOK'
      BY <1>0, <1>a, <2>4, <2>5 DEF IdempotencyInv, IdemTypeOK
    <2> QED
      BY <1>0, <1>1, <2>4, <2>6, GoneKeeps
  <1> QED
    BY <1>0, <1>a, <1>1, DiesKeeps

\* Time passes; what is over stays over.
LEMMA TickKeeps == ASSUME IdempotencyInv, Tick PROVE IdempotencyInv'
  <1>1. /\ now < MaxTime /\ now' = now + 1 /\ UNCHANGED <<rec, pc, call, keyEffects, answers, calls>>
        /\ \A t \in Threads : Holding(t) => now < call[t].began + DispatchTime
        /\ \A t \in Threads : pc[t] \in {"decide", "raced"} => now < call[t].read + ReadTime
    BY DEF Tick, Holding
  <1>t. /\ now \in Nat /\ MaxTime \in Nat /\ DispatchTime \in Nat /\ ReadTime \in Nat /\ ProcTTL \in Nat
    BY Times, IdempotencyAssumption DEF IdempotencyInv
  <1>2. \A n \in Int : (now > n => now' > n) /\ (n <= now => n <= now') /\ (now < n => now' <= n)
    BY <1>1, <1>t
  <1>3. IdemTypeOK'
    <2>1. now' \in 0 .. MaxTime
      BY <1>1, <1>t
    <2> QED
      BY <1>1, <2>1 DEF IdempotencyInv, IdemTypeOK
  <1>4. Numbered' /\ DeleteHasSeen' /\ OnceUnlessLate'
    BY <1>1 DEF IdempotencyInv, Numbered, DeleteHasSeen, OnceUnlessLate, Fresh, Looking
  <1>5. Owned'
    <2>1. ASSUME NEW t \in Threads, Holding(t) PROVE now' <= call[t].began + DispatchTime
      <3>1. call[t].began + DispatchTime \in Int
        BY <1>t, CallFields DEF IdempotencyInv
      <3> QED
        BY <1>1, <1>2, <2>1, <3>1
    <2> QED
      BY <1>1, <2>1 DEF IdempotencyInv, Owned, Holding
  <1>6. RecordKnows'
    <2>1. rec # None => rec.created <= now'
      <3> SUFFICES ASSUME rec # None PROVE rec.created <= now'
        OBVIOUS
      <3>1. rec.created <= now /\ rec.created \in Int
        BY RowFields DEF IdempotencyInv, RecordKnows
      <3> QED
        BY <1>2, <3>1
    <2> QED
      BY <1>1, <2>1 DEF IdempotencyInv, RecordKnows, Holding, Bound
  <1>7. \A e \in keyEffects : /\ e.began <= now => e.began <= now'
                              /\ now > e.began + Bound(e) => now' > e.began + Bound(e)
    <2> SUFFICES ASSUME NEW e \in keyEffects
                 PROVE  /\ e.began <= now => e.began <= now'
                        /\ now > e.began + Bound(e) => now' > e.began + Bound(e)
      OBVIOUS
    <2>1. e.began \in Int /\ e.began + Bound(e) \in Int
      BY EffectFields DEF IdempotencyInv
    <2> QED
      BY <1>2, <2>1
  <1>8. EffectsKnow'
    BY <1>1, <1>7 DEF IdempotencyInv, EffectsKnow, Bound
  <1>9. SeenKnows'
    <2>1. ASSUME NEW t \in Threads, Looking(t) PROVE SeenOK(t)'
      <3>1. SeenOK(t) /\ call[t].seen # None /\ pc[t] \in {"decide", "raced", "delete"}
        BY <2>1 DEF IdempotencyInv, SeenKnows, Looking
      <3>2. call[t].seen.created + ProcTTL \in Int /\ call[t].read + ReadTime \in Int
        BY <1>t, <3>1, SeenFields, CallFields DEF IdempotencyInv
      <3>3. pc[t] = "delete" => now' > call[t].seen.created + ProcTTL
        BY <1>2, <3>1, <3>2 DEF SeenOK
      <3>4. pc[t] # "delete" => now' <= call[t].read + ReadTime
        BY <1>1, <1>2, <3>1, <3>2
      <3>5. \A id : Dead(id) => Dead(id)'
        BY <1>1 DEF Dead, Holding
      <3> QED
        BY <1>1, <1>7, <3>1, <3>3, <3>4, <3>5 DEF SeenOK, Bound
    <2> QED
      BY <1>1, <2>1 DEF SeenKnows, Looking
  <1> QED
    BY <1>3, <1>4, <1>5, <1>6, <1>8, <1>9 DEF IdempotencyInv

-----------------------------------------------------------------------------
\* Nothing has been asked for yet.
LEMMA InitInv == ASSUME IdemInit PROVE IdempotencyInv
  <1>1. IdemTypeOK
    <2>1. 0 \in 0 .. MaxTime /\ 0 \in 0 .. MaxCalls
      BY IdempotencyAssumption
    <2> QED
      BY <2>1, NoCallTyped DEF IdemInit, IdemTypeOK, Places
  <1>2. \A t \in Threads : pc[t] = "idle" /\ ~Holding(t) /\ ~Fresh(t) /\ ~Looking(t)
    BY DEF IdemInit, Holding, Fresh, Looking
  <1>3. Numbered /\ Owned /\ RecordKnows /\ EffectsKnow /\ SeenKnows /\ DeleteHasSeen /\ OnceUnlessLate
    BY <1>2 DEF IdemInit, Numbered, Owned, RecordKnows, EffectsKnow, SeenKnows, DeleteHasSeen, OnceUnlessLate
  <1> QED
    BY <1>1, <1>3 DEF IdempotencyInv

\* A step that changes nothing keeps everything.
LEMMA StutterKeeps == ASSUME IdempotencyInv, UNCHANGED idemVars PROVE IdempotencyInv'
  <1> USE DEF idemVars
  <1>1. IdemTypeOK' /\ Numbered' /\ Owned'
    BY DEF IdempotencyInv, IdemTypeOK, Numbered, Owned, Holding, Fresh, Looking
  <1>2. RecordKnows' /\ EffectsKnow'
    BY DEF IdempotencyInv, RecordKnows, EffectsKnow, Holding, Bound
  <1>3. SeenKnows'
    BY DEF IdempotencyInv, SeenKnows, SeenOK, Dead, Holding, Looking, Bound
  <1>4. DeleteHasSeen' /\ OnceUnlessLate'
    BY DEF IdempotencyInv, DeleteHasSeen, OnceUnlessLate
  <1> QED
    BY <1>1, <1>2, <1>3, <1>4 DEF IdempotencyInv

\* Every step of every caller, and of the clock, keeps the invariant.
LEMMA StepInv == ASSUME IdempotencyInv, [IdemNext]_idemVars PROVE IdempotencyInv'
  <1>1. ASSUME NEW t \in Threads, Step(t) PROVE IdempotencyInv'
    <2>1. ASSUME DispatchRaises(t) \/ DispatchRaisesLate(t) PROVE IdempotencyInv'
      BY <2>1, DiscardKeeps DEF DispatchRaises, DispatchRaisesLate
    <2> QED
      BY <1>1, <2>1, GetKeeps, DecideKeeps, DeleteKeeps, BeginKeeps, DispatchKeeps,
         CompleteReadKeeps, CompleteWriteKeeps, CrashKeeps DEF Step
  <1>2. ASSUME NEW t \in Threads, NEW r \in Requests, Begins(t, r) PROVE IdempotencyInv'
    BY <1>2, BeginsKeeps
  <1> QED
    BY <1>1, <1>2, TickKeeps, StutterKeeps DEF IdemNext

\* The invariant holds always, for every number of callers, requests and calls.
THEOREM IdempotencyInvariant == IdemSpec => []IdempotencyInv
  <1>1. IdemInit => IdempotencyInv
    BY InitInv
  <1>2. IdempotencyInv /\ [IdemNext]_idemVars => IdempotencyInv'
    BY StepInv
  <1> QED
    BY <1>1, <1>2, PTL DEF IdemSpec

\* A key takes effect once while its record lasts, whatever retries, duplicates,
\* lost races, crashes, failed dispatches and failed transactions there are: only
\* an effect whose dispatch raised, whose process died or whose _complete failed is
\* followed by another before the TTL, and the last two not before ProcTTL.
THEOREM OnceUnlessLateHolds == IdemSpec => []OnceUnlessLate
  <1>1. IdempotencyInv => OnceUnlessLate
    BY DEF IdempotencyInv
  <1> QED
    BY <1>1, IdempotencyInvariant, PTL

-----------------------------------------------------------------------------
(* What callers are told *)

\* Without faults that strike after the effect, no effect is marked so.
NoneLate == "late" \notin Faults => (\A e \in keyEffects : e.end # "late")

\* The number n is of a dispatch of request r that took effect and was neither
\* lost nor reported as a failure, and its call is over.
Settled(dispatched, place, calling, n, r) ==
    /\ \E e \in dispatched : e.id = n /\ e.request = r /\ e.end = ""
    /\ \A t \in Threads : place[t] # "idle" => calling[t].id # n
Real(n, r) == Settled(keyEffects, pc, call, n, r)

\* Every caller that is given a response gets that of a dispatch of its own
\* request that took effect.
ReplaysHonest == \A a \in answers : a.status = "ok" =>
    \E e \in keyEffects : e.id = a.response /\ e.request = a.request /\ e.end = ""

\* Responses are real wherever they are kept, and an owner's record holds its
\* own request.
HonestInv ==
    /\ \A a \in answers : a.status = "ok" => Real(a.response, a.request)
    /\ (rec # None /\ rec.status = "completed") => Real(rec.response, rec.request)
    /\ \A t \in Threads : Looking(t) /\ call[t].seen.status = "completed"
                            => Real(call[t].seen.response, call[t].seen.request)
    /\ \A t \in Threads : Holding(t) => rec.request = call[t].request
    /\ \A t \in Threads : pc[t] \in {"complete", "write"} =>
         \E e \in keyEffects : e.id = call[t].id /\ e.request = call[t].request

\* A step of t that removes no effect but its own, and hands on nothing that is
\* not real.
LEMMA HonestKeeps ==
    ASSUME IdempotencyInv, IdempotencyInv', HonestInv, NEW t \in Threads,
           \A u \in Threads \ {t} : pc'[u] = pc[u] /\ call'[u] = call[u],
           pc'[t] # "idle" => (pc[t] # "idle" /\ call'[t].id = call[t].id) \/ call'[t].id \notin 1 .. calls,
           \A e \in keyEffects : pc[t] = "idle" \/ e.id # call[t].id => e \in keyEffects',
           \A a \in answers' \ answers : a.status = "ok" => Real(a.response, a.request)',
           rec' # None /\ rec'.status = "completed" => rec' = rec \/ Real(rec.response, rec.request)',
           Looking(t)' => (Looking(t) /\ call'[t].seen = call[t].seen) \/ call'[t].seen = rec,
           rec # None /\ rec' # None => rec'.request = rec.request,
           Holding(t)' => rec'.request = call'[t].request,
           pc'[t] \in {"complete", "write"} =>
             \E e \in keyEffects' : e.id = call'[t].id /\ e.request = call'[t].request
    PROVE  HonestInv'
  <1>1. ASSUME NEW n, NEW r, Settled(keyEffects, pc, call, n, r) PROVE Settled(keyEffects', pc', call', n, r)
    <2>1. PICK e \in keyEffects : e.id = n /\ e.request = r /\ e.end = ""
      BY <1>1 DEF Settled
    <2>2. \A u \in Threads : pc[u] # "idle" => call[u].id # n
      BY <1>1 DEF Settled
    <2>3. e \in keyEffects'
      BY <2>1, <2>2
    <2>4. n \in 1 .. calls
      BY <2>1 DEF IdempotencyInv, Numbered
    <2>5. \A u \in Threads : pc'[u] # "idle" => call'[u].id # n
      BY <2>2, <2>4
    <2> QED
      BY <2>1, <2>3, <2>5 DEF Settled
  <1>2. ASSUME NEW a \in answers', a.status = "ok" PROVE Settled(keyEffects', pc', call', a.response, a.request)
    BY <1>1, <1>2 DEF HonestInv, Real
  <1>3. rec' # None /\ rec'.status = "completed" => Settled(keyEffects', pc', call', rec'.response, rec'.request)
    BY <1>1 DEF HonestInv, Real
  <1>4. ASSUME NEW u \in Threads, Looking(u)', call'[u].seen.status = "completed"
        PROVE  Settled(keyEffects', pc', call', call'[u].seen.response, call'[u].seen.request)
    <2>1. CASE u = t
      <3>1. CASE Looking(t) /\ call'[t].seen = call[t].seen
        BY <1>1, <1>4, <2>1, <3>1 DEF HonestInv, Real
      <3>2. CASE call'[t].seen = rec
        BY <1>1, <1>4, <2>1, <3>2 DEF HonestInv, Real, Looking
      <3> QED
        BY <1>4, <2>1, <3>1, <3>2
    <2>2. CASE u # t
      <3>1. Looking(u) /\ call'[u] = call[u]
        BY <1>4, <2>2 DEF Looking
      <3> QED
        BY <1>1, <1>4, <3>1 DEF HonestInv, Real
    <2> QED
      BY <2>1, <2>2
  <1>5. ASSUME NEW u \in Threads, Holding(u)' PROVE rec'.request = call'[u].request
    <2>1. CASE u = t
      BY <1>5, <2>1
    <2>2. CASE u # t
      <3>1. Holding(u) /\ call'[u] = call[u]
        BY <1>5, <2>2 DEF Holding
      <3>2. rec # None /\ rec' # None
        BY <1>5, <3>1 DEF IdempotencyInv, Owned
      <3> QED
        BY <3>1, <3>2 DEF HonestInv
    <2> QED
      BY <2>1, <2>2
  <1>6. ASSUME NEW u \in Threads, pc'[u] \in {"complete", "write"}
        PROVE  \E e \in keyEffects' : e.id = call'[u].id /\ e.request = call'[u].request
    <2>1. CASE u = t
      BY <1>6, <2>1
    <2>2. CASE u # t
      <3>1. pc[u] \in {"complete", "write"} /\ call'[u] = call[u]
        BY <1>6, <2>2
      <3>2. PICK e \in keyEffects : e.id = call[u].id /\ e.request = call[u].request
        BY <3>1 DEF HonestInv
      <3>3. pc[t] # "idle" => call[u].id # call[t].id
        BY <2>2, <3>1 DEF IdempotencyInv, Numbered
      <3> QED
        BY <3>1, <3>2, <3>3
    <2> QED
      BY <2>1, <2>2
  <1> QED
    BY <1>2, <1>3, <1>4, <1>5, <1>6 DEF HonestInv, Real

\* run() is left with an answer that is real or is no response.
LEMMA LeaveHonest ==
    ASSUME IdempotencyInv, IdempotencyInv', HonestInv, NEW t \in Threads, pc[t] # "idle",
           NEW status \in Statuses, NEW response \in Nat, Leave(t, status, response),
           \A e \in keyEffects : e.id # call[t].id => e \in keyEffects',
           status = "ok" => Settled(keyEffects', pc', call', response, call[t].request),
           rec' = None \/ rec' = rec
    PROVE  HonestInv'
  <1>1. pc' = [pc EXCEPT ![t] = "idle"] /\ call' = [call EXCEPT ![t] = NoCall]
        /\ answers' = answers \cup {[request |-> call[t].request, status |-> status, response |-> response]}
    BY DEF Leave, MoveTo
  <1>2. pc'[t] = "idle" /\ \A u \in Threads \ {t} : pc'[u] = pc[u] /\ call'[u] = call[u]
    BY <1>1 DEF IdempotencyInv, IdemTypeOK
  <1>3. \A a \in answers' \ answers : a.status = "ok" => Settled(keyEffects', pc', call', a.response, a.request)
    BY <1>1
  <1>4. ~Looking(t)' /\ ~Holding(t)'
    BY <1>2 DEF Looking, Holding
  <1> QED
    BY <1>2, <1>3, <1>4, HonestKeeps DEF Real

\* The decisions on a record that was read.
LEMMA DecideHonest ==
    ASSUME IdempotencyInv, IdempotencyInv', HonestInv, NEW t \in Threads, Decide(t) \/ Raced(t)
    PROVE  HonestInv'
  <1>1. /\ pc[t] \in {"decide", "raced"} /\ keyEffects' = keyEffects /\ rec' = rec
        /\ pc \in [Threads -> Places] /\ call \in [Threads -> Call]
    BY DEF Decide, Raced, IdempotencyInv, IdemTypeOK
  <1>2. CASE Resolve(t) /\ call[t].seen # None
    <2>1. CASE call[t].seen.request = call[t].request
      <3>1. Leave(t, "ok", call[t].seen.response)
        BY <1>2, <2>1 DEF Resolve
      <3>2. call[t].seen.response \in Nat
        BY <1>2, SeenFields DEF IdempotencyInv
      <3>3. Settled(keyEffects, pc, call, call[t].seen.response, call[t].request)
        BY <1>1, <1>2, <2>1 DEF HonestInv, Real, Looking, Resolve
      <3>4. pc' = [pc EXCEPT ![t] = "idle"] /\ call' = [call EXCEPT ![t] = NoCall]
        BY <3>1 DEF Leave, MoveTo
      <3>5. \A u \in Threads : pc'[u] # "idle" => pc[u] # "idle" /\ call'[u] = call[u]
        BY <1>1, <3>4
      <3>6. Settled(keyEffects', pc', call', call[t].seen.response, call[t].request)
        BY <1>1, <3>3, <3>5 DEF Settled
      <3> QED
        BY <1>1, <3>1, <3>2, <3>6, LeaveHonest DEF Statuses
    <2>2. CASE call[t].seen.request # call[t].request
      <3>1. Leave(t, "conflict", 0)
        BY <1>2, <2>2 DEF Resolve
      <3> QED
        BY <1>1, <3>1, LeaveHonest DEF Statuses
    <2> QED
      BY <2>1, <2>2
  <1>3. CASE Leave(t, "busy", 0) \/ Leave(t, "error", 0)
    BY <1>1, <1>3, LeaveHonest DEF Statuses
  <1>4. CASE \E second \in BOOLEAN : Drop(t, second)
    <2>1. PICK second \in BOOLEAN : Drop(t, second)
      BY <1>4
    <2>2. call' = [call EXCEPT ![t].second = second] /\ pc' = [pc EXCEPT ![t] = "delete"] /\ answers' = answers
      BY <2>1 DEF Drop, MoveTo
    <2>3. /\ pc'[t] = "delete" /\ (\A u \in Threads \ {t} : pc'[u] = pc[u] /\ call'[u] = call[u])
          /\ call'[t].id = call[t].id /\ call'[t].seen = call[t].seen
      BY <1>1, <2>2 DEF Call
    <2>4. Looking(t)' => Looking(t)
      BY <1>1, <2>3 DEF Looking
    <2> QED
      BY <1>1, <2>2, <2>3, <2>4, HonestKeeps DEF Holding
  <1>5. CASE MoveTo(t, "begin") /\ UNCHANGED <<call, answers>>
    <2>1. pc'[t] = "begin" /\ (\A u \in Threads \ {t} : pc'[u] = pc[u]) /\ call' = call /\ answers' = answers
      BY <1>1, <1>5 DEF MoveTo
    <2> QED
      BY <1>1, <2>1, HonestKeeps DEF Holding, Looking
  <1> QED
    BY <1>2, <1>3, <1>4, <1>5 DEF Decide, Raced, Busy

\* The steps of a caller that give no answer: the reads, the delete, the insert
\* and the dispatch.
LEMMA WayHonest ==
    ASSUME IdempotencyInv, IdempotencyInv', HonestInv, NEW t \in Threads,
           Get(t) \/ Delete(t) \/ Begin(t) \/ Dispatch(t)
    PROVE  HonestInv'
  <1>0. pc \in [Threads -> Places] /\ call \in [Threads -> Call] /\ call[t] \in Call
    BY DEF IdempotencyInv, IdemTypeOK
  <1>1. CASE Get(t)
    <2>1. /\ pc[t] \in {"get", "reread"} /\ UNCHANGED <<rec, keyEffects, answers>>
          /\ call' = [call EXCEPT ![t].seen = rec, ![t].read = now]
          /\ pc' = [pc EXCEPT ![t] = IF pc[t] = "get" THEN "decide" ELSE "raced"]
      BY <1>1 DEF Get, MoveTo
    <2>2. /\ pc'[t] \in {"decide", "raced"} /\ (\A u \in Threads \ {t} : pc'[u] = pc[u] /\ call'[u] = call[u])
          /\ call'[t].id = call[t].id /\ call'[t].seen = rec
      BY <1>0, <2>1 DEF Call
    <2> QED
      BY <2>1, <2>2, HonestKeeps DEF Holding
  <1>2. CASE Delete(t)
    <2>1. /\ pc[t] = "delete" /\ UNCHANGED <<call, keyEffects, answers>> /\ (rec' = None \/ rec' = rec)
          /\ pc' = [pc EXCEPT ![t] = "begin"]
      BY <1>2 DEF Delete, MoveTo
    <2>2. pc'[t] = "begin" /\ \A u \in Threads \ {t} : pc'[u] = pc[u]
      BY <1>0, <2>1
    <2> QED
      BY <2>1, <2>2, HonestKeeps DEF Holding, Looking
  <1>3. CASE Begin(t) /\ rec = None
    <2>1. /\ pc[t] = "begin" /\ UNCHANGED <<keyEffects, answers>> /\ pc' = [pc EXCEPT ![t] = "dispatch"]
          /\ call' = [call EXCEPT ![t].began = now]
          /\ rec'.request = call[t].request /\ rec'.status = "processing"
      BY <1>3 DEF Begin, MoveTo
    <2>2. /\ pc'[t] = "dispatch" /\ (\A u \in Threads \ {t} : pc'[u] = pc[u] /\ call'[u] = call[u])
          /\ call'[t].id = call[t].id /\ call'[t].request = call[t].request
      BY <1>0, <2>1 DEF Call
    <2> QED
      BY <1>3, <2>1, <2>2, HonestKeeps DEF Looking
  <1>4. CASE Begin(t) /\ rec # None
    <2>1. pc[t] = "begin" /\ UNCHANGED <<keyEffects, answers, rec, call>> /\ pc' = [pc EXCEPT ![t] = "reread"]
      BY <1>4 DEF Begin, MoveTo
    <2>2. pc'[t] = "reread" /\ \A u \in Threads \ {t} : pc'[u] = pc[u]
      BY <1>0, <2>1
    <2> QED
      BY <2>1, <2>2, HonestKeeps DEF Holding, Looking
  <1>5. CASE Dispatch(t)
    <2>1. /\ pc[t] = "dispatch" /\ UNCHANGED <<answers, rec, call>> /\ pc' = [pc EXCEPT ![t] = "complete"]
          /\ keyEffects' = keyEffects \cup {Effect(t, "")}
      BY <1>5 DEF Dispatch, MoveTo
    <2>2. pc'[t] = "complete" /\ \A u \in Threads \ {t} : pc'[u] = pc[u]
      BY <1>0, <2>1
    <2>3. Effect(t, "").id = call[t].id /\ Effect(t, "").request = call[t].request
      BY DEF Effect
    <2>4. \E e \in keyEffects' : e.id = call'[t].id /\ e.request = call'[t].request
      BY <2>1, <2>3
    <2>5. rec'.request = call'[t].request
      BY <2>1 DEF HonestInv, Holding
    <2> QED
      BY <2>1, <2>2, <2>4, <2>5, HonestKeeps DEF Looking
  <1> QED
    BY <1>1, <1>2, <1>3, <1>4, <1>5

\* The end of a dispatch: its response is recorded and given, or its error.
LEMMA EndHonest ==
    ASSUME IdempotencyInv, IdempotencyInv', HonestInv, NEW t \in Threads,
           DispatchRaises(t) \/ DispatchRaisesLate(t) \/ CompleteRead(t) \/ CompleteWrite(t)
    PROVE  HonestInv'
  <1>0. pc \in [Threads -> Places] /\ call \in [Threads -> Call] /\ Holding(t) /\ pc[t] # "idle" /\ call[t].id \in Nat
    BY CallFields DEF IdempotencyInv, IdemTypeOK, DispatchRaises, DispatchRaisesLate, CompleteRead, CompleteWrite, Holding
  <1>1. rec # None /\ rec.id = call[t].id /\ rec.status = "processing"
    BY <1>0 DEF IdempotencyInv, Owned
  <1>2. CASE DispatchRaises(t) \/ DispatchRaisesLate(t)
    <2>1. Leave(t, "raised", 0) /\ (rec' = None \/ rec' = rec) /\ keyEffects \subseteq keyEffects'
      BY <1>2 DEF DispatchRaises, DispatchRaisesLate, Discard
    <2> QED
      BY <1>0, <2>1, LeaveHonest DEF Statuses
  <1>3. CASE CompleteRead(t)
    <2>1. pc[t] = "complete" /\ UNCHANGED <<keyEffects, answers, rec, call>> /\ pc' = [pc EXCEPT ![t] = "write"]
      BY <1>1, <1>3 DEF CompleteRead, MoveTo
    <2>2. pc'[t] = "write" /\ \A u \in Threads \ {t} : pc'[u] = pc[u]
      BY <1>0, <2>1
    <2>3. /\ rec'.request = call'[t].request
          /\ \E e \in keyEffects' : e.id = call'[t].id /\ e.request = call'[t].request
      BY <1>0, <2>1 DEF HonestInv
    <2> QED
      BY <2>1, <2>2, <2>3, HonestKeeps DEF Looking
  <1>4. CASE CompleteWrite(t)
    <2>1. /\ pc[t] = "write" /\ keyEffects' = keyEffects /\ Leave(t, "ok", call[t].id)
          /\ rec' = [rec EXCEPT !.status = "completed", !.response = call[t].id]
      BY <1>1, <1>4 DEF CompleteWrite
    <2>2. /\ pc' = [pc EXCEPT ![t] = "idle"] /\ call' = [call EXCEPT ![t] = NoCall]
          /\ answers' = answers \cup {[request |-> call[t].request, status |-> "ok", response |-> call[t].id]}
      BY <2>1 DEF Leave, MoveTo
    <2>3. pc'[t] = "idle" /\ \A u \in Threads \ {t} : pc'[u] = pc[u] /\ call'[u] = call[u]
      BY <1>0, <2>2
    <2>4. rec'.request = rec.request /\ rec'.response = call[t].id
      BY <1>1, <2>1, RowFields DEF IdempotencyInv, Record
    <2>5. rec.request = call[t].request
      BY <1>0 DEF HonestInv
    <2>6. Settled(keyEffects', pc', call', call[t].id, call[t].request)
      <3>1. PICK e \in keyEffects : e.id = call[t].id /\ e.request = call[t].request
        BY <2>1 DEF HonestInv
      <3>2. e.end = ""
        BY <1>0, <3>1 DEF IdempotencyInv, Owned
      <3>3. \A u \in Threads : pc'[u] # "idle" => call'[u].id # call[t].id
        BY <1>0, <2>3 DEF IdempotencyInv, Numbered
      <3> QED
        BY <2>1, <3>1, <3>2, <3>3 DEF Settled
    <2>7. \A a \in answers' \ answers : a.status = "ok" => Settled(keyEffects', pc', call', a.response, a.request)
      BY <2>2, <2>6
    <2>8. Settled(keyEffects', pc', call', rec'.response, rec'.request)
      BY <2>4, <2>5, <2>6
    <2> QED
      BY <2>1, <2>3, <2>4, <2>7, <2>8, HonestKeeps DEF Real, Looking, Holding
  <1> QED
    BY <1>2, <1>3, <1>4

\* A crash or a failing transaction marks the effect of its own call alone, which
\* nobody was told of.
LEMMA CrashHonest ==
    ASSUME IdempotencyInv, IdempotencyInv', HonestInv, NEW t \in Threads, CallerCrashes(t) \/ TransactionFails(t)
    PROVE  HonestInv'
  <1>1. /\ pc[t] # "idle" /\ pc' = [pc EXCEPT ![t] = "idle"] /\ call' = [call EXCEPT ![t] = NoCall]
        /\ keyEffects' = {IF e.id = call[t].id THEN [e EXCEPT !.end = "left"] ELSE e : e \in keyEffects}
        /\ rec' = rec /\ \A a \in answers' \ answers : a.status = "error"
    BY DEF CallerCrashes, TransactionFails, LeaveRecord, Leave, MoveTo
  <1>2. pc'[t] = "idle" /\ \A u \in Threads \ {t} : pc'[u] = pc[u] /\ call'[u] = call[u]
    BY <1>1 DEF IdempotencyInv, IdemTypeOK
  <1>3. \A e \in keyEffects : e.id # call[t].id => e \in keyEffects'
    BY <1>1
  <1> QED
    BY <1>1, <1>2, <1>3, HonestKeeps DEF Looking, Holding

\* A new call has a number that no response has.
LEMMA BeginsHonest ==
    ASSUME IdempotencyInv, IdempotencyInv', HonestInv, NEW t \in Threads, NEW r \in Requests, Begins(t, r)
    PROVE  HonestInv'
  <1>1. /\ pc[t] = "idle" /\ UNCHANGED <<rec, keyEffects, answers>> /\ pc' = [pc EXCEPT ![t] = "get"]
        /\ call' = [call EXCEPT ![t] = [NoCall EXCEPT !.request = r, !.id = calls + 1]]
    BY DEF Begins, MoveTo
  <1>2. /\ pc'[t] = "get" /\ (\A u \in Threads \ {t} : pc'[u] = pc[u] /\ call'[u] = call[u])
        /\ call'[t].id = calls + 1
    BY <1>1 DEF IdempotencyInv, IdemTypeOK, NoCall
  <1>3. calls + 1 \notin 1 .. calls
    BY Times DEF IdempotencyInv
  <1> QED
    BY <1>1, <1>2, <1>3, HonestKeeps DEF Looking, Holding

\* Every step keeps responses real.
LEMMA HonestStep == ASSUME IdempotencyInv, IdempotencyInv', HonestInv, [IdemNext]_idemVars PROVE HonestInv'
  <1>1. CASE Tick \/ UNCHANGED idemVars
    BY <1>1 DEF Tick, idemVars, HonestInv, Real, Looking, Holding
  <1> QED
    BY <1>1, DecideHonest, WayHonest, EndHonest, CrashHonest, BeginsHonest DEF IdemNext, Step

\* IdempotencyService.run never gives a caller the response of another request,
\* of a dispatch that did not happen, or of one that was reported as a failure:
\* whatever races, takeovers, crashes and late failures there are, a response is
\* that of a dispatch of the same request that returned.
THEOREM ReplaysHonestHolds == IdemSpec => []ReplaysHonest
  <1>1. IdemInit => HonestInv
    <2> SUFFICES ASSUME IdemInit PROVE HonestInv
      OBVIOUS
    <2>1. answers = {} /\ rec = None /\ \A t \in Threads : pc[t] = "idle"
      BY DEF IdemInit
    <2> QED
      BY <2>1 DEF HonestInv, Looking, Holding
  <1>2. IdempotencyInv /\ IdempotencyInv' /\ HonestInv /\ [IdemNext]_idemVars => HonestInv'
    BY HonestStep
  <1>3. HonestInv => ReplaysHonest
    BY DEF HonestInv, ReplaysHonest, Real, Settled
  <1> QED
    BY <1>1, <1>2, <1>3, IdempotencyInvariant, PTL DEF IdemSpec

\* A provider that fails after it has acted is the only way to a second effect
\* before the first attempt counts as abandoned: when none does (dispatch raises
\* before its effect, its process dies, or a transaction of run() fails), a key
\* takes effect once while its record lasts, ProcTTL for one left unfinished.
THEOREM AtMostOnceUnlessLate == ASSUME "late" \notin Faults PROVE IdemSpec => []AtMostOnce
  <1>1. IdemInit => NoneLate
    BY DEF IdemInit, NoneLate
  <1>2. NoneLate /\ [IdemNext]_idemVars => NoneLate'
    <2> SUFFICES ASSUME NoneLate, [IdemNext]_idemVars PROVE \A e \in keyEffects' : e.end # "late"
      BY DEF NoneLate
    <2>0. \A e \in keyEffects : e.end # "late"
      BY DEF NoneLate
    <2>1. ASSUME NEW t \in Threads, Dispatch(t) PROVE \A e \in keyEffects' : e.end # "late"
      <3>1. Effect(t, "").end = ""
        BY DEF Effect
      <3>2. keyEffects' = keyEffects \cup {Effect(t, "")}
        BY <2>1 DEF Dispatch
      <3> QED
        BY <2>0, <3>1, <3>2
    <2>2. ASSUME NEW t \in Threads, CallerCrashes(t) \/ TransactionFails(t) PROVE \A e \in keyEffects' : e.end # "late"
      <3> SUFFICES ASSUME NEW e \in keyEffects PROVE (IF e.id = call[t].id THEN [e EXCEPT !.end = "left"] ELSE e).end # "late"
        BY <2>2 DEF CallerCrashes, TransactionFails, LeaveRecord
      <3> QED
        BY <2>0
    <2>3. CASE keyEffects' = keyEffects
      BY <2>0, <2>3
    <2>4. ASSUME NEW t \in Threads, Step(t) PROVE \A e \in keyEffects' : e.end # "late"
      <3>1. ~DispatchRaisesLate(t)
        BY DEF DispatchRaisesLate
      <3>2. CASE Get(t) \/ Decide(t) \/ Raced(t) \/ Delete(t) \/ Begin(t) \/ DispatchRaises(t) \/ CompleteRead(t) \/ CompleteWrite(t)
        <4>1. keyEffects' = keyEffects
          BY <3>2 DEF Get, Decide, Raced, Delete, Begin, DispatchRaises, CompleteRead, CompleteWrite
        <4> QED
          BY <2>3, <4>1
      <3> QED
        BY <2>1, <2>2, <2>4, <3>1, <3>2 DEF Step
    <2>5. (Tick \/ UNCHANGED idemVars \/ \E t \in Threads, r \in Requests : Begins(t, r)) => keyEffects' = keyEffects
      BY DEF Tick, idemVars, Begins
    <2> QED
      BY <2>3, <2>4, <2>5 DEF IdemNext
  <1>3. NoneLate /\ IdempotencyInv => AtMostOnce
    <2> SUFFICES ASSUME NoneLate, IdempotencyInv, NEW e \in keyEffects, NEW f \in keyEffects, e.id # f.id, e.began <= f.began
                 PROVE  f.began > e.began + (IF e.end = "left" THEN ProcTTL ELSE TTL)
      BY DEF AtMostOnce
    <2>1. e.end # "late" /\ f.end # "late"
      BY DEF NoneLate
    <2>2. e.began \in Nat /\ f.began \in Nat
      BY EffectFields DEF IdempotencyInv
    <2>3. e.began < f.began \/ e.began = f.began
      BY <2>2
    <2> QED
      BY <2>1, <2>3 DEF IdempotencyInv, OnceUnlessLate
  <1> QED
    BY <1>1, <1>2, <1>3, IdempotencyInvariant, PTL DEF IdemSpec
=============================================================================
