-------------------------- MODULE Schedules_proofs --------------------------
(***************************************************************************)
(* Proofs about ScheduleService and the cron expressions it uses: one      *)
(* process runs a schedule at least an interval apart, any number of them  *)
(* run no occurrence early or twice, and the search for the next cron run  *)
(* returns the least minute that matches.                                  *)
(***************************************************************************)
EXTENDS Schedules, Cron, TLAPS

-----------------------------------------------------------------------------
(* ScheduleService *)

\* Two due times of one schedule: the same occurrence, or an interval apart.
Apart(a, b) == b = a \/ \E i \in Intervals : b >= a + i

\* What the tick of p has in hand.
InHand(p) == ticker[p].todo \cup ({ticker[p].job} \ {None})

\* Neither the list in hand nor a job comes from the future.
PastOnly(p) ==
    /\ ticker[p].at <= now
    /\ \A x \in InHand(p) : x.due <= ticker[p].at
    /\ \A j \in jobs : j.due <= now

\* The due times in hand, in the rows and in the jobs follow one another: an item
\* comes after the jobs of its schedule, and the row's next run after both.
Sequenced(p) ==
    /\ \A x, y \in InHand(p) : x.id = y.id => x.due = y.due
    /\ \A x \in InHand(p), j \in jobs : x.id = j.id => Apart(j.due, x.due)
    /\ \A x \in InHand(p) : sched[x.id].next # None => Apart(x.due, sched[x.id].next)
    /\ \A j \in jobs : sched[j.id].next # None => Apart(j.due, sched[j.id].next)

\* The inductive invariant, for the one process p.
SchedulesInv(p) == SchedTypeOK /\ PastOnly(p) /\ Sequenced(p) /\ RunsApart

\* The rows that are no schedule have no next run.
LEMMA NoNext == Absent.next = None /\ Deleted.next = None /\ Absent.enabled = FALSE /\ Deleted.enabled = FALSE
  BY DEF Absent, Deleted

\* The list in hand is a set of items of the right shape.
LEMMA HandTyped ==
    ASSUME NEW p \in Processes, SchedTypeOK, NEW x \in InHand(p)
    PROVE  x \in Item /\ x.id \in Ids /\ x.due \in Nat /\ x.interval \in Intervals \cup {None} /\ AsJob(x) \in Job
  <1>1. ticker[p] \in Ticker
    BY DEF SchedTypeOK
  <1>2. x \in Item
    BY <1>1 DEF InHand, Ticker
  <1> QED
    BY <1>2 DEF Item, AsJob, Job

\* A time an interval after what is past is apart from it.
LEMMA LaterIsApart ==
    ASSUME NEW a \in Nat, NEW t \in Nat, a <= t, NEW i \in Intervals
    PROVE  Apart(a, t + i)
  <1>1. i \in Nat
    BY SchedulesAssumption
  <1>2. t + i >= a + i
    BY <1>1
  <1> QED
    BY <1>2 DEF Apart

\* An edit, a creation or a move of one row whose next run, if it has one, follows
\* what is in hand and what was run.
LEMMA RowWritten ==
    ASSUME NEW p, Processes = {p}, SchedulesInv(p), NEW s \in Ids, NEW row \in Row \cup {Absent, Deleted},
           sched' = [sched EXCEPT ![s] = row],
           row.next # None => /\ \A x \in InHand(p) : x.id = s => Apart(x.due, row.next)
                              /\ \A j \in jobs : j.id = s => Apart(j.due, row.next),
           UNCHANGED <<now, ticker, jobs>>, edits' \in 0 .. MaxEdits
    PROVE  SchedulesInv(p)'
  <1>1. SchedTypeOK'
    BY DEF SchedulesInv, SchedTypeOK
  <1>2. PastOnly(p)' /\ RunsApart'
    BY DEF SchedulesInv, PastOnly, InHand, RunsApart
  <1>3. \A r \in Ids : sched'[r] = IF r = s THEN row ELSE sched[r]
    BY DEF SchedulesInv, SchedTypeOK
  <1>4. InHand(p)' = InHand(p)
    BY DEF InHand
  <1>5. ASSUME NEW x \in InHand(p), sched'[x.id].next # None PROVE Apart(x.due, sched'[x.id].next)
    <2>1. x.id \in Ids
      BY HandTyped DEF SchedulesInv
    <2> QED
      BY <1>3, <1>5, <2>1 DEF SchedulesInv, Sequenced
  <1>6. ASSUME NEW j \in jobs, sched'[j.id].next # None PROVE Apart(j.due, sched'[j.id].next)
    <2>1. j.id \in Ids
      BY DEF SchedulesInv, SchedTypeOK, Job
    <2> QED
      BY <1>3, <1>6, <2>1 DEF SchedulesInv, Sequenced
  <1>7. Sequenced(p)'
    <2>1. /\ \A x, y \in InHand(p)' : x.id = y.id => x.due = y.due
          /\ \A x \in InHand(p)', j \in jobs' : x.id = j.id => Apart(j.due, x.due)
      BY <1>4 DEF SchedulesInv, Sequenced
    <2> QED
      BY <1>4, <1>5, <1>6, <2>1 DEF Sequenced, Apart
  <1> QED
    BY <1>1, <1>2, <1>7 DEF SchedulesInv

\* The next run counted from now, or from the time of a tick, follows.
LEMMA RecalculatedFollows ==
    ASSUME NEW p, Processes = {p}, SchedulesInv(p), NEW s, NEW i \in Intervals,
           NEW t \in Nat, ticker[p].at <= t
    PROVE  \A x \in InHand(p) : x.id = s => Apart(x.due, t + i)
  <1> SUFFICES ASSUME NEW x \in InHand(p) PROVE Apart(x.due, t + i)
    OBVIOUS
  <1>1. x.due \in Nat /\ x.due <= ticker[p].at /\ ticker[p].at \in Nat
    BY HandTyped DEF SchedulesInv, PastOnly, SchedTypeOK, Ticker, Times
  <1>2. x.due <= t
    BY <1>1
  <1> QED
    BY <1>1, <1>2, LaterIsApart

\* Whatever was run before now is an interval away from a run counted from now.
LEMMA JobsFollow ==
    ASSUME NEW p, SchedulesInv(p), NEW i \in Intervals, NEW j \in jobs
    PROVE  Apart(j.due, now + i)
  <1>1. j.due \in Nat /\ now \in Nat /\ j.due <= now
    BY SchedulesAssumption DEF SchedulesInv, SchedTypeOK, Job, PastOnly, Times
  <1> QED
    BY <1>1, LaterIsApart

\* compute_next_run after an edit.
LEMMA RecalculatedWritten ==
    ASSUME NEW p, Processes = {p}, SchedulesInv(p), NEW s \in Ids, NEW row \in Row,
           sched' = [sched EXCEPT ![s] = Recalculated(row)], UNCHANGED <<now, ticker, jobs>>, edits' \in 0 .. MaxEdits
    PROVE  SchedulesInv(p)'
  <1>0. now \in Nat /\ ticker[p].at <= now
    BY SchedulesAssumption DEF SchedulesInv, SchedTypeOK, PastOnly, Times
  <1>1. PICK next \in Nexts : /\ Recalculated(row) = [row EXCEPT !.next = next]
                              /\ next = None \/ \E i \in Intervals : next = now + i
    <2>1. row.interval \in Intervals \cup {None} /\ \A i \in Intervals : now + i \in Nat
      BY <1>0, SchedulesAssumption DEF Row
    <2> QED
      BY <2>1 DEF Recalculated, ComputeNextRun, Nexts
  <1>2. Recalculated(row) \in Row /\ Recalculated(row).next = next
    BY <1>1 DEF Row
  <1>3. CASE next = None
    BY <1>2, <1>3, RowWritten
  <1>4. ASSUME NEW i \in Intervals, next = now + i PROVE SchedulesInv(p)'
    <2>1. /\ \A x \in InHand(p) : x.id = s => Apart(x.due, next)
          /\ \A j \in jobs : j.id = s => Apart(j.due, next)
      BY <1>0, <1>4, RecalculatedFollows, JobsFollow
    <2> QED
      BY <1>2, <2>1, RowWritten
  <1> QED
    BY <1>1, <1>3, <1>4

\* The operations of users.
LEMMA EditKeeps ==
    ASSUME NEW p, Processes = {p}, SchedulesInv(p), NEW s \in Ids,
           \/ \E i \in Intervals, x \in Params : Create(s, i, x)
           \/ \E i \in Intervals \cup {None} : SetInterval(s, i)
           \/ \E on \in BOOLEAN : SetEnabled(s, on)
           \/ \E x \in Params : SetParams(s, x)
           \/ Delete(s)
    PROVE  SchedulesInv(p)'
  <1>0. sched[s] \in Row \cup {Absent, Deleted} /\ edits \in 0 .. MaxEdits /\ MaxEdits \in Nat
    BY SchedulesAssumption DEF SchedulesInv, SchedTypeOK
  <1>1. ASSUME NEW row, Edit(s, row) PROVE sched' = [sched EXCEPT ![s] = row] /\ UNCHANGED <<now, ticker, jobs>> /\ edits' \in 0 .. MaxEdits
    BY <1>0, <1>1 DEF Edit
  <1>2. Exists(s) => sched[s] \in Row
    BY <1>0 DEF Exists
  <1>3. ASSUME NEW i \in Intervals, NEW x \in Params, Create(s, i, x) PROVE SchedulesInv(p)'
    <2>1. [enabled |-> TRUE, interval |-> i, next |-> None, params |-> x] \in Row
      BY DEF Row, Nexts
    <2> QED
      BY <1>0, <1>3, <2>1, RecalculatedWritten DEF Create
  <1>4. ASSUME NEW i \in Intervals \cup {None}, SetInterval(s, i) PROVE SchedulesInv(p)'
    <2>1. sched[s] \in Row /\ Edit(s, Recalculated([sched[s] EXCEPT !.interval = i]))
      BY <1>2, <1>4 DEF SetInterval
    <2>2. [sched[s] EXCEPT !.interval = i] \in Row
      BY <2>1 DEF Row
    <2> QED
      BY <1>1, <2>1, <2>2, RecalculatedWritten
  <1>5. ASSUME NEW on \in BOOLEAN, SetEnabled(s, on) PROVE SchedulesInv(p)'
    <2>1. sched[s] \in Row /\ Edit(s, Recalculated([sched[s] EXCEPT !.enabled = on]))
      BY <1>2, <1>5 DEF SetEnabled
    <2>2. [sched[s] EXCEPT !.enabled = on] \in Row
      BY <2>1 DEF Row
    <2> QED
      BY <1>1, <2>1, <2>2, RecalculatedWritten
  <1>6. ASSUME NEW x \in Params, SetParams(s, x) PROVE SchedulesInv(p)'
    <2>1. sched[s] \in Row /\ Edit(s, [sched[s] EXCEPT !.params = x])
      BY <1>2, <1>6 DEF SetParams
    <2>2. [sched[s] EXCEPT !.params = x] \in Row /\ [sched[s] EXCEPT !.params = x].next = sched[s].next
      BY <2>1 DEF Row
    <2>3. sched[s].next # None => /\ \A y \in InHand(p) : y.id = s => Apart(y.due, sched[s].next)
                                  /\ \A j \in jobs : j.id = s => Apart(j.due, sched[s].next)
      BY DEF SchedulesInv, Sequenced
    <2> QED
      BY <1>1, <2>1, <2>2, <2>3, RowWritten
  <1>7. CASE Delete(s)
    <2>1. Edit(s, Deleted)
      BY <1>7 DEF Delete
    <2> QED
      BY <1>1, <2>1, NoNext, RowWritten
  <1> QED
    BY <1>3, <1>4, <1>5, <1>6, <1>7

\* A tick that has less in hand: it stops, it meets a conflict.
LEMMA HandShrinks ==
    ASSUME NEW p, Processes = {p}, SchedulesInv(p), UNCHANGED <<now, sched, jobs, edits>>,
           ticker' \in [Processes -> Ticker], InHand(p)' \subseteq InHand(p),
           ticker'[p].at <= now, \A x \in InHand(p)' : x.due <= ticker'[p].at
    PROVE  SchedulesInv(p)'
  <1>1. SchedTypeOK' /\ RunsApart'
    BY DEF SchedulesInv, SchedTypeOK, RunsApart
  <1>2. PastOnly(p)'
    BY DEF SchedulesInv, PastOnly
  <1>3. Sequenced(p)'
    BY DEF SchedulesInv, Sequenced, Apart
  <1> QED
    BY <1>1, <1>2, <1>3 DEF SchedulesInv

\* An idle thread has nothing in hand.
LEMMA IdleHand ==
    ASSUME NEW p, Processes = {p}, SchedulesInv(p), ticker' = [ticker EXCEPT ![p] = NoTick]
    PROVE  /\ ticker' \in [Processes -> Ticker] /\ ticker'[p] = NoTick /\ InHand(p)' = {} /\ ticker'[p].at <= now
  <1>1. now \in Nat /\ NoTick \in Ticker
    BY SchedulesAssumption DEF SchedulesInv, SchedTypeOK, Times, NoTick, Ticker
  <1>2. ticker' \in [Processes -> Ticker] /\ ticker'[p] = NoTick
    BY <1>1 DEF SchedulesInv, SchedTypeOK
  <1>3. InHand(p)' = {} /\ ticker'[p].at = 0
    BY <1>2 DEF InHand, NoTick
  <1> QED
    BY <1>1, <1>2, <1>3

\* The tick is over before its time.
LEMMA StopKeeps ==
    ASSUME NEW p, Processes = {p}, SchedulesInv(p), SubmitConflicts(p) \/ Stop(p)
    PROVE  SchedulesInv(p)'
  <1>1. ticker' = [ticker EXCEPT ![p] = NoTick] /\ UNCHANGED <<now, sched, jobs, edits>>
    BY DEF SubmitConflicts, Stop
  <1>2. /\ ticker' \in [Processes -> Ticker] /\ InHand(p)' \subseteq InHand(p)
        /\ ticker'[p].at <= now /\ \A x \in InHand(p)' : x.due <= ticker'[p].at
    BY <1>1, IdleHand
  <1> QED
    BY <1>1, <1>2, HandShrinks

\* Time passes.
LEMMA ClockKeeps == ASSUME NEW p, Processes = {p}, SchedulesInv(p), Tick PROVE SchedulesInv(p)'
  <1>1. now' = now + 1 /\ now < MaxTime /\ UNCHANGED <<sched, ticker, jobs, edits>> /\ now \in Nat
    BY SchedulesAssumption DEF Tick, SchedulesInv, SchedTypeOK, Times
  <1>2. SchedTypeOK' /\ RunsApart'
    BY <1>1, SchedulesAssumption DEF SchedulesInv, SchedTypeOK, Times, RunsApart
  <1>3. Sequenced(p)'
    BY <1>1 DEF SchedulesInv, Sequenced, Apart, InHand
  <1>4. PastOnly(p)'
    <2>1. ticker[p].at \in Nat /\ ticker[p].at <= now' /\ InHand(p)' = InHand(p)
      BY <1>1 DEF SchedulesInv, PastOnly, SchedTypeOK, Ticker, Times, InHand
    <2>2. ASSUME NEW j \in jobs PROVE j.due <= now'
      BY <1>1 DEF SchedulesInv, PastOnly, SchedTypeOK, Job
    <2> QED
      BY <1>1, <2>1, <2>2 DEF SchedulesInv, PastOnly
  <1> QED
    BY <1>2, <1>3, <1>4 DEF SchedulesInv

\* list_due: the items are the rows' next runs, which follow the jobs.
LEMMA ListDueKeeps == ASSUME NEW p, Processes = {p}, SchedulesInv(p), ListDue(p) PROVE SchedulesInv(p)'
  <1> DEFINE ItemOf(s) == [id |-> s, due |-> sched[s].next, interval |-> sched[s].interval, params |-> sched[s].params]
  <1>1. /\ ticker' = [ticker EXCEPT ![p] = [at |-> now, job |-> None, todo |-> {ItemOf(s) : s \in {r \in Ids : Due(r)}}]]
        /\ UNCHANGED <<now, sched, jobs, edits>>
    BY DEF ListDue
  <1>2. ASSUME NEW s \in Ids, Due(s)
        PROVE  /\ ItemOf(s) \in Item /\ ItemOf(s).id = s /\ ItemOf(s).due = sched[s].next
               /\ sched[s].next \in Nat /\ sched[s].next <= now /\ sched[s].next # None
    <2>1. sched[s] \in Row \cup {Absent, Deleted} /\ sched[s].enabled /\ sched[s].next # None /\ sched[s].next <= now
      BY <1>2 DEF SchedulesInv, SchedTypeOK, Due
    <2>2. sched[s] \in Row
      BY <2>1, NoNext
    <2> QED
      BY <2>1, <2>2 DEF Row, Item, Nexts
  <1>3. PICK todo : todo = {ItemOf(s) : s \in {r \in Ids : Due(r)}}
    OBVIOUS
  <1>4. /\ todo \subseteq Item
        /\ \A x \in todo : /\ x.id \in Ids /\ x.due = sched[x.id].next /\ x.due \in Nat /\ x.due <= now
                           /\ sched[x.id].next # None
    BY <1>2, <1>3
  <1> HIDE DEF ItemOf
  <1>5. ticker \in [Processes -> Ticker] /\ now \in Times
    BY DEF SchedulesInv, SchedTypeOK
  <1>6. ticker'[p] = [at |-> now, job |-> None, todo |-> todo] /\ ticker' \in [Processes -> Ticker]
    BY <1>1, <1>3, <1>4, <1>5 DEF Ticker
  <1>7. InHand(p)' = todo /\ ticker'[p].at = now
    BY <1>6 DEF InHand
  <1>8. SchedTypeOK' /\ RunsApart'
    BY <1>1, <1>6 DEF SchedulesInv, SchedTypeOK, RunsApart
  <1>9. PastOnly(p)'
    <2>1. now <= now
      BY <1>5, SchedulesAssumption DEF Times
    <2> QED
      BY <1>1, <1>4, <1>7, <2>1 DEF SchedulesInv, PastOnly
  <1>10. Sequenced(p)'
    <2>1. ASSUME NEW x \in todo, NEW j \in jobs, x.id = j.id PROVE Apart(j.due, x.due)
      BY <1>4, <2>1 DEF SchedulesInv, Sequenced
    <2>2. ASSUME NEW x \in todo PROVE Apart(x.due, sched[x.id].next)
      BY <1>4 DEF Apart
    <2>3. \A j \in jobs : sched[j.id].next # None => Apart(j.due, sched[j.id].next)
      BY DEF SchedulesInv, Sequenced
    <2>4. \A x, y \in todo : x.id = y.id => x.due = y.due
      BY <1>4
    <2> QED
      BY <1>1, <1>7, <2>1, <2>2, <2>3, <2>4 DEF Sequenced, Apart
  <1> QED
    BY <1>8, <1>9, <1>10 DEF SchedulesInv

\* submit: the new job is the occurrence in hand, which follows the earlier ones.
LEMMA SubmitKeeps == ASSUME NEW p, Processes = {p}, SchedulesInv(p), Submit(p) PROVE SchedulesInv(p)'
  <1>1. PICK x \in ticker[p].todo :
          /\ ticker[p].job = None /\ jobs' = jobs \cup {AsJob(x)} /\ UNCHANGED <<now, sched, edits>>
          /\ ticker' = [ticker EXCEPT ![p].job = x, ![p].todo = ticker[p].todo \ {x}]
    BY DEF Submit, IsNext
  <1>2. ticker \in [Processes -> Ticker] /\ SchedTypeOK /\ x \in InHand(p)
    BY DEF SchedulesInv, SchedTypeOK, InHand
  <1>3. x \in Item /\ AsJob(x) \in Job /\ x.due \in Nat /\ x.id \in Ids
    BY <1>2, HandTyped
  <1>4. AsJob(x).id = x.id /\ AsJob(x).due = x.due
    BY DEF AsJob
  <1>5. /\ ticker'[p].job = x /\ ticker'[p].todo = ticker[p].todo \ {x} /\ ticker'[p].at = ticker[p].at
        /\ ticker' \in [Processes -> Ticker]
    BY <1>1, <1>2, <1>3 DEF Ticker
  <1>6. InHand(p)' \subseteq InHand(p)
    BY <1>1, <1>5 DEF InHand
  <1>7. SchedTypeOK'
    BY <1>1, <1>2, <1>3, <1>5 DEF SchedTypeOK
  <1>8. PastOnly(p)'
    <2>1. x.due <= ticker[p].at /\ ticker[p].at <= now /\ ticker[p].at \in Nat /\ now \in Nat
      BY <1>2 DEF SchedulesInv, PastOnly, SchedTypeOK, Ticker, Times
    <2>2. x.due <= now
      BY <1>3, <2>1
    <2>3. ASSUME NEW j \in jobs' PROVE j.due <= now'
      BY <1>1, <1>4, <2>2, <2>3 DEF SchedulesInv, PastOnly
    <2>4. \A y \in InHand(p)' : y.due <= ticker'[p].at
      BY <1>5, <1>6 DEF SchedulesInv, PastOnly
    <2> QED
      BY <1>1, <1>5, <2>1, <2>3, <2>4 DEF PastOnly
  <1>9. /\ \A y \in InHand(p) : y.id = x.id => y.due = x.due
        /\ \A j \in jobs : j.id = x.id => Apart(j.due, x.due)
        /\ sched[x.id].next # None => Apart(x.due, sched[x.id].next)
    BY <1>2 DEF SchedulesInv, Sequenced
  <1>10. Sequenced(p)'
    <2>1. ASSUME NEW y \in InHand(p)', NEW j \in jobs', y.id = j.id PROVE Apart(j.due, y.due)
      <3>1. CASE j \in jobs
        BY <1>6, <2>1, <3>1 DEF SchedulesInv, Sequenced
      <3>2. CASE j = AsJob(x)
        BY <1>4, <1>6, <1>9, <2>1, <3>2 DEF Apart
      <3> QED
        BY <1>1, <3>1, <3>2
    <2>2. ASSUME NEW j \in jobs', sched[j.id].next # None PROVE Apart(j.due, sched[j.id].next)
      <3>1. CASE j \in jobs
        BY <2>2, <3>1 DEF SchedulesInv, Sequenced
      <3>2. CASE j = AsJob(x)
        BY <1>4, <1>9, <2>2, <3>2
      <3> QED
        BY <1>1, <3>1, <3>2
    <2>3. /\ \A y, z \in InHand(p)' : y.id = z.id => y.due = z.due
          /\ \A y \in InHand(p)' : sched[y.id].next # None => Apart(y.due, sched[y.id].next)
      BY <1>6 DEF SchedulesInv, Sequenced
    <2> QED
      BY <1>1, <2>1, <2>2, <2>3 DEF Sequenced, Apart
  <1>11. RunsApart'
    <2>1. ASSUME NEW j \in jobs', NEW k \in jobs', j.id = k.id, j.due < k.due
          PROVE  \E i \in Intervals : k.due >= j.due + i
      <3>0. j.due \in Nat /\ k.due \in Nat
        BY <1>7 DEF SchedTypeOK, Job
      <3>1. CASE j \in jobs /\ k \in jobs
        BY <2>1, <3>1 DEF SchedulesInv, RunsApart
      <3>2. CASE j \in jobs /\ k = AsJob(x)
        <4>1. Apart(j.due, k.due)
          BY <1>4, <1>9, <2>1, <3>2
        <4> QED
          BY <2>1, <3>0, <4>1 DEF Apart
      <3>3. CASE j = AsJob(x) /\ k \in jobs
        <4>1. Apart(k.due, j.due)
          BY <1>4, <1>9, <2>1, <3>3
        <4>2. ASSUME NEW i \in Intervals, j.due >= k.due + i PROVE FALSE
          <5>1. i \in Nat
            BY SchedulesAssumption
          <5> QED
            BY <2>1, <3>0, <4>2, <5>1
        <4>3. j.due # k.due
          BY <2>1, <3>0
        <4> QED
          BY <4>1, <4>2, <4>3 DEF Apart
      <3>4. CASE j = AsJob(x) /\ k = AsJob(x)
        BY <2>1, <3>0, <3>4
      <3> QED
        BY <1>1, <3>1, <3>2, <3>3, <3>4
    <2> QED
      BY <2>1 DEF RunsApart
  <1> QED
    BY <1>7, <1>8, <1>10, <1>11 DEF SchedulesInv

\* next_run_at moves an interval past the time of the tick, and so past the
\* occurrence just submitted and all before it.
LEMMA AdvanceKeeps == ASSUME NEW p, Processes = {p}, SchedulesInv(p), Advance(p) PROVE SchedulesInv(p)'
  <1>1. PICK x : x = ticker[p].job
    OBVIOUS
  <1> DEFINE next == ComputeNextRun(x.interval, ticker[p].at)
  <1>2. /\ x # None /\ UNCHANGED <<now, jobs, edits>>
        /\ sched' = IF Exists(x.id) THEN [sched EXCEPT ![x.id].next = next] ELSE sched
        /\ ticker' = [ticker EXCEPT ![p] = Served(p)]
    BY <1>1 DEF Advance, MoveTo
  <1>3. /\ SchedTypeOK /\ x \in InHand(p) /\ ticker[p].at \in Nat /\ ticker[p].at <= now /\ ticker[p] \in Ticker
        /\ x.due <= ticker[p].at /\ now \in Nat
    BY <1>1, <1>2 DEF SchedulesInv, SchedTypeOK, InHand, PastOnly, Ticker, Times
  <1>4. x.id \in Ids /\ x.due \in Nat /\ x.interval \in Intervals \cup {None}
    BY <1>3, HandTyped
  <1>5. next \in Nexts
    <2>1. CASE x.interval = None
      BY <2>1 DEF ComputeNextRun, Nexts
    <2>2. CASE x.interval # None
      <3>1. x.interval \in Nat
        BY <1>4, <2>2, SchedulesAssumption
      <3>2. next = ticker[p].at + x.interval
        BY <2>2 DEF ComputeNextRun
      <3> HIDE DEF next
      <3> QED
        BY <1>3, <3>1, <3>2 DEF Nexts
    <2> QED
      BY <2>1, <2>2
  <1>6. ASSUME next # None
        PROVE  /\ \A y \in InHand(p) : y.id = x.id => Apart(y.due, next)
               /\ \A j \in jobs : j.id = x.id => Apart(j.due, next)
    <2>1. x.interval \in Intervals /\ next = ticker[p].at + x.interval /\ x.interval \in Nat
      BY <1>4, <1>6, SchedulesAssumption DEF ComputeNextRun
    <2> HIDE DEF next
    <2>0. ticker[p].at <= ticker[p].at
      BY <1>3
    <2>2. \A y \in InHand(p) : y.id = x.id => Apart(y.due, next)
      BY <1>3, <2>0, <2>1, RecalculatedFollows
    <2>3. ASSUME NEW j \in jobs, j.id = x.id PROVE Apart(j.due, next)
      <3>1. Apart(j.due, x.due) /\ j.due \in Nat
        BY <1>3, <2>3 DEF SchedulesInv, Sequenced, SchedTypeOK, Job
      <3>2. j.due <= x.due
        <4>1. ASSUME NEW i \in Intervals, x.due >= j.due + i PROVE j.due <= x.due
          <5>1. i \in Nat
            BY SchedulesAssumption
          <5> QED
            BY <1>4, <3>1, <4>1, <5>1
        <4>2. x.due <= x.due
          BY <1>4
        <4> QED
          BY <3>1, <4>1, <4>2 DEF Apart
      <3>3. j.due <= ticker[p].at
        BY <1>3, <1>4, <3>1, <3>2
      <3> QED
        BY <1>3, <2>1, <3>1, <3>3, LaterIsApart
    <2> QED
      BY <2>2, <2>3
  <1> HIDE DEF next
  <1>7. PICK row \in Row \cup {Absent, Deleted} :
          /\ sched' = [sched EXCEPT ![x.id] = row]
          /\ row.next = next \/ row.next = sched[x.id].next
    <2>1. CASE Exists(x.id)
      <3>1. sched[x.id] \in Row
        BY <1>3, <1>4, <2>1 DEF Exists, SchedTypeOK
      <3>2. [sched[x.id] EXCEPT !.next = next] \in Row /\ [sched[x.id] EXCEPT !.next = next].next = next
        BY <1>5, <3>1 DEF Row
      <3>3. sched' = [sched EXCEPT ![x.id] = [sched[x.id] EXCEPT !.next = next]]
        BY <1>2, <2>1
      <3> QED
        BY <3>2, <3>3
    <2>2. CASE ~Exists(x.id)
      <3>1. sched' = [sched EXCEPT ![x.id] = sched[x.id]]
        BY <1>2, <1>3, <1>4, <2>2 DEF SchedTypeOK
      <3> QED
        BY <1>3, <1>4, <3>1 DEF SchedTypeOK
    <2> QED
      BY <2>1, <2>2
  <1>8. row.next # None => /\ \A y \in InHand(p) : y.id = x.id => Apart(y.due, row.next)
                           /\ \A j \in jobs : j.id = x.id => Apart(j.due, row.next)
    BY <1>6, <1>7 DEF SchedulesInv, Sequenced
  <1>9. \A r \in Ids : sched'[r] = IF r = x.id THEN row ELSE sched[r]
    BY <1>3, <1>4, <1>7 DEF SchedTypeOK
  <1>10. /\ Served(p) \in Ticker
         /\ \/ Served(p).at = ticker[p].at /\ Served(p).job = None /\ Served(p).todo = ticker[p].todo
            \/ Served(p) = NoTick
    <2>1. NoTick \in Ticker
      BY SchedulesAssumption DEF NoTick, Ticker, Times
    <2> QED
      BY <1>3, <2>1 DEF Served, Ticker
  <1>11. ticker'[p] = Served(p) /\ ticker' \in [Processes -> Ticker]
    BY <1>2, <1>3, <1>10 DEF SchedTypeOK
  <1>12. InHand(p)' \subseteq InHand(p) /\ ticker'[p].at <= now /\ \A y \in InHand(p)' : y.due <= ticker'[p].at
    <2>1. CASE Served(p).at = ticker[p].at /\ Served(p).job = None /\ Served(p).todo = ticker[p].todo
      BY <1>3, <1>11, <2>1 DEF InHand, SchedulesInv, PastOnly
    <2>2. CASE Served(p) = NoTick
      BY <1>3, <1>11, <2>2 DEF InHand, NoTick
    <2> QED
      BY <1>10, <2>1, <2>2
  <1>13. SchedTypeOK'
    BY <1>2, <1>3, <1>4, <1>7, <1>11 DEF SchedTypeOK
  <1>14. PastOnly(p)' /\ RunsApart'
    BY <1>2, <1>12 DEF SchedulesInv, PastOnly, RunsApart
  <1>15. Sequenced(p)'
    <2>1. ASSUME NEW y \in InHand(p)', sched'[y.id].next # None PROVE Apart(y.due, sched'[y.id].next)
      <3>1. y \in InHand(p) /\ y.id \in Ids
        BY <1>3, <1>12, HandTyped
      <3> QED
        BY <1>8, <1>9, <2>1, <3>1 DEF SchedulesInv, Sequenced
    <2>2. ASSUME NEW j \in jobs, sched'[j.id].next # None PROVE Apart(j.due, sched'[j.id].next)
      <3>1. j.id \in Ids
        BY <1>3 DEF SchedTypeOK, Job
      <3> QED
        BY <1>8, <1>9, <2>2, <3>1 DEF SchedulesInv, Sequenced
    <2>3. /\ \A y, z \in InHand(p)' : y.id = z.id => y.due = z.due
          /\ \A y \in InHand(p)', j \in jobs : y.id = j.id => Apart(j.due, y.due)
      BY <1>12 DEF SchedulesInv, Sequenced
    <2> QED
      BY <1>2, <2>1, <2>2, <2>3 DEF Sequenced, Apart
  <1> QED
    BY <1>13, <1>14, <1>15 DEF SchedulesInv

\* With one scheduler process, whatever its ticks, stops and the users' edits do,
\* two runs of a schedule are at least an interval apart.
THEOREM RunsAreApart == ASSUME NEW p, Processes = {p} PROVE SchedSpec => []RunsApart
  <1>1. SchedInit => SchedulesInv(p)
    <2> SUFFICES ASSUME SchedInit PROVE SchedulesInv(p)
      OBVIOUS
    <2>1. ticker[p] = NoTick /\ jobs = {} /\ now = 0
      BY DEF SchedInit
    <2>2. InHand(p) = {} /\ ticker[p].at = 0
      BY <2>1 DEF InHand, NoTick
    <2>3. NoTick \in Ticker
      BY SchedulesAssumption DEF NoTick, Ticker, Times
    <2>4. SchedTypeOK
      BY <2>3, SchedulesAssumption DEF SchedInit, SchedTypeOK, Times
    <2> QED
      BY <2>1, <2>2, <2>4 DEF SchedulesInv, PastOnly, Sequenced, RunsApart
  <1>2. SchedulesInv(p) /\ [SchedNext]_schedVars => SchedulesInv(p)'
    <2> SUFFICES ASSUME SchedulesInv(p), [SchedNext]_schedVars PROVE SchedulesInv(p)'
      OBVIOUS
    <2>1. CASE UNCHANGED schedVars
      BY <2>1 DEF schedVars, SchedulesInv, SchedTypeOK, PastOnly, Sequenced, RunsApart, InHand, Apart
    <2>2. CASE SchedNext
      BY <2>2, EditKeeps, ListDueKeeps, SubmitKeeps, AdvanceKeeps, StopKeeps, ClockKeeps DEF SchedNext, Work
    <2> QED
      BY <2>1, <2>2
  <1>3. SchedulesInv(p) => RunsApart
    BY DEF SchedulesInv
  <1> QED
    BY <1>1, <1>2, <1>3, PTL DEF SchedSpec

\* An occurrence of a schedule, its due time, is run when it has come and not
\* before, and once: with one set of parameters, under one key.
OncePerDue == \A j \in jobs : j.due <= now /\ \A k \in jobs : j.id = k.id /\ j.due = k.due => j = k

\* What the ticks of any number of processes have in hand lies in the past.
ManyInv == SchedTypeOK /\ (\A p \in Processes : PastOnly(p)) /\ OncePerDue

\* A thread goes on with what it has in hand, less some of it, or starts with
\* what is due now; jobs at most get one that was in hand and has a key of its own.
LEMMA TickerMoves ==
    ASSUME ManyInv, NEW p \in Processes, NEW t \in Ticker, ticker' = [ticker EXCEPT ![p] = t],
           now' = now, t.at <= now, \A x \in t.todo \cup ({t.job} \ {None}) : x.due <= t.at,
           \/ jobs' = jobs
           \/ \E x \in InHand(p) : jobs' = jobs \cup {AsJob(x)} /\ \A j \in SameKey(x) : j = AsJob(x),
           edits' = edits, sched' \in [Ids -> Row \cup {Absent, Deleted}]
    PROVE  ManyInv'
  <1>0. /\ ticker \in [Processes -> Ticker] /\ now \in Nat /\ jobs \subseteq Job
        /\ ticker[p].at \in Nat /\ ticker[p].at <= now
    BY SchedulesAssumption DEF ManyInv, SchedTypeOK, Times, Ticker, PastOnly
  <1>1. jobs' \subseteq Job /\ OncePerDue'
    <2>1. CASE jobs' = jobs
      BY <1>0, <2>1 DEF ManyInv, OncePerDue
    <2>2. ASSUME NEW x \in InHand(p), jobs' = jobs \cup {AsJob(x)}, \A j \in SameKey(x) : j = AsJob(x)
          PROVE  jobs' \subseteq Job /\ OncePerDue'
      <3>1. AsJob(x) \in Job /\ x.due \in Nat /\ AsJob(x).id = x.id /\ AsJob(x).due = x.due
        BY HandTyped DEF ManyInv, AsJob
      <3>2. x.due <= now
        <4>1. x.due <= ticker[p].at
          BY DEF ManyInv, PastOnly
        <4> QED
          BY <1>0, <3>1, <4>1
      <3>3. \A j \in jobs : j.id = x.id /\ j.due = x.due => j = AsJob(x)
        BY <2>2 DEF SameKey
      <3>4. \A j \in jobs' : j.due <= now
        BY <2>2, <3>1, <3>2 DEF ManyInv, OncePerDue
      <3>5. ASSUME NEW j \in jobs', NEW k \in jobs', j.id = k.id, j.due = k.due PROVE j = k
        BY <2>2, <3>1, <3>3, <3>5 DEF ManyInv, OncePerDue
      <3> QED
        BY <1>0, <2>2, <3>1, <3>4, <3>5 DEF OncePerDue
    <2> QED
      BY <2>1, <2>2
  <1>2. ticker' \in [Processes -> Ticker] /\ \A q \in Processes : ticker'[q] = IF q = p THEN t ELSE ticker[q]
    BY <1>0
  <1>3. SchedTypeOK'
    BY <1>1, <1>2 DEF ManyInv, SchedTypeOK
  <1>4. ASSUME NEW q \in Processes PROVE PastOnly(q)'
    <2>1. \A j \in jobs' : j.due <= now'
      BY <1>1 DEF OncePerDue
    <2>2. CASE q = p
      BY <1>2, <2>1, <2>2 DEF PastOnly, InHand
    <2>3. CASE q # p
      <3>1. ticker'[q] = ticker[q]
        BY <1>2, <2>3
      <3> QED
        BY <2>1, <3>1 DEF ManyInv, PastOnly, InHand
    <2> QED
      BY <2>2, <2>3
  <1> QED
    BY <1>1, <1>3, <1>4 DEF ManyInv

\* An edit writes one row and nothing else.
LEMMA EditsApart ==
    ASSUME ManyInv, NEW s \in Ids,
           \/ \E i \in Intervals, x \in Params : Create(s, i, x)
           \/ \E i \in Intervals \cup {None} : SetInterval(s, i)
           \/ \E on \in BOOLEAN : SetEnabled(s, on)
           \/ \E x \in Params : SetParams(s, x)
           \/ Delete(s)
    PROVE  ManyInv'
  <1>0. /\ sched \in [Ids -> Row \cup {Absent, Deleted}] /\ edits \in 0 .. MaxEdits /\ MaxEdits \in Nat /\ now \in Nat
        /\ Exists(s) => sched[s] \in Row
    BY SchedulesAssumption DEF ManyInv, SchedTypeOK, Exists, Times
  <1>1. ASSUME NEW row \in Row PROVE Recalculated(row) \in Row
    <2>1. row.interval \in Intervals \cup {None} /\ \A i \in Intervals : now + i \in Nat
      BY <1>0, SchedulesAssumption DEF Row
    <2>2. ComputeNextRun(row.interval, now) \in Nexts /\ None \in Nexts
      BY <2>1 DEF ComputeNextRun, Nexts
    <2>3. PICK next \in Nexts : Recalculated(row) = [row EXCEPT !.next = next]
      BY <2>2 DEF Recalculated
    <2> QED
      BY <2>3 DEF Row
  <1>e. ASSUME NEW row, Edit(s, row)
        PROVE  sched' = [sched EXCEPT ![s] = row] /\ UNCHANGED <<now, ticker, jobs>> /\ edits' \in 0 .. MaxEdits
    BY <1>0, <1>e DEF Edit
  <1>2. SUFFICES ASSUME NEW row \in Row \cup {Deleted}, sched' = [sched EXCEPT ![s] = row],
                        UNCHANGED <<now, ticker, jobs>>, edits' \in 0 .. MaxEdits
                 PROVE  ManyInv'
    <2>1. ASSUME NEW i \in Intervals, NEW x \in Params, Create(s, i, x) PROVE ManyInv'
      <3>1. [enabled |-> TRUE, interval |-> i, next |-> None, params |-> x] \in Row
        BY DEF Row, Nexts
      <3>2. Recalculated([enabled |-> TRUE, interval |-> i, next |-> None, params |-> x]) \in Row
        BY <1>1, <3>1
      <3> QED
        BY <1>0, <1>2, <2>1, <3>2 DEF Create
    <2>2. ASSUME NEW i \in Intervals \cup {None}, SetInterval(s, i) PROVE ManyInv'
      <3>1. sched[s] \in Row /\ Edit(s, Recalculated([sched[s] EXCEPT !.interval = i]))
        BY <1>0, <2>2 DEF SetInterval
      <3>2. [sched[s] EXCEPT !.interval = i] \in Row
        BY <3>1 DEF Row
      <3>3. Recalculated([sched[s] EXCEPT !.interval = i]) \in Row
        BY <1>1, <3>2
      <3> QED
        BY <1>e, <1>2, <3>1, <3>3
    <2>3. ASSUME NEW on \in BOOLEAN, SetEnabled(s, on) PROVE ManyInv'
      <3>1. sched[s] \in Row /\ Edit(s, Recalculated([sched[s] EXCEPT !.enabled = on]))
        BY <1>0, <2>3 DEF SetEnabled
      <3>2. [sched[s] EXCEPT !.enabled = on] \in Row
        BY <3>1 DEF Row
      <3>3. Recalculated([sched[s] EXCEPT !.enabled = on]) \in Row
        BY <1>1, <3>2
      <3> QED
        BY <1>e, <1>2, <3>1, <3>3
    <2>4. ASSUME NEW x \in Params, SetParams(s, x) PROVE ManyInv'
      <3>1. sched[s] \in Row /\ Edit(s, [sched[s] EXCEPT !.params = x])
        BY <1>0, <2>4 DEF SetParams
      <3>2. [sched[s] EXCEPT !.params = x] \in Row
        BY <3>1 DEF Row
      <3> QED
        BY <1>e, <1>2, <3>1, <3>2
    <2>5. CASE Delete(s)
      BY <1>e, <1>2, <2>5 DEF Delete
    <2> QED
      BY <2>1, <2>2, <2>3, <2>4, <2>5
  <1>3. SchedTypeOK'
    BY <1>0, <1>2 DEF ManyInv, SchedTypeOK
  <1> QED
    BY <1>2, <1>3 DEF ManyInv, PastOnly, InHand, OncePerDue

\* The tick of one of the processes.
LEMMA TicksApart == ASSUME ManyInv, NEW p \in Processes, Work(p) \/ Stop(p) PROVE ManyInv'
  <1>0. /\ ticker[p] \in Ticker /\ sched \in [Ids -> Row \cup {Absent, Deleted}] /\ now \in Times /\ now \in Nat
        /\ ticker \in [Processes -> Ticker] /\ SchedTypeOK
        /\ ticker[p].at <= now /\ ticker[p].at \in Nat /\ \A x \in InHand(p) : x.due <= ticker[p].at
    BY SchedulesAssumption DEF ManyInv, SchedTypeOK, PastOnly, Ticker, Times
  <1>1. NoTick \in Ticker /\ NoTick.at <= now /\ NoTick.todo \cup ({NoTick.job} \ {None}) = {}
    BY <1>0, SchedulesAssumption DEF NoTick, Ticker, Times
  <1>2. CASE SubmitConflicts(p) \/ Stop(p)
    <2>1. ticker' = [ticker EXCEPT ![p] = NoTick] /\ UNCHANGED <<now, sched, jobs, edits>>
      BY <1>2 DEF SubmitConflicts, Stop
    <2> QED
      BY <1>0, <1>1, <2>1, TickerMoves
  <1>3. CASE ListDue(p)
    <2> DEFINE ItemOf(s) == [id |-> s, due |-> sched[s].next, interval |-> sched[s].interval, params |-> sched[s].params]
    <2>1. /\ ticker' = [ticker EXCEPT ![p] = [at |-> now, job |-> None, todo |-> {ItemOf(s) : s \in {r \in Ids : Due(r)}}]]
          /\ UNCHANGED <<now, sched, jobs, edits>>
      BY <1>3 DEF ListDue
    <2>2. ASSUME NEW s \in Ids, Due(s) PROVE ItemOf(s) \in Item /\ ItemOf(s).due <= now
      <3>1. sched[s] \in Row \cup {Absent, Deleted} /\ sched[s].enabled /\ sched[s].next # None /\ sched[s].next <= now
        BY <1>0, <2>2 DEF Due
      <3>2. sched[s] \in Row
        BY <3>1, NoNext
      <3> QED
        BY <3>1, <3>2 DEF Row, Item, Nexts
    <2>3. PICK todo : todo = {ItemOf(s) : s \in {r \in Ids : Due(r)}}
      OBVIOUS
    <2>4. todo \subseteq Item /\ \A x \in todo : x.due <= now
      BY <2>2, <2>3
    <2> HIDE DEF ItemOf
    <2> DEFINE t == [at |-> now, job |-> None, todo |-> todo]
    <2>5. t \in Ticker /\ t.at = now /\ t.todo \cup ({t.job} \ {None}) = todo
      BY <1>0, <2>4 DEF Ticker
    <2>6. ticker' = [ticker EXCEPT ![p] = t] /\ now <= now
      BY <1>0, <2>1, <2>3
    <2> HIDE DEF t
    <2> QED
      BY <1>0, <2>1, <2>4, <2>5, <2>6, TickerMoves
  <1>4. CASE Submit(p)
    <2>1. PICK x \in ticker[p].todo :
            /\ ticker[p].job = None /\ jobs' = jobs \cup {AsJob(x)} /\ UNCHANGED <<now, sched, edits>>
            /\ \A j \in SameKey(x) : j = AsJob(x)
            /\ ticker' = [ticker EXCEPT ![p].job = x, ![p].todo = ticker[p].todo \ {x}]
      BY <1>4 DEF Submit, IsNext
    <2>2. x \in InHand(p)
      BY DEF InHand
    <2>3. x \in Item
      BY <1>0, <2>2, HandTyped
    <2> DEFINE t == [ticker[p] EXCEPT !.job = x, !.todo = ticker[p].todo \ {x}]
    <2>4. t \in Ticker /\ t.at = ticker[p].at /\ t.todo \cup ({t.job} \ {None}) \subseteq InHand(p)
      BY <1>0, <2>1, <2>3 DEF Ticker, InHand
    <2>5. ticker' = [ticker EXCEPT ![p] = t]
      BY <1>0, <2>1
    <2> HIDE DEF t
    <2>6. t.at <= now /\ \A y \in t.todo \cup ({t.job} \ {None}) : y.due <= t.at
      BY <1>0, <2>4
    <2> QED
      BY <1>0, <2>1, <2>2, <2>4, <2>5, <2>6, TickerMoves
  <1>5. CASE Advance(p)
    <2>1. PICK x : x = ticker[p].job
      OBVIOUS
    <2>2. PICK next : next = ComputeNextRun(x.interval, ticker[p].at)
      OBVIOUS
    <2>3. /\ x # None /\ UNCHANGED <<now, jobs, edits>>
          /\ sched' = IF Exists(x.id) THEN [sched EXCEPT ![x.id].next = next] ELSE sched
          /\ ticker' = [ticker EXCEPT ![p] = Served(p)]
      BY <1>5, <2>1, <2>2 DEF Advance, MoveTo
    <2>4. x.id \in Ids /\ x.interval \in Intervals \cup {None}
      BY <1>0, <2>1, <2>3, HandTyped DEF InHand
    <2>5. next \in Nexts
      <3>1. \A i \in Intervals : i \in Nat /\ ticker[p].at + i \in Nat
        BY <1>0, SchedulesAssumption
      <3> QED
        BY <2>2, <2>4, <3>1 DEF ComputeNextRun, Nexts
    <2>6. sched' \in [Ids -> Row \cup {Absent, Deleted}]
      <3>1. CASE Exists(x.id)
        <4>1. sched[x.id] \in Row
          BY <1>0, <2>4, <3>1 DEF Exists
        <4>2. [sched[x.id] EXCEPT !.next = next] \in Row
          BY <2>5, <4>1 DEF Row
        <4>3. sched' = [sched EXCEPT ![x.id] = [sched[x.id] EXCEPT !.next = next]]
          BY <2>3, <3>1
        <4> QED
          BY <1>0, <4>2, <4>3
      <3>2. CASE ~Exists(x.id)
        BY <1>0, <2>3, <3>2
      <3> QED
        BY <3>1, <3>2
    <2>7. /\ Served(p) \in Ticker
          /\ \/ Served(p).at = ticker[p].at /\ Served(p).job = None /\ Served(p).todo = ticker[p].todo
             \/ Served(p) = NoTick
      BY <1>0, <1>1 DEF Served, Ticker
    <2>8. Served(p).at <= now /\ \A y \in Served(p).todo \cup ({Served(p).job} \ {None}) : y.due <= Served(p).at
      <3>1. CASE Served(p) = NoTick
        BY <1>1, <3>1
      <3>2. CASE Served(p).at = ticker[p].at /\ Served(p).job = None /\ Served(p).todo = ticker[p].todo
        BY <1>0, <3>2 DEF InHand
      <3> QED
        BY <2>7, <3>1, <3>2
    <2> QED
      BY <2>3, <2>6, <2>7, <2>8, TickerMoves
  <1> QED
    BY <1>2, <1>3, <1>4, <1>5 DEF Work

\* With any number of scheduler processes that tick at once, stop anywhere and
\* overtake one another, and users that edit meanwhile, a schedule runs no
\* occurrence early and none twice.  (What is lost with a second process is the
\* distance between occurrences: a late update of next_run_at makes a new one.)
THEOREM NoOccurrenceTwice == SchedSpec => []OncePerDue
  <1>1. SchedInit => ManyInv
    <2> SUFFICES ASSUME SchedInit PROVE ManyInv
      OBVIOUS
    <2>1. NoTick \in Ticker /\ NoTick.at = 0 /\ NoTick.todo \cup ({NoTick.job} \ {None}) = {} /\ 0 <= 0
      BY SchedulesAssumption DEF NoTick, Ticker, Times
    <2>2. SchedTypeOK
      BY <2>1, SchedulesAssumption DEF SchedInit, SchedTypeOK, Times
    <2> QED
      BY <2>1, <2>2 DEF SchedInit, ManyInv, PastOnly, InHand, OncePerDue
  <1>2. ManyInv /\ [SchedNext]_schedVars => ManyInv'
    <2> SUFFICES ASSUME ManyInv, [SchedNext]_schedVars PROVE ManyInv'
      OBVIOUS
    <2>1. CASE Tick
      <3>1. /\ now' = now + 1 /\ now < MaxTime /\ UNCHANGED <<sched, ticker, jobs, edits>> /\ now \in Nat
            /\ \A j \in jobs : j.due \in Nat
        BY <2>1, SchedulesAssumption DEF Tick, ManyInv, SchedTypeOK, Times, Job
      <3>2. SchedTypeOK'
        BY <3>1, SchedulesAssumption DEF ManyInv, SchedTypeOK, Times
      <3>3. \A j \in jobs : j.due <= now'
        BY <3>1 DEF ManyInv, OncePerDue
      <3>4. ASSUME NEW p \in Processes PROVE PastOnly(p)'
        <4>1. ticker[p].at \in Nat /\ ticker[p].at <= now
          BY DEF ManyInv, SchedTypeOK, PastOnly, Ticker, Times
        <4>2. ticker[p].at <= now'
          BY <3>1, <4>1
        <4> QED
          BY <3>1, <3>3, <4>2 DEF ManyInv, PastOnly, InHand
      <3> QED
        BY <3>1, <3>2, <3>3, <3>4 DEF ManyInv, OncePerDue
    <2>2. CASE UNCHANGED schedVars
      BY <2>2 DEF schedVars, ManyInv, SchedTypeOK, PastOnly, InHand, OncePerDue
    <2> QED
      BY <2>1, <2>2, EditsApart, TicksApart DEF SchedNext
  <1>3. ManyInv => OncePerDue
    BY DEF ManyInv
  <1> QED
    BY <1>1, <1>2, <1>3, PTL DEF SchedSpec

-----------------------------------------------------------------------------
(* Cron *)

\* What the loop maintains: the candidate lies after the starting minute, and
\* nothing that matches has been leapt over.
CronInv ==
    /\ from \in Nat /\ dt \in Nat
    /\ cronPhase \in {"searching", "found", "overrun"} => from < dt /\ NonePassed
    /\ cronPhase = "found" => Matches(dt)
    /\ cronPhase = "overrun" => dt \notin Instants

\* A leap from a candidate whose month, day or hour does not fit passes no
\* minute that matches, since all the minutes on the way share it.
LEMMA LeapPassesNone ==
    ASSUME NEW Leap, NEW P, Leap \in [Instants -> Nat], P \in [Instants -> Nat], Leaps(Leap, P),
           NEW STATE S, \A t \in Instants : Matches(t) => P[t] \in S,
           from \in Nat, dt \in Instants, from < dt, NonePassed, P[dt] \notin S
    PROVE  /\ Leap[dt] \in Nat /\ from < Leap[dt]
           /\ \A t \in Instants : from < t /\ t < Leap[dt] => ~Matches(t)
<1>0. Horizon \in Nat /\ dt \in Nat /\ dt <= Horizon
  BY CalendarAssumption DEF Instants
<1>1. Leap[dt] \in dt + 1 .. Horizon + 1 /\ \A u \in dt .. Leap[dt] - 1 : P[u] = P[dt]
  BY DEF Leaps
<1>2. Leap[dt] \in Nat /\ from < Leap[dt]
  BY <1>0, <1>1
<1>3. ASSUME NEW t \in Instants, from < t, t < Leap[dt] PROVE ~Matches(t)
  <2>1. CASE t < dt
    BY <1>3, <2>1 DEF NonePassed
  <2>2. CASE ~(t < dt)
    <3>0. t \in Nat
      BY <1>0 DEF Instants
    <3>1. t \in dt .. Leap[dt] - 1
      BY <1>0, <1>2, <1>3, <2>2, <3>0
    <3>2. P[t] = P[dt]
      BY <1>1, <3>1
    <3>3. QED
      BY <3>2
  <2>3. QED
    BY <2>1, <2>2
<1>4. QED
  BY <1>2, <1>3

\* The three leaps of next_after and its step by one minute keep the invariant.
LEMMA LeapKeepsInv ==
    ASSUME CronInv, SkipMonth \/ SkipDay \/ SkipHour \/ SkipMinute
    PROVE  CronInv'
<1>1. /\ cronPhase = "searching" /\ dt \in Instants /\ fields' = fields /\ from' = from
      /\ cronPhase' = cronPhase /\ from \in Nat /\ from < dt /\ NonePassed
  BY DEF SkipMonth, SkipDay, SkipHour, SkipMinute, Turn, CronInv
<1>2. /\ dt' \in Nat /\ from < dt'
      /\ \A t \in Instants : from < t /\ t < dt' => ~Matches(t)
  <2>1. CASE SkipMonth
    <3>1. \A t \in Instants : Matches(t) => Month[t] \in fields[4]
      BY DEF Matches, MonthFits
    <3>2. Month[dt] \notin fields[4] /\ dt' = NextMonth[dt]
      BY <2>1 DEF SkipMonth, MonthFits
    <3>3. NextMonth \in [Instants -> Nat] /\ Month \in [Instants -> Nat] /\ Leaps(NextMonth, Month)
      BY CalendarAssumption
    <3>4. QED
      BY <1>1, <3>1, <3>2, <3>3, LeapPassesNone
  <2>2. CASE SkipDay
    <3>1. \A t \in Instants : Matches(t) => Day[t] \in fields[3] /\ Weekday[t] \in fields[5]
      BY DEF Matches, DayFits
    <3>2. ~(Day[dt] \in fields[3] /\ Weekday[dt] \in fields[5]) /\ dt' = NextDay[dt]
      BY <2>2 DEF SkipDay, DayFits
    <3>3. /\ NextDay \in [Instants -> Nat] /\ Day \in [Instants -> Nat] /\ Weekday \in [Instants -> Nat]
          /\ Leaps(NextDay, Day) /\ Leaps(NextDay, Weekday)
      BY CalendarAssumption
    <3>4. CASE Day[dt] \notin fields[3]
      BY <1>1, <3>1, <3>2, <3>3, <3>4, LeapPassesNone
    <3>5. CASE Weekday[dt] \notin fields[5]
      BY <1>1, <3>1, <3>2, <3>3, <3>5, LeapPassesNone
    <3>6. QED
      BY <3>2, <3>4, <3>5
  <2>3. CASE SkipHour
    <3>1. \A t \in Instants : Matches(t) => Hour[t] \in fields[2]
      BY DEF Matches, HourFits
    <3>2. Hour[dt] \notin fields[2] /\ dt' = NextHour[dt]
      BY <2>3 DEF SkipHour, HourFits
    <3>3. NextHour \in [Instants -> Nat] /\ Hour \in [Instants -> Nat] /\ Leaps(NextHour, Hour)
      BY CalendarAssumption
    <3>4. QED
      BY <1>1, <3>1, <3>2, <3>3, LeapPassesNone
  <2>4. CASE SkipMinute
    <3>1. ~Matches(dt) /\ dt' = dt + 1
      BY <2>4 DEF SkipMinute, Matches
    <3>2. ASSUME NEW t \in Instants, from < t, t < dt' PROVE ~Matches(t)
      <4>1. t \in Nat /\ dt \in Nat
        BY <1>1, CalendarAssumption DEF Instants
      <4>2. t < dt \/ t = dt
        BY <4>1, <3>1, <3>2
      <4>3. QED
        BY <1>1, <3>1, <3>2, <4>2 DEF NonePassed
    <3>3. dt' \in Nat /\ from < dt'
      <4>1. dt \in Nat
        BY <1>1, CalendarAssumption DEF Instants
      <4>2. QED
        BY <1>1, <3>1, <4>1
    <3>4. QED
      BY <3>2, <3>3
  <2>5. QED
    BY <2>1, <2>2, <2>3, <2>4
<1>3. QED
  BY <1>1, <1>2 DEF CronInv, NonePassed, Matches, MonthFits, DayFits, HourFits, MinuteFits

\* The invariant holds of every behaviour of the search.
LEMMA CronInvHolds == CronSpec => []CronInv
<1>1. CronInit => CronInv
  BY DEF CronInit, CronInv
<1>2. CronInv /\ [CronNext]_cronVars => CronInv'
  <2> SUFFICES ASSUME CronInv, [CronNext]_cronVars PROVE CronInv'
    OBVIOUS
  <2>1. CASE ParseField \/ RefuseField
    BY <2>1 DEF ParseField, RefuseField, CronInv
  <2>2. CASE StartSearch
    <3>1. from' \in Nat /\ dt' = from' + 1 /\ cronPhase' = "searching"
      BY <2>2, CalendarAssumption DEF StartSearch, Instants
    <3>2. dt' \in Nat /\ from' < dt' /\ \A t \in Nat : ~(from' < t /\ t < dt')
      <4>1. \A m \in Nat : m + 1 \in Nat /\ m < m + 1 /\ \A t \in Nat : ~(m < t /\ t < m + 1)
        OBVIOUS
      <4>2. QED
        BY ONLY <3>1, <4>1, Zenon
    <3>3. ASSUME NEW t \in Instants PROVE ~(from' < t /\ t < dt')
      <4>1. t \in Nat
        BY CalendarAssumption DEF Instants
      <4>2. QED
        BY <3>2, <4>1
    <3>4. NonePassed'
      BY <3>3 DEF NonePassed
    <3>5. QED
      BY <3>1, <3>2, <3>4 DEF CronInv
  <2>3. CASE SkipMonth \/ SkipDay \/ SkipHour \/ SkipMinute
    BY <2>3, LeapKeepsInv
  <2>4. CASE Found
    BY <2>4 DEF Found, Turn, CronInv, NonePassed, Matches, MonthFits, DayFits, HourFits, MinuteFits
  <2>5. CASE Exhausted
    BY <2>5 DEF Exhausted, CronInv
  <2>6. CASE Overrun
    BY <2>6 DEF Overrun, CronInv, NonePassed, Matches, MonthFits, DayFits, HourFits, MinuteFits
  <2>7. CASE UNCHANGED cronVars
    BY <2>7 DEF cronVars, CronInv, NonePassed, Matches, MonthFits, DayFits, HourFits, MinuteFits
  <2>8. QED
    BY <2>1, <2>2, <2>3, <2>4, <2>5, <2>6, <2>7 DEF CronNext
<1>3. QED
  BY <1>1, <1>2, PTL DEF CronSpec

\* For every calendar, expression and starting minute: next_after returns the
\* least later minute that matches, and runs off the calendar only if none does.
THEOREM NextRunIsLeast == CronSpec => []NextIsLeast
<1>1. CronInv => NextIsLeast
  <2> SUFFICES ASSUME CronInv PROVE NextIsLeast
    OBVIOUS
  <2>1. dt \in Nat /\ from \in Nat /\ Horizon \in Nat /\ Instants = 0 .. Horizon
    BY CalendarAssumption DEF CronInv, Instants
  <2>2. CASE cronPhase = "found"
    BY <2>1, <2>2 DEF CronInv, NextIsLeast, NonePassed
  <2>3. CASE cronPhase = "overrun"
    BY <2>1, <2>3 DEF CronInv, NextIsLeast, NonePassed
  <2>4. QED
    BY <2>2, <2>3 DEF NextIsLeast
<1>2. QED
  BY <1>1, CronInvHolds, PTL
=============================================================================
