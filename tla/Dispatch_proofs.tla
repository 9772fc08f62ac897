---------------------------- MODULE Dispatch_proofs ----------------------------
(***************************************************************************)
(* The calls with deadlines, one after the other: a dispatch reports        *)
(* ambiguous outcomes as such and its abandoned worker decides on no        *)
(* attempt; a browser page with an unknown effect is closed; what the       *)
(* providers do outside happens once where it must, and is reported as it   *)
(* was; the persisted circuit of a provider follows its protocol.  For every *)
(* budget, retry policy, number of callers, dispatches and processes.       *)
(***************************************************************************)
EXTENDS Dispatch, BrowserWorker, Outbound, BreakerThreads, FiniteSetTheorems, TLAPS

Callers == {"gate", "validate", "launch", "join", "done"}
Places == {"off", "check", "begin", "call", "sleep", "ended"}

\* The types the argument needs.
Typed ==
    /\ now \in Nat /\ joinAt \in Nat /\ started \in Nat
    /\ deadline \in Nat \cup {None}
    /\ caller \in Callers /\ worker \in Places
    /\ box \in Endings \cup {None}

\* Before the launch there is no worker, and without one nothing was started.
NoWorkerYet ==
    /\ caller \in {"gate", "validate", "launch"} => worker = "off" /\ verdict = None
    /\ caller = "join" => worker # "off" /\ verdict = None
    /\ worker = "off" => started = 0
    /\ worker = "ended" => box \in Endings

\* The codes that promise a clean failure of an ambiguous action are given only
\* where no worker was launched.
CleanIsEarly == verdict \in {"UNAVAILABLE", "TIMEOUT"} /\ action.ambiguous => worker = "off"

\* The worker's deadline, taken before the validation, ends no later than the
\* caller's wait, which begins at the launch.
DeadlineFirst ==
    /\ caller # "gate" /\ Budget > 0 => deadline \in Nat /\ deadline <= now + Budget
    /\ caller = "join" /\ Budget > 0 => deadline \in Nat /\ deadline <= joinAt + Budget
    /\ caller = "done" /\ worker \notin {"off", "ended"} => deadline \in Nat /\ deadline <= now

DispatchInv == Typed /\ NoWorkerYet /\ CleanIsEarly /\ DeadlineFirst

\* A worker's ending never becomes a clean code for an ambiguous action
\* (Phase B's conversion in _run_provider).
LEMMA ConvertedCode ==
    ASSUME NEW e \in Endings, action.ambiguous
    PROVE  Classify(e) \notin {"UNAVAILABLE", "TIMEOUT"}
  BY DEF Classify, Ambiguity, Endings, Codes

\* Before _run_provider is entered there is neither worker nor verdict.
LEMMA InvInit == Init => DispatchInv
  BY DEF Init, DispatchInv, Typed, NoWorkerYet, CleanIsEarly, DeadlineFirst, Callers, Places

\* Every step of the caller, of run_with_timeout's thread and of with_retry in it
\* keeps the invariant.
LEMMA InvStep == DispatchInv /\ [Next]_vars => DispatchInv'
<1> SUFFICES ASSUME DispatchInv, [Next]_vars PROVE DispatchInv'
  OBVIOUS
<1> USE DispatchAssumption
<1> USE DEF DispatchInv, Typed, NoWorkerYet, CleanIsEarly, DeadlineFirst, Callers, Places, workerVars
<1>1. CASE Enter
  <2>1. (Budget > 0 => deadline' = now + Budget) /\ (~ Budget > 0 => deadline' = None)
    BY <1>1, Zenon DEF Enter
  <2>2. caller' \in {"done", "validate"} /\ (caller' = "validate" => verdict' = verdict)
    BY <1>1 DEF Enter, Report
  <2>3. now' = now /\ joinAt' = now /\ worker = "off" /\ verdict = None /\ UNCHANGED <<worker, box, started>>
    BY <1>1 DEF Enter
  <2>4. deadline' \in Nat \cup {None}
    <3>1. CASE Budget > 0
      BY <2>1, <3>1
    <3>2. CASE ~ Budget > 0
      BY <2>1, <3>2
    <3>3. QED
      BY <3>1, <3>2
  <2>5. Typed' /\ NoWorkerYet' /\ CleanIsEarly'
    BY <2>2, <2>3, <2>4
  <2>6. DeadlineFirst'
    BY <2>1, <2>2, <2>3
  <2>7. QED
    BY <2>5, <2>6
<1>2. ASSUME NEW code, Validated(code) PROVE DispatchInv'
  BY <1>2 DEF Validated, Report
<1>3. CASE Launch
  BY <1>3 DEF Launch, Verdicts, Codes
<1>4. CASE JoinReturns
  <2>1. action.ambiguous => Classify(box) \notin {"UNAVAILABLE", "TIMEOUT"}
    BY <1>4, ConvertedCode DEF JoinReturns
  <2>2. QED
    BY <1>4, <2>1 DEF JoinReturns, Report
<1>5. CASE JoinTimesOut
  <2>1. action.ambiguous => Classify("TIMEOUT") \notin {"UNAVAILABLE", "TIMEOUT"}
    BY ConvertedCode DEF Endings, Codes
  <2>2. QED
    BY <1>5, <2>1 DEF JoinTimesOut, Report
<1>6. CASE Check
  BY <1>6 DEF Check, End, Endings, Codes
<1>7. CASE StartAttempt
  BY <1>7 DEF StartAttempt
<1>8. ASSUME NEW ending \in Endings, AttemptEnds(ending) PROVE DispatchInv'
  BY <1>8 DEF AttemptEnds, End, Endings, Codes
<1>9. CASE Wake
  BY <1>9 DEF Wake
<1>10. CASE Tick
  BY <1>10 DEF Tick
<1>11. CASE UNCHANGED vars
  BY <1>11 DEF vars
<1> QED
  BY <1>1, <1>2, <1>3, <1>4, <1>5, <1>6, <1>7, <1>8, <1>9, <1>10, <1>11 DEF Next, CallerStep

\* The inductive invariant of a dispatch (_run_provider, run_with_timeout and
\* with_retry).
THEOREM DispatchInvariant == Spec => []DispatchInv
  BY InvInit, InvStep, PTL DEF Spec

\* Whatever the budget and the retry policy, an ambiguous action whose execute
\* was entered is never reported as a timeout or an outage (_run_provider).
THEOREM AmbiguityAlwaysReported == Spec => []AmbiguityReported
<1>1. DispatchInv => AmbiguityReported
  BY DEF DispatchInv, CleanIsEarly, NoWorkerYet, AmbiguityReported
<1> QED
  BY <1>1, DispatchInvariant, PTL

\* Whatever the budget and the retry policy, the worker that run_with_timeout
\* left behind passes no further check of its deadline (with_retry).
THEOREM NothingNewAfterReport == Spec => NoAttemptAfterReport
<1>1. ASSUME DispatchInv, [Next]_vars
      PROVE  [caller = "done" => ~ (worker = "check" /\ worker' = "begin")]_vars
  <2>1. SUFFICES ASSUME caller = "done", worker = "check", worker' = "begin", Next PROVE FALSE
    BY <1>1 DEF vars
  <2>2. deadline \in Nat /\ deadline <= now /\ now \in Nat
    BY <1>1, <2>1 DEF DispatchInv, DeadlineFirst, Typed
  <2>3. ~ Check
    BY <2>1, <2>2, DispatchAssumption DEF Check, End
  <2>4. QED
    BY <2>1, <2>3 DEF Next, CallerStep, Enter, Validated, Launch, JoinReturns, JoinTimesOut, StartAttempt,
                      AttemptEnds, Wake, Tick, Report, End, workerVars
<1> QED
  BY <1>1, DispatchInvariant, PTL DEF Spec, NoAttemptAfterReport

-----------------------------------------------------------------------------
(* The browser worker *)

Answers == {"none", "OK", "SIDE_EFFECT_UNKNOWN", "VALIDATION", "FORBIDDEN", "AUTH", "NOT_FOUND", "TIMEOUT",
            "UNAVAILABLE", "NOT_IMPLEMENTED", "PROVIDER_ERROR", "CONFLICT"}
BCall == [phase: {"none", "putting", "waiting", "done"}, op: Operations, session: SessionKeys,
          late: BOOLEAN, cancelled: BOOLEAN, answer: Answers]

BrowserTyped ==
    /\ commands \in Seq(BrowserCallers)
    /\ calls \in [BrowserCallers -> BCall]
    /\ current \in BrowserCallers \cup {Nothing}
    /\ marks \in [SessionKeys -> SUBSET BrowserCallers]
    /\ touched \subseteq BrowserCallers

Queued(c) == \E i \in 1..Len(commands) : commands[i] = c
QueuedOnce == \A i, j \in 1..Len(commands) : commands[i] = commands[j] => i = j

\* A command that the worker has still to answer: its caller waits, or has left
\* with an outcome that is unknown if the command has an effect.
Pending(c) ==
    \/ calls[c].phase = "waiting"
    \/ /\ calls[c].phase = "done" /\ calls[c].cancelled
       /\ calls[c].op \in Interactions => calls[c].answer = "SIDE_EFFECT_UNKNOWN"

\* A command is in one place: with its caller, in the queue, in the worker's
\* hands, or let go of; it has touched a page only from the worker's hands.
CallKnows(c) ==
    /\ calls[c].phase \in {"none", "putting"} => ~Queued(c) /\ current # c /\ c \notin touched
    /\ calls[c].phase # "done" => calls[c].answer = "none"
    /\ Queued(c) => current # c /\ c \notin touched
    /\ Queued(c) \/ current = c => Pending(c)
    /\ c \in touched => calls[c].op \in Interactions /\ (current # c => calls[c].phase = "done")

\* Only the context of its own session holds an interaction's effect.
MarksKnow == \A s \in SessionKeys : \A c \in marks[s] : c \in touched /\ s = calls[c].session

BrowserInv ==
    /\ BrowserTyped /\ QueuedOnce /\ MarksKnow /\ UnknownIsQuarantined
    /\ \A c \in BrowserCallers : CallKnows(c)

-----------------------------------------------------------------------------
\* A command in a caller's hands is typed.
LEMMA NoCallYetTyped == NoCallYet \in BCall /\ NoCallYet.phase = "none" /\ NoCallYet.answer = "none"
  <1>1. (CHOOSE s \in SessionKeys : TRUE) \in SessionKeys
    BY BrowserAssumption
  <1> QED
    BY <1>1 DEF NoCallYet, BCall, Operations, Answers

\* ... and so is the one of a new call.
LEMMA NewCallTyped ==
    ASSUME NEW op \in Operations, NEW s \in SessionKeys
    PROVE  NewCall(op, s) \in BCall /\ NewCall(op, s).phase = "putting" /\ NewCall(op, s).answer = "none"
  <1> HIDE DEF NoCallYet
  <1>1. NoCallYet \in [phase: {"none", "putting", "waiting", "done"}, op: Operations, session: SessionKeys,
                       late: BOOLEAN, cancelled: BOOLEAN, answer: Answers] /\ NoCallYet.answer = "none"
    BY NoCallYetTyped DEF BCall
  <1>2. "putting" \in {"none", "putting", "waiting", "done"}
    OBVIOUS
  <1> QED
    BY <1>1, <1>2 DEF NewCall, BCall

\* ... and one with its answer.
LEMMA AnsweredTyped ==
    ASSUME NEW r \in BCall, NEW a \in Answers
    PROVE  /\ Answered(r, a) \in BCall /\ Answered(r, a).phase = "done" /\ Answered(r, a).answer = a
           /\ Answered(r, a).op = r.op /\ Answered(r, a).session = r.session
           /\ Answered(r, a).cancelled = r.cancelled
  <1>1. r \in [phase: {"none", "putting", "waiting", "done"}, op: Operations, session: SessionKeys,
               late: BOOLEAN, cancelled: BOOLEAN, answer: Answers]
    BY DEF BCall
  <1>2. "done" \in {"none", "putting", "waiting", "done"}
    OBVIOUS
  <1> QED
    BY <1>1, <1>2 DEF Answered, BCall

-----------------------------------------------------------------------------
(* The callers *)

\* A call before its command is in the queue touches nothing.
LEMMA EarlyKeeps ==
    ASSUME BrowserInv, NEW c \in BrowserCallers, calls[c].phase \in {"none", "putting"},
           NEW n \in BCall, calls' = [calls EXCEPT ![c] = n],
           n.phase = "done" \/ (n.phase = "putting" /\ n.answer = "none"),
           UNCHANGED <<commands, current, touched, failed, marks>>
    PROVE  BrowserInv'
  <1>1. calls'[c] = n /\ \A d \in BrowserCallers \ {c} : calls'[d] = calls[d]
    BY DEF BrowserInv, BrowserTyped
  <1>2. BrowserTyped' /\ QueuedOnce'
    BY DEF BrowserInv, BrowserTyped, QueuedOnce
  <1>3. ~Queued(c) /\ current # c /\ c \notin touched
    BY DEF BrowserInv, CallKnows
  <1>m. \A s \in SessionKeys : c \notin marks[s] /\ marks[s] \subseteq BrowserCallers
    BY <1>3 DEF BrowserInv, MarksKnow, BrowserTyped
  <1>4. \A d \in BrowserCallers : Queued(d)' <=> Queued(d)
    BY DEF Queued
  <1>5. CallKnows(c)'
    BY <1>1, <1>3, <1>4 DEF CallKnows
  <1>6. \A d \in BrowserCallers \ {c} : CallKnows(d)'
    BY <1>1, <1>4 DEF BrowserInv, CallKnows, Pending
  <1>7. MarksKnow'
    BY <1>1, <1>m DEF BrowserInv, MarksKnow
  <1>8. UnknownIsQuarantined'
    BY <1>1, <1>3, <1>m DEF BrowserInv, UnknownIsQuarantined
  <1> QED
    BY <1>2, <1>5, <1>6, <1>7, <1>8 DEF BrowserInv

\* The steps of a call up to the queue: a call, a refusal, a full queue.
LEMMA CallKeeps ==
    ASSUME BrowserInv, NEW c \in BrowserCallers,
           \/ \E op \in Operations, s \in SessionKeys : BrowserCall(c, op, s) \/ RefuseCall(c, op, s)
           \/ \E s \in SessionKeys : CloseCall(c, s)
           \/ PutTimesOut(c)
    PROVE  BrowserInv'
  <1>1. ASSUME NEW op \in Operations, NEW s \in SessionKeys, BrowserCall(c, op, s) \/ RefuseCall(c, op, s)
        PROVE  BrowserInv'
    <2>1. calls[c].phase = "none" /\ UNCHANGED <<commands, current, touched, failed, marks>>
      BY <1>1 DEF BrowserCall, RefuseCall
    <2>2. \/ calls' = [calls EXCEPT ![c] = NewCall(op, s)]
          \/ \E a \in Answers : calls' = [calls EXCEPT ![c] = Answered(NewCall(op, s), a)]
      BY <1>1 DEF BrowserCall, RefuseCall, ValidateBrowser, ResolveFillText, Answers
    <2> QED
      BY <2>1, <2>2, NewCallTyped, AnsweredTyped, EarlyKeeps
  <1>2. ASSUME NEW s \in SessionKeys, CloseCall(c, s) PROVE BrowserInv'
    <2>1. calls[c].phase = "none" /\ UNCHANGED <<commands, current, touched, failed, marks>>
      BY <1>2 DEF CloseCall
    <2>2. \/ calls' = [calls EXCEPT ![c] = NewCall("close_context", s)]
          \/ calls' = [calls EXCEPT ![c] = Answered(NewCall("close_context", s), "OK")]
      BY <1>2 DEF CloseCall
    <2>3. "close_context" \in Operations /\ "OK" \in Answers
      BY DEF Operations, Answers
    <2> QED
      BY <2>1, <2>2, <2>3, NewCallTyped, AnsweredTyped, EarlyKeeps
  <1>3. ASSUME PutTimesOut(c) PROVE BrowserInv'
    <2> DEFINE left == [calls[c] EXCEPT !.cancelled = TRUE]
    <2>1. /\ calls[c].phase = "putting" /\ calls' = [calls EXCEPT ![c] = Answered(left, "UNAVAILABLE")]
          /\ UNCHANGED <<commands, current, touched, failed, marks>>
      BY <1>3 DEF PutTimesOut
    <2>2. calls[c] \in BCall
      BY DEF BrowserInv, BrowserTyped
    <2>3. left \in BCall /\ "UNAVAILABLE" \in Answers
      BY <2>2 DEF BCall, Answers
    <2> HIDE DEF left
    <2> QED
      BY <2>1, <2>3, AnsweredTyped, EarlyKeeps
  <1> QED
    BY <1>1, <1>2, <1>3

\* The command is put in the queue.
LEMMA PutKeeps == ASSUME BrowserInv, NEW c \in BrowserCallers, PutCommand(c) PROVE BrowserInv'
  <1>1. /\ calls[c].phase = "putting" /\ commands' = Append(commands, c)
        /\ calls' = [calls EXCEPT ![c].phase = "waiting"]
        /\ UNCHANGED <<current, touched, failed, marks>>
    BY DEF PutCommand
  <1>t. calls[c] \in BCall /\ commands \in Seq(BrowserCallers)
    BY DEF BrowserInv, BrowserTyped
  <1>2. calls'[c] = [calls[c] EXCEPT !.phase = "waiting"] /\ \A d \in BrowserCallers \ {c} : calls'[d] = calls[d]
    BY <1>1 DEF BrowserInv, BrowserTyped
  <1>3. /\ calls'[c] \in BCall /\ calls'[c].phase = "waiting" /\ calls'[c].answer = calls[c].answer
        /\ calls'[c].op = calls[c].op /\ calls'[c].session = calls[c].session
    BY <1>2, <1>t DEF BCall
  <1>4. BrowserTyped'
    BY <1>1, <1>2, <1>3, <1>t DEF BrowserInv, BrowserTyped
  <1>5. ~Queued(c) /\ current # c /\ c \notin touched /\ calls[c].answer = "none"
    BY <1>1 DEF BrowserInv, CallKnows
  <1>6. /\ Len(commands') = Len(commands) + 1 /\ commands'[Len(commands) + 1] = c
        /\ \A i \in 1..Len(commands) : commands'[i] = commands[i]
    BY <1>1, <1>t
  <1>7. QueuedOnce'
    <2>1. ASSUME NEW i \in 1..Len(commands'), NEW j \in 1..Len(commands'), commands'[i] = commands'[j] PROVE i = j
      <3>1. Len(commands) \in Nat
        BY <1>t
      <3>2. CASE i \in 1..Len(commands) /\ j \in 1..Len(commands)
        BY <1>6, <2>1, <3>2 DEF BrowserInv, QueuedOnce
      <3>3. CASE i = Len(commands) + 1 /\ j \in 1..Len(commands)
        BY <1>5, <1>6, <2>1, <3>3 DEF Queued
      <3>4. CASE j = Len(commands) + 1 /\ i \in 1..Len(commands)
        BY <1>5, <1>6, <2>1, <3>4 DEF Queued
      <3> QED
        BY <1>6, <3>1, <3>2, <3>3, <3>4
    <2> QED
      BY <2>1 DEF QueuedOnce
  <1>8. ASSUME NEW d \in BrowserCallers \ {c} PROVE CallKnows(d)'
    <2>1. Queued(d)' => Queued(d)
      <3> SUFFICES ASSUME NEW i \in 1..Len(commands'), commands'[i] = d PROVE Queued(d)
        BY DEF Queued
      <3>1. Len(commands) \in Nat
        BY <1>t
      <3>2. i \in 1..Len(commands)
        BY <1>6, <3>1
      <3> QED
        BY <1>6, <3>2 DEF Queued
    <2> QED
      BY <1>1, <1>2, <2>1 DEF BrowserInv, CallKnows, Pending
  <1>9. CallKnows(c)'
    BY <1>1, <1>3, <1>5 DEF CallKnows, Pending
  <1>10. MarksKnow'
    BY <1>1, <1>2, <1>3 DEF BrowserInv, MarksKnow, BrowserTyped
  <1>11. UnknownIsQuarantined'
    BY <1>1, <1>2, <1>3, <1>5 DEF BrowserInv, UnknownIsQuarantined
  <1> QED
    BY <1>4, <1>7, <1>8, <1>9, <1>10, <1>11 DEF BrowserInv

\* A deadline passes.
LEMMA DeadlineKeeps == ASSUME BrowserInv, NEW c \in BrowserCallers, DeadlinePasses(c) PROVE BrowserInv'
  <1>1. calls' = [calls EXCEPT ![c].late = TRUE] /\ UNCHANGED <<commands, current, touched, failed, marks>>
    BY DEF DeadlinePasses
  <1>2. calls[c] \in BCall
    BY DEF BrowserInv, BrowserTyped
  <1>3. calls'[c] = [calls[c] EXCEPT !.late = TRUE] /\ \A d \in BrowserCallers \ {c} : calls'[d] = calls[d]
    BY <1>1 DEF BrowserInv, BrowserTyped
  <1>4. calls'[c] \in BCall /\ \A d \in BrowserCallers :
             /\ calls'[d].phase = calls[d].phase /\ calls'[d].answer = calls[d].answer
             /\ calls'[d].op = calls[d].op /\ calls'[d].session = calls[d].session
             /\ calls'[d].cancelled = calls[d].cancelled
    BY <1>2, <1>3 DEF BCall
  <1>5. BrowserTyped' /\ QueuedOnce'
    BY <1>1, <1>3, <1>4 DEF BrowserInv, BrowserTyped, QueuedOnce
  <1>6. \A d \in BrowserCallers : CallKnows(d)'
    BY <1>1, <1>4 DEF BrowserInv, CallKnows, Pending, Queued
  <1>7. MarksKnow' /\ UnknownIsQuarantined'
    BY <1>1, <1>4 DEF BrowserInv, MarksKnow, UnknownIsQuarantined, BrowserTyped
  <1> QED
    BY <1>5, <1>6, <1>7 DEF BrowserInv

\* A caller leaves: the page its command is about to touch, or has touched, is
\* still the worker's.
LEMMA GiveUpKeeps == ASSUME BrowserInv, NEW c \in BrowserCallers, GiveUp(c) PROVE BrowserInv'
  <1> DEFINE left == [calls[c] EXCEPT !.cancelled = TRUE]
             a == IF calls[c].op \in Interactions THEN "SIDE_EFFECT_UNKNOWN" ELSE "TIMEOUT"
  <1>1. /\ calls[c].phase = "waiting" /\ calls' = [calls EXCEPT ![c] = Answered(left, a)]
        /\ UNCHANGED <<commands, current, touched, failed, marks>>
    BY DEF GiveUp
  <1>2. calls[c] \in BCall
    BY DEF BrowserInv, BrowserTyped
  <1>3. /\ left \in BCall /\ a \in Answers /\ left.cancelled = TRUE /\ left.op = calls[c].op
        /\ left.session = calls[c].session
    BY <1>2 DEF BCall, Answers
  <1>4. calls[c].op \in Interactions => a = "SIDE_EFFECT_UNKNOWN"
    OBVIOUS
  <1> HIDE DEF left, a
  <1>5. calls'[c] = Answered(left, a) /\ \A d \in BrowserCallers \ {c} : calls'[d] = calls[d]
    BY <1>1 DEF BrowserInv, BrowserTyped
  <1>6. /\ calls'[c] \in BCall /\ calls'[c].phase = "done" /\ calls'[c].answer = a /\ calls'[c].op = calls[c].op
        /\ calls'[c].session = calls[c].session /\ calls'[c].cancelled
    BY <1>3, <1>5, AnsweredTyped
  <1>7. BrowserTyped' /\ QueuedOnce'
    BY <1>1, <1>5, <1>6 DEF BrowserInv, BrowserTyped, QueuedOnce
  <1>8. \A d \in BrowserCallers : Queued(d)' <=> Queued(d)
    BY <1>1 DEF Queued
  <1>9. CallKnows(c)'
    BY <1>1, <1>4, <1>6, <1>8 DEF BrowserInv, CallKnows, Pending
  <1>10. \A d \in BrowserCallers \ {c} : CallKnows(d)'
    BY <1>1, <1>5, <1>8 DEF BrowserInv, CallKnows, Pending
  <1>11. MarksKnow'
    BY <1>1, <1>5, <1>6 DEF BrowserInv, MarksKnow, BrowserTyped
  <1>12. UnknownIsQuarantined'
    <2>1. c \in touched => calls[c].op \in Interactions /\ current = c
      BY <1>1 DEF BrowserInv, CallKnows
    <2>2. current # c => \A s \in SessionKeys : c \notin marks[s]
      BY <2>1 DEF BrowserInv, MarksKnow
    <2>3. a \in {"TIMEOUT", "UNAVAILABLE"} => c \notin touched
      BY <1>4, <2>1
    <2> QED
      BY <1>1, <1>5, <1>6, <2>2, <2>3 DEF BrowserInv, UnknownIsQuarantined
  <1> QED
    BY <1>7, <1>9, <1>10, <1>11, <1>12 DEF BrowserInv

-----------------------------------------------------------------------------
(* The worker *)

\* What a response does to the call that it reaches, or no longer reaches.
LEMMA RespondFacts ==
    ASSUME BrowserInv, NEW c \in BrowserCallers, NEW a \in Answers, Respond(c, a)
    PROVE  /\ calls' \in [BrowserCallers -> BCall]
           /\ \A d \in BrowserCallers \ {c} : calls'[d] = calls[d]
           /\ calls'[c].op = calls[c].op /\ calls'[c].session = calls[c].session
           /\ calls[c].phase = "waiting" => calls'[c].phase = "done" /\ calls'[c].answer = a
           /\ calls[c].phase # "waiting" => calls'[c] = calls[c]
  <1>1. calls[c] \in BCall /\ calls \in [BrowserCallers -> BCall]
    BY DEF BrowserInv, BrowserTyped
  <1>2. CASE calls[c].phase = "waiting"
    <2>1. calls' = [calls EXCEPT ![c] = Answered(calls[c], a)]
      BY <1>2 DEF Respond
    <2> QED
      BY <1>1, <1>2, <2>1, AnsweredTyped
  <1>3. CASE calls[c].phase # "waiting"
    BY <1>1, <1>3 DEF Respond
  <1> QED
    BY <1>2, <1>3

\* The worker lets go of a command: what it answers is true of the page, and a
\* page that holds an unknown effect is closed.
LEMMA TurnKeeps ==
    ASSUME BrowserInv, current # Nothing, NEW a \in Answers, Respond(current, a), current' = Nothing,
           UNCHANGED <<commands, touched>>, failed \subseteq failed',
           marks' \in [SessionKeys -> SUBSET BrowserCallers], \A s \in SessionKeys : marks'[s] \subseteq marks[s],
           a = "TIMEOUT" => current \notin touched,
           a = "UNAVAILABLE" => current \notin touched \/ current \in failed',
           current \in touched /\ (calls[current].cancelled \/ a = "SIDE_EFFECT_UNKNOWN")
             => current \in failed' \/ current \notin marks'[calls[current].session]
    PROVE  BrowserInv'
  <1>0. PICK c \in BrowserCallers : c = current
    BY DEF BrowserInv, BrowserTyped
  <1>1. /\ calls' \in [BrowserCallers -> BCall]
        /\ \A d \in BrowserCallers \ {c} : calls'[d] = calls[d]
        /\ calls'[c].op = calls[c].op /\ calls'[c].session = calls[c].session
        /\ calls[c].phase = "waiting" => calls'[c].phase = "done" /\ calls'[c].answer = a
        /\ calls[c].phase # "waiting" => calls'[c] = calls[c]
    BY <1>0, RespondFacts
  <1>2. CallKnows(c) /\ Pending(c) /\ ~Queued(c)
    BY <1>0 DEF BrowserInv, CallKnows
  <1>3. calls'[c].phase = "done"
    BY <1>1, <1>2 DEF Pending
  <1>4. BrowserTyped' /\ QueuedOnce'
    BY <1>1 DEF BrowserInv, BrowserTyped, QueuedOnce
  <1>5. \A d \in BrowserCallers : (Queued(d)' <=> Queued(d)) /\ current' # d
    BY BrowserAssumption DEF Queued
  <1>6. CallKnows(c)'
    BY <1>1, <1>2, <1>3, <1>5 DEF CallKnows
  <1>7. \A d \in BrowserCallers \ {c} : CallKnows(d)'
    BY <1>0, <1>1, <1>5 DEF BrowserInv, CallKnows, Pending
  <1>8. MarksKnow'
    <2>1. ASSUME NEW s \in SessionKeys, NEW d \in marks'[s] PROVE d \in touched /\ s = calls'[d].session
      <3>1. d \in marks[s] /\ d \in BrowserCallers
        BY <2>1 DEF BrowserInv, BrowserTyped
      <3>2. d \in touched /\ s = calls[d].session
        BY <3>1 DEF BrowserInv, MarksKnow
      <3> QED
        BY <1>1, <3>1, <3>2
    <2> QED
      BY <2>1 DEF MarksKnow
  <1>9. UnknownIsQuarantined'
    <2>1. ASSUME NEW d \in BrowserCallers \ {c}
          PROVE  /\ calls'[d].answer = "SIDE_EFFECT_UNKNOWN" /\ d \notin failed'
                      => \A s \in SessionKeys : d \notin marks'[s]
                 /\ calls'[d].answer = "TIMEOUT" => d \notin touched
                 /\ calls'[d].answer = "UNAVAILABLE" => d \notin touched \/ d \in failed'
      <3>1. calls'[d] = calls[d] /\ current # d
        BY <1>0, <1>1
      <3> QED
        BY <3>1 DEF BrowserInv, UnknownIsQuarantined
    <2>2. ASSUME calls'[c].answer = "SIDE_EFFECT_UNKNOWN", c \notin failed', NEW s \in SessionKeys, c \in marks'[s]
          PROVE  FALSE
      <3>1. c \in touched /\ s = calls[c].session
        BY <2>2 DEF BrowserInv, MarksKnow
      <3>2. calls[c].cancelled \/ a = "SIDE_EFFECT_UNKNOWN"
        BY <1>1, <1>2, <2>2 DEF Pending
      <3> QED
        BY <1>0, <2>2, <3>1, <3>2
    <2>3. /\ calls'[c].answer = "TIMEOUT" => c \notin touched
          /\ calls'[c].answer = "UNAVAILABLE" => c \notin touched \/ c \in failed'
      BY <1>0, <1>1 DEF BrowserInv, UnknownIsQuarantined
    <2> QED
      BY <2>1, <2>2, <2>3 DEF UnknownIsQuarantined
  <1> QED
    BY <1>4, <1>6, <1>7, <1>8, <1>9 DEF BrowserInv

\* The end of a turn of the worker, with the sessions in gone closed.
LEMMA EndTurnKeeps ==
    ASSUME BrowserInv, current # Nothing, NEW s, NEW gone, NEW a \in Answers, EndTurn(s, gone, a),
           UNCHANGED touched, failed \subseteq failed',
           a = "TIMEOUT" => current \notin touched,
           a = "UNAVAILABLE" => current \notin touched \/ current \in failed',
           current \in touched /\ (calls[current].cancelled \/ a = "SIDE_EFFECT_UNKNOWN")
             => current \in failed' \/ calls[current].session \in gone
    PROVE  BrowserInv'
  <1>1. /\ Respond(current, a) /\ current' = Nothing /\ UNCHANGED commands
        /\ marks' = [t \in SessionKeys |-> IF t \in gone \cup (idle \ {s}) THEN {} ELSE marks[t]]
    BY DEF EndTurn, CloseSessions
  <1>2. marks' \in [SessionKeys -> SUBSET BrowserCallers] /\ \A t \in SessionKeys : marks'[t] \subseteq marks[t]
    BY <1>1 DEF BrowserInv, BrowserTyped
  <1>3. current \in BrowserCallers /\ calls[current] \in BCall
    BY DEF BrowserInv, BrowserTyped
  <1>4. calls[current].session \in SessionKeys
    BY <1>3 DEF BCall
  <1>5. calls[current].session \in gone => marks'[calls[current].session] = {}
    BY <1>1, <1>4
  <1> QED
    BY <1>1, <1>2, <1>5, TurnKeeps

\* What an error of the engine, of the guard or of a download becomes.
LEMMA ErrorCodes ==
    ASSUME BrowserInv, NEW c \in BrowserCallers,
           NEW raised \in {"no_chromium", "timeout", "error"} \cup GuardCurrentPage \cup DownloadErrors
    PROVE  /\ CommandError(c, raised).code \in Answers
           /\ calls[c].op \in Interactions => CommandError(c, raised).code # "TIMEOUT"
           /\ CommandError(c, raised).gone # {} => CommandError(c, raised).gone = {calls[c].session}
           /\ CommandError(c, raised).code = "SIDE_EFFECT_UNKNOWN" => CommandError(c, raised).gone = {calls[c].session}
  <1>1. CASE calls[c].op \in Interactions /\ raised = "timeout"
    <2>1. CommandError(c, raised) = [code |-> "SIDE_EFFECT_UNKNOWN", gone |-> {calls[c].session}]
      BY <1>1 DEF CommandError
    <2> QED
      BY <2>1 DEF Answers
  <1>2. CASE ~(calls[c].op \in Interactions /\ raised = "timeout")
    <2>1. CommandError(c, raised) = [code |-> TransportError(raised), gone |-> {}]
      BY <1>2 DEF CommandError
    <2>2. /\ TransportError(raised) \in {"TIMEOUT", "NOT_IMPLEMENTED", "PROVIDER_ERROR", "VALIDATION", "FORBIDDEN",
                                         "UNAVAILABLE", "NOT_FOUND"}
          /\ TransportError(raised) = "TIMEOUT" => raised = "timeout"
      BY DEF TransportError, GuardCurrentPage, DownloadErrors
    <2> QED
      BY <1>2, <2>1, <2>2 DEF Answers
  <1> QED
    BY <1>1, <1>2

\* The commands that end before they reach a page, and close_context.
LEMMA RefusedKeeps ==
    ASSUME BrowserInv, EnsureRuntimeFails \/ RefuseCommand \/ DispatchClose PROVE BrowserInv'
  <1>0. current # Nothing /\ current \in BrowserCallers /\ UNCHANGED <<touched, failed>>
    BY DEF EnsureRuntimeFails, RefuseCommand, DispatchClose, BrowserInv, BrowserTyped
  <1>t. current \notin touched
    <2>1. calls[current].op = "close_context" => current \notin touched
      BY <1>0 DEF BrowserInv, CallKnows, Interactions
    <2> QED
      BY <2>1 DEF EnsureRuntimeFails, RefuseCommand, DispatchClose
  <1>1. CASE EnsureRuntimeFails
    <2>1. PICK raised \in {"no_chromium", "timeout", "error"} :
            EndTurn(calls[current].session, CommandError(current, raised).gone, CommandError(current, raised).code)
      BY <1>1 DEF EnsureRuntimeFails
    <2>2. CommandError(current, raised).code \in Answers
      BY <1>0, ErrorCodes
    <2> QED
      BY <1>0, <1>t, <2>1, <2>2, EndTurnKeeps
  <1>2. CASE RefuseCommand \/ DispatchClose
    <2>1. PICK a \in {"NOT_FOUND", "UNAVAILABLE", "OK"} : \E gone : EndTurn(calls[current].session, gone, a)
      BY <1>2 DEF RefuseCommand, DispatchClose
    <2>2. a \in Answers
      BY DEF Answers
    <2> QED
      BY <1>0, <1>t, <2>1, <2>2, EndTurnKeeps
  <1> QED
    BY <1>1, <1>2

\* An interaction comes back: too late, and its session is closed; with a
\* timeout, and it is closed; with another error, and that is recorded.
LEMMA InteractionKeeps == ASSUME BrowserInv, InteractionEnds PROVE BrowserInv'
  <1> DEFINE s == calls[current].session
  <1>0. current \in touched /\ UNCHANGED touched
    BY DEF InteractionEnds
  <1>1. current # Nothing /\ current \in BrowserCallers
    <2>1. current # Nothing
      BY <1>0, BrowserAssumption DEF BrowserInv, BrowserTyped
    <2> QED
      BY <2>1 DEF BrowserInv, BrowserTyped
  <1>2. calls[current].op \in Interactions
    BY <1>0, <1>1 DEF BrowserInv, CallKnows
  <1>3. CASE InteractionDone(s) /\ UNCHANGED failed
    <2>1. CASE calls[current].cancelled \/ calls[current].late
      <3>1. EndTurn(s, {s}, "SIDE_EFFECT_UNKNOWN") /\ "SIDE_EFFECT_UNKNOWN" \in Answers
        BY <1>3, <2>1 DEF InteractionDone, Answers
      <3> QED
        BY <1>0, <1>1, <1>3, <3>1, EndTurnKeeps
    <2>2. CASE ~(calls[current].cancelled \/ calls[current].late)
      <3>1. PICK a \in {"OK", "CONFLICT", "PROVIDER_ERROR", "FORBIDDEN"} : EndTurn(s, {}, a)
        BY <1>3, <2>2 DEF InteractionDone, VerifyDownload, VerifyExpect
      <3>2. a \in Answers
        BY DEF Answers
      <3> QED
        BY <1>0, <1>1, <1>3, <2>2, <3>1, <3>2, EndTurnKeeps
    <2> QED
      BY <2>1, <2>2
  <1>4. CASE InteractionFails(s)
    <2>1. PICK raised \in {"timeout", "error"} \cup GuardCurrentPage \cup DownloadErrors :
            LET error == CommandError(current, raised)
            IN  /\ EndTurn(s, error.gone, error.code)
                /\ failed' = IF error.gone = {} THEN failed \cup {current} ELSE failed
      BY <1>4 DEF InteractionFails
    <2> DEFINE error == CommandError(current, raised)
    <2>2. EndTurn(s, error.gone, error.code) /\ failed' = IF error.gone = {} THEN failed \cup {current} ELSE failed
      BY <2>1
    <2>3. /\ error.code \in Answers \ {"TIMEOUT"}
          /\ error.gone # {} => error.gone = {s}
          /\ error.code = "SIDE_EFFECT_UNKNOWN" => error.gone = {s}
      BY <1>1, <1>2, ErrorCodes
    <2>5. error.code = "UNAVAILABLE" => error.gone = {}
      BY DEF CommandError
    <2> HIDE DEF error
    <2>4. failed \subseteq failed' /\ (current \in failed' \/ s \in error.gone)
      BY <2>2, <2>3
    <2> QED
      BY <1>0, <1>1, <2>2, <2>3, <2>4, <2>5, EndTurnKeeps
  <1> QED
    BY <1>3, <1>4 DEF InteractionEnds

\* An operation without effect ends.
LEMMA ReadKeeps == ASSUME BrowserInv, ReadEnds PROVE BrowserInv'
  <1>1. /\ current # Nothing /\ current \notin touched /\ current' = Nothing
        /\ marks' = [t \in SessionKeys |-> IF t \in contexts' THEN marks[t] ELSE {}]
        /\ UNCHANGED <<commands, touched, failed>>
    BY DEF ReadEnds
  <1>2. PICK a \in {"NOT_FOUND", "CONFLICT", "OK", "TIMEOUT", "PROVIDER_ERROR"} \cup GuardCurrentPage : Respond(current, a)
    BY DEF ReadEnds, GuardCurrentPage
  <1>3. a \in Answers
    BY DEF Answers, GuardCurrentPage
  <1>4. marks' \in [SessionKeys -> SUBSET BrowserCallers] /\ \A t \in SessionKeys : marks'[t] \subseteq marks[t]
    BY <1>1 DEF BrowserInv, BrowserTyped
  <1> QED
    BY <1>1, <1>2, <1>3, <1>4, TurnKeeps

\* An interaction reaches its page, from the worker's hands.
LEMMA InteractKeeps == ASSUME BrowserInv, Interact PROVE BrowserInv'
  <1>0. PICK c \in BrowserCallers : c = current
    BY DEF Interact, BrowserInv, BrowserTyped
  <1> DEFINE s == calls[c].session
  <1>1. /\ calls[c].op \in Interactions /\ touched' = touched \cup {c}
        /\ UNCHANGED <<commands, calls, current, failed>>
        /\ marks' = [t \in SessionKeys |-> IF t = s THEN marks[t] \cup {c}
                                           ELSE IF t \in contexts' THEN marks[t] ELSE {}]
    BY <1>0 DEF Interact
  <1>2. CallKnows(c) /\ Pending(c) /\ ~Queued(c)
    BY <1>0 DEF BrowserInv, CallKnows
  <1>3. \A t \in SessionKeys : /\ marks'[t] \subseteq marks[t] \cup {c}
                               /\ c \in marks'[t] => t = s \/ c \in marks[t]
    BY <1>1
  <1>4. BrowserTyped' /\ QueuedOnce'
    BY <1>0, <1>1 DEF BrowserInv, BrowserTyped, QueuedOnce
  <1>5. CallKnows(c)'
    BY <1>0, <1>1, <1>2 DEF CallKnows, Pending, Queued
  <1>6. \A d \in BrowserCallers \ {c} : CallKnows(d)'
    BY <1>0, <1>1 DEF BrowserInv, CallKnows, Pending, Queued
  <1>7. MarksKnow'
    BY <1>1, <1>3 DEF BrowserInv, MarksKnow
  <1>8. UnknownIsQuarantined'
    <2>1. calls[c].answer \notin {"TIMEOUT", "UNAVAILABLE"}
      BY <1>1, <1>2 DEF CallKnows, Pending
    <2> QED
      BY <1>0, <1>1, <1>3, <2>1 DEF BrowserInv, UnknownIsQuarantined
  <1> QED
    BY <1>4, <1>5, <1>6, <1>7, <1>8 DEF BrowserInv

\* The worker takes the head of the queue: an expired command is dropped, untouched.
LEMMA TakeKeeps == ASSUME BrowserInv, TakeCommand PROVE BrowserInv'
  <1>t. commands \in Seq(BrowserCallers) /\ commands # <<>>
    BY DEF TakeCommand, BrowserInv, BrowserTyped
  <1>0. PICK c \in BrowserCallers : c = Head(commands) /\ c = commands[1]
    BY <1>t
  <1>1. commands' = Tail(commands) /\ current = Nothing /\ UNCHANGED <<touched, failed, marks>>
    BY DEF TakeCommand
  <1>2. /\ Len(commands) \in Nat \ {0} /\ Len(commands') = Len(commands) - 1 /\ commands' \in Seq(BrowserCallers)
        /\ \A i \in 1..Len(commands') : commands'[i] = commands[i + 1] /\ i + 1 \in 1..Len(commands) /\ i + 1 # 1
    BY <1>1, <1>t
  <1>3. Queued(c) /\ CallKnows(c) /\ Pending(c) /\ c \notin touched
    BY <1>0, <1>2 DEF BrowserInv, CallKnows, Queued
  <1>4. \A d \in BrowserCallers : Queued(d)' => Queued(d) /\ d # c
    <2> SUFFICES ASSUME NEW d \in BrowserCallers, NEW i \in 1..Len(commands'), commands'[i] = d PROVE Queued(d) /\ d # c
      BY DEF Queued
    <2>1. commands[i + 1] = d /\ i + 1 \in 1..Len(commands) /\ i + 1 # 1 /\ 1 \in 1..Len(commands)
      BY <1>2
    <2> QED
      BY <1>0, <2>1 DEF Queued, BrowserInv, QueuedOnce
  <1>5. QueuedOnce'
    <2> SUFFICES ASSUME NEW i \in 1..Len(commands'), NEW j \in 1..Len(commands'), commands'[i] = commands'[j] PROVE i = j
      BY DEF QueuedOnce
    <2>1. i + 1 = j + 1
      BY <1>2 DEF BrowserInv, QueuedOnce
    <2> QED
      BY <2>1
  <1>m. \A s \in SessionKeys : c \notin marks[s]
    BY <1>3 DEF BrowserInv, MarksKnow
  <1>6. CASE calls[c].cancelled \/ calls[c].late
    <2>1. Respond(c, "TIMEOUT") /\ current' = current /\ "TIMEOUT" \in Answers
      BY <1>0, <1>6 DEF TakeCommand, Answers
    <2>2. /\ calls' \in [BrowserCallers -> BCall]
          /\ \A d \in BrowserCallers \ {c} : calls'[d] = calls[d]
          /\ calls'[c].op = calls[c].op /\ calls'[c].session = calls[c].session
          /\ calls[c].phase = "waiting" => calls'[c].phase = "done" /\ calls'[c].answer = "TIMEOUT"
          /\ calls[c].phase # "waiting" => calls'[c] = calls[c]
      BY <2>1, RespondFacts
    <2>3. calls'[c].phase = "done" /\ ~Queued(c)' /\ current' # c
      BY <1>1, <1>3, <1>4, <2>1, <2>2, BrowserAssumption DEF Pending
    <2>4. CallKnows(c)'
      BY <1>1, <1>3, <2>3 DEF CallKnows
    <2>5. \A d \in BrowserCallers \ {c} : CallKnows(d)'
      BY <1>1, <1>4, <2>1, <2>2 DEF BrowserInv, CallKnows, Pending
    <2>6. BrowserTyped'
      BY <1>1, <1>2, <2>1, <2>2 DEF BrowserInv, BrowserTyped
    <2>7. MarksKnow' /\ UnknownIsQuarantined'
      BY <1>1, <1>3, <1>m, <2>1, <2>2 DEF BrowserInv, BrowserTyped, MarksKnow, UnknownIsQuarantined
    <2> QED
      BY <1>5, <2>4, <2>5, <2>6, <2>7 DEF BrowserInv
  <1>7. CASE ~(calls[c].cancelled \/ calls[c].late)
    <2>1. current' = c /\ calls' = calls
      BY <1>0, <1>7 DEF TakeCommand
    <2>2. CallKnows(c)'
      BY <1>1, <1>3, <1>4, <2>1 DEF CallKnows, Pending
    <2>3. \A d \in BrowserCallers \ {c} : CallKnows(d)'
      BY <1>1, <1>4, <2>1, BrowserAssumption DEF BrowserInv, CallKnows, Pending
    <2>4. BrowserTyped'
      BY <1>1, <1>2, <2>1 DEF BrowserInv, BrowserTyped
    <2>5. MarksKnow' /\ UnknownIsQuarantined'
      BY <1>1, <2>1, BrowserAssumption DEF BrowserInv, BrowserTyped, MarksKnow, UnknownIsQuarantined
    <2> QED
      BY <1>5, <2>2, <2>3, <2>4, <2>5 DEF BrowserInv
  <1> QED
    BY <1>6, <1>7

\* Contexts that are closed take the effects they hold with them.
LEMMA ClosingKeeps ==
    ASSUME BrowserInv, UNCHANGED <<commands, calls, current, touched, failed>>,
           marks' \in [SessionKeys -> SUBSET BrowserCallers], \A s \in SessionKeys : marks'[s] \subseteq marks[s]
    PROVE  BrowserInv'
  <1>1. BrowserTyped' /\ QueuedOnce'
    BY DEF BrowserInv, BrowserTyped, QueuedOnce
  <1>2. \A d \in BrowserCallers : CallKnows(d)'
    BY DEF BrowserInv, CallKnows, Pending, Queued
  <1>3. MarksKnow' /\ UnknownIsQuarantined'
    BY DEF BrowserInv, MarksKnow, UnknownIsQuarantined
  <1> QED
    BY <1>1, <1>2, <1>3 DEF BrowserInv

-----------------------------------------------------------------------------
\* Nobody has called yet.
LEMMA BrowserInitInv == ASSUME BrowserInit PROVE BrowserInv
  <1>1. /\ commands = <<>> /\ calls = [c \in BrowserCallers |-> NoCallYet] /\ current = Nothing
        /\ touched = {} /\ marks = [s \in SessionKeys |-> {}]
    BY DEF BrowserInit
  <1>2. BrowserTyped
    BY <1>1, NoCallYetTyped DEF BrowserTyped
  <1>3. QueuedOnce /\ MarksKnow /\ \A c \in BrowserCallers : ~Queued(c)
    BY <1>1 DEF QueuedOnce, MarksKnow, Queued
  <1>4. \A c \in BrowserCallers : CallKnows(c)
    BY <1>1, <1>3, NoCallYetTyped, BrowserAssumption DEF CallKnows
  <1>5. UnknownIsQuarantined
    BY <1>1 DEF UnknownIsQuarantined
  <1> QED
    BY <1>2, <1>3, <1>4, <1>5 DEF BrowserInv

\* Every step of the callers and of the worker keeps the invariant.
LEMMA BrowserStepInv == ASSUME BrowserInv, [BrowserNext]_browserVars PROVE BrowserInv'
  <1>m. marks \in [SessionKeys -> SUBSET BrowserCallers]
    BY DEF BrowserInv, BrowserTyped
  <1>1. CASE UNCHANGED browserVars
    BY <1>1, <1>m, ClosingKeeps DEF browserVars
  <1>2. ASSUME NEW c \in BrowserCallers, BrowserCallerStep(c) PROVE BrowserInv'
    BY <1>2, CallKeeps, PutKeeps, DeadlineKeeps, GiveUpKeeps DEF BrowserCallerStep
  <1>3. CASE BrowserStep
    BY <1>3, TakeKeeps, RefusedKeeps, InteractKeeps, InteractionKeeps, ReadKeeps DEF BrowserStep
  <1>4. ASSUME ReapIdle \/ Shutdown PROVE BrowserInv'
    <2>1. PICK gone : CloseSessions(gone) /\ UNCHANGED <<commands, calls, current, touched, failed>>
      BY <1>4 DEF ReapIdle, Shutdown
    <2>2. marks' = [s \in SessionKeys |-> IF s \in gone THEN {} ELSE marks[s]]
      BY <2>1 DEF CloseSessions
    <2>3. marks' \in [SessionKeys -> SUBSET BrowserCallers] /\ \A s \in SessionKeys : marks'[s] \subseteq marks[s]
      BY <1>m, <2>2
    <2> QED
      BY <2>1, <2>3, ClosingKeeps
  <1>5. ASSUME CloseTransport \/ \E s \in SessionKeys : GoesIdle(s) PROVE BrowserInv'
    BY <1>5, <1>m, ClosingKeeps DEF CloseTransport, GoesIdle
  <1> QED
    BY <1>1, <1>2, <1>3, <1>4, <1>5, CallKeeps DEF BrowserNext

\* The invariant holds always, for any number of callers, sessions and contexts.
THEOREM BrowserInvariant == BrowserSpec => []BrowserInv
  <1>1. BrowserInit => BrowserInv
    BY BrowserInitInv
  <1>2. BrowserInv /\ [BrowserNext]_browserVars => BrowserInv'
    BY BrowserStepInv
  <1> QED
    BY <1>1, <1>2, PTL DEF BrowserSpec

\* However callers and the worker interleave, a page that may hold an effect
\* reported as unknown is closed, an interaction reported as a timeout has reached
\* no page, and one reported as unavailable has reached none or was refused
\* afterwards by the guard of the page it led to (_call, _command_error and the
\* worker's second look at the deadline).
THEOREM UnknownAlwaysQuarantined == BrowserSpec => []UnknownIsQuarantined
  <1>1. BrowserInv => UnknownIsQuarantined
    BY DEF BrowserInv
  <1> QED
    BY <1>1, BrowserInvariant, PTL

\* The worker's resources stay within their limits.
WithinLimits ==
    /\ IsFiniteSet(contexts) /\ Cardinality(contexts) <= MaxContexts
    /\ Len(commands) <= QueueSize

\* Fewer contexts are within the limit, and one more if the limit is not reached.
LEMMA ContextsFit ==
    ASSUME NEW old, IsFiniteSet(old), Cardinality(old) <= MaxContexts, NEW new,
           \/ new \subseteq old
           \/ \E kept, s : kept \subseteq old /\ Cardinality(kept) < MaxContexts /\ new = kept \cup {s}
    PROVE  IsFiniteSet(new) /\ Cardinality(new) <= MaxContexts
  <1>0. MaxContexts \in Nat /\ Cardinality(old) \in Nat
    BY BrowserAssumption, FS_CardinalityType
  <1>1. CASE new \subseteq old
    <2>1. IsFiniteSet(new) /\ Cardinality(new) <= Cardinality(old)
      BY <1>1, FS_Subset
    <2>2. Cardinality(new) \in Nat
      BY <2>1, FS_CardinalityType
    <2> QED
      BY <1>0, <2>1, <2>2
  <1>2. CASE \E kept, s : kept \subseteq old /\ Cardinality(kept) < MaxContexts /\ new = kept \cup {s}
    <2>1. PICK kept, s : kept \subseteq old /\ Cardinality(kept) < MaxContexts /\ new = kept \cup {s}
      BY <1>2
    <2>2. IsFiniteSet(kept)
      BY <2>1, FS_Subset
    <2>3. Cardinality(kept) \in Nat
      BY <2>2, FS_CardinalityType
    <2>4. IsFiniteSet(new) /\ (Cardinality(new) = Cardinality(kept) \/ Cardinality(new) = Cardinality(kept) + 1)
      BY <2>1, <2>2, FS_AddElement
    <2> QED
      BY <1>0, <2>1, <2>3, <2>4
  <1> QED
    BY <1>1, <1>2

\* What a step does to the contexts.
LEMMA ContextsStep ==
    ASSUME [BrowserNext]_browserVars
    PROVE  \/ contexts' \subseteq contexts
           \/ \E kept, s : kept \subseteq contexts /\ Cardinality(kept) < MaxContexts /\ contexts' = kept \cup {s}
  <1>1. CASE Interact
    <2> DEFINE s == calls[current].session
    <2>1. /\ s \in contexts \/ Cardinality(contexts \ idle) < MaxContexts
          /\ IF s \in contexts THEN contexts' = contexts ELSE contexts' = (contexts \ idle) \cup {s}
      BY <1>1 DEF Interact
    <2> HIDE DEF s
    <2>2. CASE s \in contexts
      BY <2>1, <2>2
    <2>3. CASE s \notin contexts
      <3>1. contexts \ idle \subseteq contexts /\ Cardinality(contexts \ idle) < MaxContexts /\ contexts' = (contexts \ idle) \cup {s}
        BY <2>1, <2>3
      <3> QED
        BY <3>1
    <2> QED
      BY <2>2, <2>3
  <1>2. CASE ReadEnds
    <2> DEFINE s == calls[current].session
    <2>1. /\ s \in contexts \/ Cardinality(contexts \ idle) < MaxContexts
          /\ contexts' = (contexts \ (idle \ {s})) \cup {s}
      BY <1>2 DEF ReadEnds
    <2> HIDE DEF s
    <2>2. CASE s \in contexts
      BY <2>1, <2>2
    <2>3. CASE s \notin contexts
      <3>1. contexts \ (idle \ {s}) = contexts \ idle
        BY <2>3
      <3>2. contexts \ idle \subseteq contexts /\ Cardinality(contexts \ idle) < MaxContexts /\ contexts' = (contexts \ idle) \cup {s}
        BY <2>1, <2>3, <3>1
      <3> QED
        BY <3>2
    <2> QED
      BY <2>2, <2>3
  <1>3. ASSUME NEW gone, CloseSessions(gone) PROVE contexts' \subseteq contexts
    BY <1>3 DEF CloseSessions
  <1>4. CASE EnsureRuntimeFails \/ RefuseCommand \/ DispatchClose
    <2>1. \E s, gone, answer : EndTurn(s, gone, answer)
      BY <1>4 DEF EnsureRuntimeFails, RefuseCommand, DispatchClose
    <2> QED
      BY <1>3, <2>1 DEF EndTurn
  <1>5. CASE InteractionEnds
    <2>1. \E s, gone, answer : EndTurn(s, gone, answer)
      BY <1>5 DEF InteractionEnds, InteractionDone, InteractionFails
    <2> QED
      BY <1>3, <2>1 DEF EndTurn
  <1>6. CASE ReapIdle \/ Shutdown
    BY <1>3, <1>6 DEF ReapIdle, Shutdown
  <1>7. ASSUME NEW c \in BrowserCallers,
               \/ \E op \in Operations, s \in SessionKeys : BrowserCall(c, op, s) \/ RefuseCall(c, op, s)
               \/ \E s \in SessionKeys : CloseCall(c, s)
               \/ BrowserCallerStep(c)
        PROVE  contexts' = contexts
    BY <1>7 DEF BrowserCall, RefuseCall, CloseCall, BrowserCallerStep, PutCommand, PutTimesOut, DeadlinePasses, GiveUp
  <1>8. CASE TakeCommand \/ CloseTransport \/ UNCHANGED browserVars \/ \E s \in SessionKeys : GoesIdle(s)
    BY <1>8 DEF TakeCommand, CloseTransport, browserVars, GoesIdle
  <1> QED
    BY <1>1, <1>2, <1>4, <1>5, <1>6, <1>7, <1>8 DEF BrowserNext, BrowserStep

\* What a step does to the queue.
LEMMA QueueStep ==
    ASSUME BrowserInv, Len(commands) <= QueueSize, [BrowserNext]_browserVars
    PROVE  Len(commands') <= QueueSize
  <1>0. commands \in Seq(BrowserCallers) /\ QueueSize \in Nat
    BY BrowserAssumption DEF BrowserInv, BrowserTyped
  <1>1. ASSUME NEW c \in BrowserCallers, PutCommand(c) PROVE Len(commands') <= QueueSize
    BY <1>0, <1>1 DEF PutCommand
  <1>2. CASE TakeCommand
    <2>1. commands # <<>> /\ commands' = Tail(commands)
      BY <1>2 DEF TakeCommand
    <2>2. Len(commands) \in Nat /\ Len(commands') = Len(commands) - 1
      BY <1>0, <2>1
    <2> QED
      BY <1>0, <2>2
  <1>3. CASE UNCHANGED commands
    BY <1>3
  <1>4. CASE BrowserStep
    <2>1. (EnsureRuntimeFails \/ RefuseCommand \/ DispatchClose \/ InteractionEnds) => UNCHANGED commands
      BY DEF EnsureRuntimeFails, RefuseCommand, DispatchClose, InteractionEnds, InteractionDone, InteractionFails, EndTurn
    <2>2. (Interact \/ ReadEnds) => UNCHANGED commands
      BY DEF Interact, ReadEnds
    <2> QED
      BY <1>2, <1>3, <1>4, <2>1, <2>2 DEF BrowserStep
  <1>5. ASSUME NEW c \in BrowserCallers,
               \/ \E op \in Operations, s \in SessionKeys : BrowserCall(c, op, s) \/ RefuseCall(c, op, s)
               \/ \E s \in SessionKeys : CloseCall(c, s)
               \/ PutTimesOut(c) \/ DeadlinePasses(c) \/ GiveUp(c)
        PROVE  UNCHANGED commands
    BY <1>5 DEF BrowserCall, RefuseCall, CloseCall, PutTimesOut, DeadlinePasses, GiveUp
  <1>6. CASE ReapIdle \/ Shutdown \/ CloseTransport \/ UNCHANGED browserVars \/ \E s \in SessionKeys : GoesIdle(s)
    <2>1. UNCHANGED commands
      BY <1>6 DEF ReapIdle, Shutdown, CloseTransport, browserVars, GoesIdle
    <2> QED
      BY <1>3, <2>1
  <1> QED
    BY <1>1, <1>3, <1>4, <1>5, <1>6 DEF BrowserNext, BrowserCallerStep

\* However many callers and sessions there are, the worker never holds more
\* contexts than max_contexts nor more commands than command_queue_size.
THEOREM LimitsHold == BrowserSpec => []WithinLimits
  <1>1. BrowserInit => WithinLimits
    <2> SUFFICES ASSUME BrowserInit PROVE WithinLimits
      OBVIOUS
    <2>1. contexts = {} /\ commands = <<>>
      BY DEF BrowserInit
    <2>2. IsFiniteSet({}) /\ Cardinality({}) = 0
      BY FS_EmptySet
    <2> QED
      BY <2>1, <2>2, BrowserAssumption DEF WithinLimits
  <1>2. BrowserInv /\ WithinLimits /\ [BrowserNext]_browserVars => WithinLimits'
    <2> SUFFICES ASSUME BrowserInv, WithinLimits, [BrowserNext]_browserVars PROVE WithinLimits'
      OBVIOUS
    <2>1. Len(commands') <= QueueSize
      BY QueueStep DEF WithinLimits
    <2>2. IsFiniteSet(contexts') /\ Cardinality(contexts') <= MaxContexts
      <3>1. \/ contexts' \subseteq contexts
            \/ \E kept, s : kept \subseteq contexts /\ Cardinality(kept) < MaxContexts /\ contexts' = kept \cup {s}
        BY ContextsStep
      <3> QED
        BY <3>1, ContextsFit DEF WithinLimits
    <2> QED
      BY <2>1, <2>2 DEF WithinLimits
  <1> QED
    BY <1>1, <1>2, BrowserInvariant, PTL DEF BrowserSpec

\* The way of a call.
CallRank == [none |-> 0, putting |-> 1, waiting |-> 2, done |-> 3]

\* A call takes the next step of its way, or its deadline passes; one that has its
\* answer keeps it, whatever the worker still says of its command.
CallGoesOn(c) ==
    \/ calls'[c] = calls[c]
    \/ CallRank[calls'[c].phase] > CallRank[calls[c].phase]
    \/ calls[c].phase # "done" /\ calls'[c].phase = calls[c].phase /\ ~calls[c].late /\ calls'[c].late
CallsGoOn == [][\A c \in BrowserCallers : CallGoesOn(c)]_browserVars

\* The steps of one call.
LEMMA CallGoes ==
    ASSUME BrowserInv, NEW c \in BrowserCallers,
           \/ \E op \in Operations, s \in SessionKeys : BrowserCall(c, op, s) \/ RefuseCall(c, op, s)
           \/ \E s \in SessionKeys : CloseCall(c, s)
           \/ BrowserCallerStep(c)
    PROVE  \A d \in BrowserCallers : CallGoesOn(d)
  <1>0. calls \in [BrowserCallers -> BCall] /\ calls[c] \in BCall
    BY DEF BrowserInv, BrowserTyped
  <1>r. /\ CallRank["putting"] > CallRank["none"] /\ CallRank["waiting"] > CallRank["putting"]
        /\ CallRank["done"] > CallRank["none"] /\ CallRank["done"] > CallRank["putting"]
        /\ CallRank["done"] > CallRank["waiting"]
    BY DEF CallRank
  <1>1. \A r : calls' = [calls EXCEPT ![c] = r] => calls'[c] = r /\ \A d \in BrowserCallers \ {c} : calls'[d] = calls[d]
    BY <1>0
  <1>2. SUFFICES ASSUME NEW r, calls' = [calls EXCEPT ![c] = r],
                        \/ CallRank[r.phase] > CallRank[calls[c].phase]
                        \/ calls[c].phase # "done" /\ r.phase = calls[c].phase /\ ~calls[c].late /\ r.late
                 PROVE  \A d \in BrowserCallers : CallGoesOn(d)
    <2>1. ASSUME NEW op \in Operations, NEW s \in SessionKeys, BrowserCall(c, op, s) \/ RefuseCall(c, op, s) \/ CloseCall(c, s)
          PROVE  \E r : calls' = [calls EXCEPT ![c] = r] /\ CallRank[r.phase] > CallRank[calls[c].phase]
      <3>1. calls[c].phase = "none"
        BY <2>1 DEF BrowserCall, RefuseCall, CloseCall
      <3>2. \/ \E o \in Operations : calls' = [calls EXCEPT ![c] = NewCall(o, s)]
            \/ \E o \in Operations : \E a \in Answers : calls' = [calls EXCEPT ![c] = Answered(NewCall(o, s), a)]
        BY <2>1 DEF BrowserCall, RefuseCall, CloseCall, ValidateBrowser, ResolveFillText, Answers, Operations
      <3>3. \A o \in Operations : /\ NewCall(o, s).phase = "putting"
                                  /\ \A a \in Answers : Answered(NewCall(o, s), a).phase = "done"
        BY NewCallTyped, AnsweredTyped
      <3>4. CASE \E o \in Operations : calls' = [calls EXCEPT ![c] = NewCall(o, s)]
        <4>1. PICK o \in Operations : calls' = [calls EXCEPT ![c] = NewCall(o, s)]
          BY <3>4
        <4>2. CallRank[NewCall(o, s).phase] > CallRank[calls[c].phase]
          BY <1>r, <3>1, <3>3
        <4> QED
          BY <4>1, <4>2
      <3>5. CASE \E o \in Operations : \E a \in Answers : calls' = [calls EXCEPT ![c] = Answered(NewCall(o, s), a)]
        <4>1. PICK o \in Operations, a \in Answers : calls' = [calls EXCEPT ![c] = Answered(NewCall(o, s), a)]
          BY <3>5
        <4>2. CallRank[Answered(NewCall(o, s), a).phase] > CallRank[calls[c].phase]
          BY <1>r, <3>1, <3>3
        <4> QED
          BY <4>1, <4>2
      <3> QED
        BY <3>2, <3>4, <3>5
    <2>2. ASSUME PutCommand(c) PROVE \E r : calls' = [calls EXCEPT ![c] = r] /\ CallRank[r.phase] > CallRank[calls[c].phase]
      <3>1. calls[c].phase = "putting" /\ calls' = [calls EXCEPT ![c] = [calls[c] EXCEPT !.phase = "waiting"]]
        BY <2>2 DEF PutCommand
      <3>2. [calls[c] EXCEPT !.phase = "waiting"].phase = "waiting"
        BY <1>0 DEF BCall
      <3>3. CallRank[[calls[c] EXCEPT !.phase = "waiting"].phase] > CallRank[calls[c].phase]
        BY <1>r, <3>1, <3>2
      <3> QED
        BY <3>1, <3>3
    <2>3. ASSUME PutTimesOut(c) \/ GiveUp(c)
          PROVE  \E r : calls' = [calls EXCEPT ![c] = r] /\ CallRank[r.phase] > CallRank[calls[c].phase]
      <3> DEFINE left == [calls[c] EXCEPT !.cancelled = TRUE]
      <3>1. calls[c].phase \in {"putting", "waiting"} /\ \E a \in Answers : calls' = [calls EXCEPT ![c] = Answered(left, a)]
        BY <2>3 DEF PutTimesOut, GiveUp, Answers
      <3>2. left \in BCall
        BY <1>0 DEF BCall
      <3> HIDE DEF left
      <3>3. \A a \in Answers : Answered(left, a).phase = "done"
        BY <3>2, AnsweredTyped
      <3>4. PICK a \in Answers : calls' = [calls EXCEPT ![c] = Answered(left, a)]
        BY <3>1
      <3>5. CallRank[Answered(left, a).phase] > CallRank[calls[c].phase]
        BY <1>r, <3>1, <3>3
      <3> QED
        BY <3>4, <3>5
    <2>4. ASSUME DeadlinePasses(c)
          PROVE  \E r : calls' = [calls EXCEPT ![c] = r] /\ calls[c].phase # "done" /\ r.phase = calls[c].phase /\ ~calls[c].late /\ r.late
      <3>1. calls[c].phase # "done" /\ ~calls[c].late /\ calls' = [calls EXCEPT ![c] = [calls[c] EXCEPT !.late = TRUE]]
        BY <2>4 DEF DeadlinePasses
      <3>2. [calls[c] EXCEPT !.late = TRUE].late /\ [calls[c] EXCEPT !.late = TRUE].phase = calls[c].phase
        BY <1>0 DEF BCall
      <3> QED
        BY <3>1, <3>2
    <2>5. ASSUME NEW s \in SessionKeys, CloseCall(c, s)
          PROVE  \E r : calls' = [calls EXCEPT ![c] = r] /\ CallRank[r.phase] > CallRank[calls[c].phase]
      BY <2>1, <2>5 DEF Operations
    <2> QED
      BY <1>2, <2>1, <2>2, <2>3, <2>4, <2>5 DEF BrowserCallerStep
  <1>3. calls'[c] = r /\ \A d \in BrowserCallers \ {c} : calls'[d] = calls[d]
    BY <1>1, <1>2
  <1> QED
    BY <1>2, <1>3 DEF CallGoesOn

\* The worker answers those that wait.
LEMMA RespondGoes ==
    ASSUME BrowserInv, NEW c \in BrowserCallers, NEW a, Respond(c, a)
    PROVE  \A d \in BrowserCallers : CallGoesOn(d)
  <1>0. calls \in [BrowserCallers -> BCall] /\ calls[c] \in BCall
    BY DEF BrowserInv, BrowserTyped
  <1>1. CASE calls[c].phase = "waiting"
    <2>1. calls' = [calls EXCEPT ![c] = Answered(calls[c], a)]
      BY <1>1 DEF Respond
    <2>2. Answered(calls[c], a).phase = "done"
      BY <1>0 DEF Answered, BCall
    <2>3. calls'[c].phase = "done" /\ \A d \in BrowserCallers \ {c} : calls'[d] = calls[d]
      BY <1>0, <2>1, <2>2
    <2> QED
      BY <1>1, <2>3 DEF CallGoesOn, CallRank
  <1>2. CASE calls[c].phase # "waiting"
    BY <1>2 DEF Respond, CallGoesOn
  <1> QED
    BY <1>1, <1>2

\* Every step of callers and worker.
LEMMA CallsStep == ASSUME BrowserInv, BrowserNext PROVE \A c \in BrowserCallers : CallGoesOn(c)
  <1>0. commands \in Seq(BrowserCallers) /\ current \in BrowserCallers \cup {Nothing}
    BY DEF BrowserInv, BrowserTyped
  <1>1. CASE UNCHANGED calls
    BY <1>1 DEF CallGoesOn
  <1>2. CASE TakeCommand
    <2>1. Head(commands) \in BrowserCallers
      BY <1>0, <1>2 DEF TakeCommand
    <2>2. Respond(Head(commands), "TIMEOUT") \/ UNCHANGED calls
      BY <1>2 DEF TakeCommand
    <2> QED
      BY <1>1, <2>1, <2>2, RespondGoes
  <1>3. ASSUME current # Nothing, NEW s, NEW gone, NEW a, EndTurn(s, gone, a) PROVE \A c \in BrowserCallers : CallGoesOn(c)
    BY <1>0, <1>3, RespondGoes DEF EndTurn
  <1>4. CASE EnsureRuntimeFails \/ RefuseCommand \/ DispatchClose
    <2>1. current # Nothing /\ \E s, gone, a : EndTurn(s, gone, a)
      BY <1>4 DEF EnsureRuntimeFails, RefuseCommand, DispatchClose
    <2> QED
      BY <1>3, <2>1
  <1>5. CASE InteractionEnds
    <2>1. current \in touched /\ \E s, gone, a : EndTurn(s, gone, a)
      BY <1>5 DEF InteractionEnds, InteractionDone, InteractionFails
    <2>2. current # Nothing
      BY <2>1, BrowserAssumption DEF BrowserInv, BrowserTyped
    <2> QED
      BY <1>3, <2>1, <2>2
  <1>6. CASE ReadEnds
    <2>1. current # Nothing /\ \E a : Respond(current, a)
      BY <1>6 DEF ReadEnds
    <2> QED
      BY <1>0, <2>1, RespondGoes
  <1>7. CASE Interact \/ ReapIdle \/ Shutdown \/ CloseTransport \/ \E s \in SessionKeys : GoesIdle(s)
    <2>1. UNCHANGED calls
      BY <1>7 DEF Interact, ReapIdle, Shutdown, CloseTransport, GoesIdle
    <2> QED
      BY <1>1, <2>1
  <1> QED
    BY <1>2, <1>4, <1>5, <1>6, <1>7, CallGoes DEF BrowserNext, BrowserStep

\* A browser call only goes forward (PlaywrightBrowserTransport._call: put, wait, answer), and
\* the first answer it returns stands, whatever the worker does with the command.
THEOREM BrowserCallsGoOn == BrowserSpec => CallsGoOn
  <1>1. BrowserInv /\ [BrowserNext]_browserVars => [\A c \in BrowserCallers : CallGoesOn(c)]_browserVars
    BY CallsStep
  <1> QED
    BY <1>1, BrowserInvariant, PTL DEF BrowserSpec, CallsGoOn

-----------------------------------------------------------------------------
(* What the providers do outside *)

OutCodes == {"OK", "FAILED", "SIDE_EFFECT_UNKNOWN", "UNAVAILABLE", "PROVIDER_ERROR", "INTERNAL", "TIMEOUT",
             "AUTH", "FORBIDDEN", "VALIDATION", "CONFLICT", "NOT_FOUND", "NOT_IMPLEMENTED"}
Phases == {"idle", "ready", "sent", "next", "done"}
Send == [phase: Phases, attempt: Nat, part: 1..2, reply: Replies \cup {"none"}, verdict: OutCodes \cup {"none"}]

OutboundTyped ==
    /\ kind \in Kinds
    /\ sends \in [OutboundCalls -> Send]
    /\ results \in BOOLEAN /\ keySeen \in BOOLEAN
    /\ effects \in [1..2 -> Nat]
    /\ acted \subseteq OutboundCalls

\* A dispatch has had its effect on the parts before the one it is at, and on
\* that one too (of a mail on some) once a certain reply is on its way.
Arrived(c) == IF kind = "email" THEN Delivered ELSE effects[sends[c].part] >= 1
PartsDone(c) ==
    /\ sends[c].phase \in {"idle", "ready"} => sends[c].part = 1
    /\ sends[c].phase # "done" => sends[c].part \in Parts(kind) /\ sends[c].verdict # "OK"
    /\ sends[c].phase # "done" /\ kind # "whatsapp_send" => sends[c].part = 1
    /\ sends[c].phase \in {"sent", "next"} /\ sends[c].part = 2 => effects[1] >= 1
    /\ sends[c].phase = "next" => sends[c].part = 2
    /\ sends[c].phase = "sent" => sends[c].reply \in RepliesTo
    /\ sends[c].phase = "sent" /\ sends[c].reply \in Certain => Arrived(c)
    /\ sends[c].verdict = "OK" => Delivered

\* The partner's memory of the key, and the provider's of its results, agree
\* with what happened.
KeyKnows == kind \in Booking =>
    /\ effects[1] <= 1
    /\ keySeen <=> effects[1] >= 1
    /\ results => effects[1] >= 1

\* A dispatch of an irrevocable action hands over once; an effect it has had is
\* still to be reported, as done or as unknown.
HandsOverOnce(c) == kind \in Irrevocable =>
    /\ c \in acted => sends[c].phase \in {"sent", "done"}
    /\ c \in acted /\ sends[c].phase = "sent" => sends[c].reply \notin Clean
    /\ sends[c].phase # "done" => sends[c].verdict \in {"none", "SIDE_EFFECT_UNKNOWN"}
    /\ c \in acted => sends[c].verdict \in {"none", "OK", "SIDE_EFFECT_UNKNOWN", "INTERNAL"}

PaymentsCounted == kind = "payment" => effects[1] = Cardinality(acted)

OutboundInv ==
    /\ OutboundTyped /\ KeyKnows /\ PaymentsCounted
    /\ \A c \in OutboundCalls : PartsDone(c) /\ HandsOverOnce(c)

-----------------------------------------------------------------------------
\* Only a reply that is certain becomes OK, and what an irrevocable action's
\* request comes back with, once it was taken, is OK, unknown or INTERNAL.
LEMMA ReplyCodes ==
    ASSUME kind \in Kinds, NEW reply \in RepliesTo, NEW code \in CodesOf(reply)
    PROVE  /\ code \in OutCodes
           /\ code = "OK" => reply \in Certain
           /\ kind \in Irrevocable /\ reply \notin Clean => Reported(code) \in {"OK", "SIDE_EFFECT_UNKNOWN", "INTERNAL"}
  <1>1. ASSUME kind \notin FileWrites \cup {"code"} PROVE reply \in Replies
    BY <1>1 DEF RepliesTo, FileWrites
  <1> USE DEF Replies, Certain, Clean, OutCodes, Kinds, Booking, MetaKinds, GithubWrites, DeviceWrites, FileWrites, Irrevocable
  <1>2. CASE kind \in Booking
    <2>1. code \in PartnerCall(reply) \cup {"PROVIDER_ERROR"}
      BY <1>2 DEF CodesOf, RemoteHold, RemoteConfirm, RemoteCancel
    <2>2. code \in {"OK", "PROVIDER_ERROR", "INTERNAL", "AUTH", "NOT_FOUND", "CONFLICT", "VALIDATION", "TIMEOUT", "UNAVAILABLE"}
      BY <1>1, <1>2, <2>1 DEF PartnerCall
    <2>3. code = "OK" => reply \in Certain
      BY <1>1, <1>2, <2>1 DEF PartnerCall
    <2>4. reply \notin Clean => code \in {"OK", "PROVIDER_ERROR", "INTERNAL", "TIMEOUT", "UNAVAILABLE"}
      BY <1>1, <1>2, <2>1 DEF PartnerCall
    <2> QED
      BY <2>2, <2>3, <2>4 DEF Reported
  <1>3. CASE kind \in MetaKinds
    <2>1. code \in MetaCall(reply)
      BY <1>3 DEF CodesOf
    <2> QED
      BY <1>1, <1>3, <2>1 DEF MetaCall, MetaError
  <1>4. CASE kind = "email"
    <2>1. code \in SendMail(reply)
      BY <1>4 DEF CodesOf
    <2> QED
      BY <1>1, <1>4, <2>1 DEF SendMail
  <1>5. CASE kind \in GithubWrites
    <2>1. code \in GithubCall(reply)
      BY <1>5 DEF CodesOf, FileCommit
    <2> QED
      BY <1>1, <1>5, <2>1 DEF GithubCall, GithubError
  <1>6. CASE kind \in DeviceWrites
    <2>1. code \in AdbCall(reply)
      BY <1>6 DEF CodesOf
    <2>2. code \in {"OK", "TIMEOUT", "UNAVAILABLE"} /\ (code = "OK" => reply \in Certain)
      BY <1>1, <1>6, <2>1 DEF AdbCall
    <2> QED
      BY <2>2 DEF Reported
  <1>7. CASE kind \in FileWrites \cup {"code"}
    <2>1. CASE kind = "fs_write"
      BY <2>1 DEF CodesOf, WriteFile, RepliesTo
    <2>2. CASE kind = "fs_move"
      BY <2>2 DEF CodesOf, MoveFile, RepliesTo
    <2>3. CASE kind = "fs_delete"
      BY <2>3 DEF CodesOf, DeleteFile, RepliesTo
    <2>4. CASE kind = "code"
      BY <2>4 DEF CodesOf, ExecuteCode, RepliesTo
    <2> QED
      BY <1>7, <2>1, <2>2, <2>3, <2>4
  <1> QED
    BY <1>2, <1>3, <1>4, <1>5, <1>6, <1>7

\* A refusal is never OK.
LEMMA RefusalCodes == ASSUME kind \in Kinds PROVE LocalCodes \subseteq OutCodes \ {"OK"}
  BY DEF Kinds, LocalCodes, OutCodes, Booking, MetaKinds, GithubWrites, DeviceWrites, FileWrites, RefuseBooking,
         ValidateBooking, RefuseWhatsApp, ValidateWhatsApp, CustomerWindow, RefuseEmail, ValidateEmail, AddAttachments,
         RefuseGithub, ValidateGithub, ResolveToken, RefuseDevice, VerifySignedApk, ValidateDevice, EnsurePaired,
         EnsureConnected, ValidateFile, ValidateCode

\* What the service reports of a code: OK of nothing else.
LEMMA ReportedCodes ==
    ASSUME NEW code \in OutCodes
    PROVE  Reported(code) \in OutCodes /\ (Reported(code) = "OK" => code = "OK")
  BY DEF OutCodes, Reported

\* Every action has a first part, and they are at most two.
LEMMA PartsOf ==
    Parts(kind) \subseteq 1..2 /\ 1 \in Parts(kind) /\ (kind \notin {"whatsapp_send", "email"} => Parts(kind) = {1})
  BY DEF Parts

-----------------------------------------------------------------------------
\* An attempt ends, and its code is true.
LEMMA EndKeeps ==
    ASSUME OutboundInv, NEW c \in OutboundCalls, NEW code \in OutCodes,
           sends[c].phase \in {"ready", "sent"}, EndAttempt(c, code),
           code = "OK" => Delivered,
           kind \in Irrevocable /\ c \in acted => Reported(code) \in {"OK", "SIDE_EFFECT_UNKNOWN", "INTERNAL"},
           UNCHANGED <<kind, keySeen, effects, acted>>,
           results' \in BOOLEAN, kind \in Booking /\ results' => effects[1] >= 1
    PROVE  OutboundInv'
  <1> DEFINE s == sends[c]
             waited == s.verdict = "none"
             again == [s EXCEPT !.phase = "ready", !.attempt = s.attempt + 1, !.part = 1, !.reply = "none"]
             over(v) == [s EXCEPT !.phase = "done", !.reply = "none", !.verdict = v]
  <1>s. s \in Send /\ sends \in [OutboundCalls -> Send]
    BY DEF OutboundInv, OutboundTyped
  <1>r. Reported(code) \in OutCodes /\ (Reported(code) = "OK" => code = "OK")
    BY ReportedCodes
  <1>o. PartsDone(c) /\ HandsOverOnce(c)
    BY DEF OutboundInv
  <1>1. \/ RetriedCode(code) /\ waited /\ sends' = [sends EXCEPT ![c] = again]
        \/ waited /\ sends' = [sends EXCEPT ![c] = over(Reported(code))]
        \/ ~waited /\ sends' = [sends EXCEPT ![c] = over(s.verdict)]
    BY DEF EndAttempt
  <1>f. s \in [phase: Phases, attempt: Nat, part: 1..2, reply: Replies \cup {"none"}, verdict: OutCodes \cup {"none"}]
    BY <1>s DEF Send
  <1>2. again \in Send /\ again.phase = "ready" /\ again.part = 1 /\ again.verdict = s.verdict
    <2>1. s.attempt + 1 \in Nat /\ 1 \in 1..2 /\ "ready" \in Phases /\ "none" \in Replies \cup {"none"}
      BY <1>f DEF Phases
    <2> QED
      BY <1>f, <2>1 DEF Send
  <1>e. ASSUME NEW v \in OutCodes \cup {"none"}
        PROVE  over(v) \in Send /\ over(v).phase = "done" /\ over(v).verdict = v
    <2>1. "done" \in Phases /\ "none" \in Replies \cup {"none"}
      BY DEF Phases
    <2> QED
      BY <1>f, <2>1 DEF Send
  <1>v. s.verdict \in OutCodes \cup {"none"}
    BY <1>s DEF Send
  <1> HIDE DEF again, over, s
  <1>3. PICK n \in Send : /\ sends' = [sends EXCEPT ![c] = n]
                          /\ \/ n.phase = "ready" /\ n.part = 1 /\ n.verdict = s.verdict /\ waited /\ RetriedCode(code)
                             \/ n.phase = "done" /\ waited /\ n.verdict = Reported(code)
                             \/ n.phase = "done" /\ ~waited /\ n.verdict = s.verdict
    BY <1>1, <1>2, <1>e, <1>r, <1>v
  <1>4. /\ sends'[c] = n /\ sends' \in [OutboundCalls -> Send]
        /\ \A d \in OutboundCalls \ {c} : sends'[d] = sends[d]
    BY <1>3, <1>s
  <1>5. PartsDone(c)'
    <2>1. n.phase # "done" => n.verdict # "OK"
      BY <1>3
    <2>2. n.verdict = "OK" => Delivered
      BY <1>3, <1>o, <1>r DEF PartsDone, s
    <2> QED
      BY <1>3, <1>4, <2>1, <2>2, PartsOf DEF PartsDone, Parts, Arrived, Delivered
  <1>6. HandsOverOnce(c)'
    <2> SUFFICES ASSUME kind \in Irrevocable PROVE HandsOverOnce(c)'
      BY DEF HandsOverOnce, Irrevocable
    <2>1. ~RetriedCode(code)
      BY DEF RetriedCode
    <2>2. n.phase = "done"
      BY <1>3, <2>1
    <2>3. c \in acted => n.verdict \in {"none", "OK", "SIDE_EFFECT_UNKNOWN", "INTERNAL"}
      BY <1>3, <1>o DEF HandsOverOnce, s
    <2> QED
      BY <1>4, <2>2, <2>3 DEF HandsOverOnce
  <1>7. \A d \in OutboundCalls \ {c} : PartsDone(d)' /\ HandsOverOnce(d)'
    BY <1>4 DEF OutboundInv, PartsDone, HandsOverOnce, Parts, RepliesTo, Arrived, Delivered, Certain
  <1>8. OutboundTyped'
    BY <1>4 DEF OutboundInv, OutboundTyped
  <1>9. KeyKnows' /\ PaymentsCounted'
    BY DEF OutboundInv, KeyKnows, PaymentsCounted
  <1> QED
    BY <1>5, <1>6, <1>7, <1>8, <1>9 DEF OutboundInv

\* A dispatch begins.
LEMMA DispatchSendKeeps == ASSUME OutboundInv, NEW c \in OutboundCalls, DispatchSend(c) PROVE OutboundInv'
  <1>1. /\ sends[c].phase = "idle" /\ sends' = [sends EXCEPT ![c].phase = "ready"]
        /\ UNCHANGED <<kind, results, keySeen, effects, acted>>
    BY DEF DispatchSend
  <1>2. sends[c] \in Send /\ sends \in [OutboundCalls -> Send]
    BY DEF OutboundInv, OutboundTyped
  <1>3. /\ sends'[c] = [sends[c] EXCEPT !.phase = "ready"]
        /\ \A d \in OutboundCalls \ {c} : sends'[d] = sends[d]
    BY <1>1, <1>2
  <1>4. /\ sends'[c] \in Send /\ sends'[c].phase = "ready" /\ sends'[c].part = sends[c].part
        /\ sends'[c].verdict = sends[c].verdict /\ sends'[c].reply = sends[c].reply
    BY <1>2, <1>3 DEF Send, Phases
  <1>5. OutboundTyped'
    BY <1>1, <1>3, <1>4 DEF OutboundInv, OutboundTyped
  <1>6. PartsDone(c)' /\ HandsOverOnce(c)'
    <2>1. PartsDone(c) /\ HandsOverOnce(c)
      BY DEF OutboundInv
    <2> QED
      BY <1>1, <1>4, <2>1 DEF PartsDone, HandsOverOnce, Parts, RepliesTo, Arrived, Delivered
  <1>7. \A d \in OutboundCalls \ {c} : PartsDone(d)' /\ HandsOverOnce(d)'
    BY <1>1, <1>3 DEF OutboundInv, PartsDone, HandsOverOnce, Parts, RepliesTo, Arrived, Delivered
  <1> QED
    BY <1>1, <1>5, <1>6, <1>7 DEF OutboundInv, KeyKnows, PaymentsCounted

\* The caller leaves: of an irrevocable action it reports an unknown outcome.
LEMMA AbandonKeeps == ASSUME OutboundInv, NEW c \in OutboundCalls, AbandonSend(c) PROVE OutboundInv'
  <1>1. /\ sends[c].phase \in {"ready", "next", "sent"} /\ sends' = [sends EXCEPT ![c].verdict = Reported("TIMEOUT")]
        /\ UNCHANGED <<kind, results, keySeen, effects, acted>>
    BY DEF AbandonSend
  <1>2. sends[c] \in Send /\ sends \in [OutboundCalls -> Send]
    BY DEF OutboundInv, OutboundTyped
  <1>r. /\ Reported("TIMEOUT") \in OutCodes /\ Reported("TIMEOUT") # "OK"
        /\ kind \in Irrevocable => Reported("TIMEOUT") = "SIDE_EFFECT_UNKNOWN"
    BY DEF Reported, OutCodes
  <1>3. /\ sends'[c] = [sends[c] EXCEPT !.verdict = Reported("TIMEOUT")]
        /\ \A d \in OutboundCalls \ {c} : sends'[d] = sends[d]
    BY <1>1, <1>2
  <1>4. /\ sends'[c] \in Send /\ sends'[c].phase = sends[c].phase /\ sends'[c].part = sends[c].part
        /\ sends'[c].verdict = Reported("TIMEOUT") /\ sends'[c].reply = sends[c].reply
    BY <1>2, <1>3, <1>r DEF Send
  <1>5. OutboundTyped'
    BY <1>1, <1>3, <1>4 DEF OutboundInv, OutboundTyped
  <1>6. PartsDone(c)' /\ HandsOverOnce(c)'
    <2>1. PartsDone(c) /\ HandsOverOnce(c)
      BY DEF OutboundInv
    <2> QED
      BY <1>1, <1>4, <1>r, <2>1 DEF PartsDone, HandsOverOnce, Parts, RepliesTo, Arrived, Delivered
  <1>7. \A d \in OutboundCalls \ {c} : PartsDone(d)' /\ HandsOverOnce(d)'
    BY <1>1, <1>3 DEF OutboundInv, PartsDone, HandsOverOnce, Parts, RepliesTo, Arrived, Delivered
  <1> QED
    BY <1>1, <1>5, <1>6, <1>7 DEF OutboundInv, KeyKnows, PaymentsCounted

\* The refusals and the answer from the cache.
LEMMA LocalKeeps ==
    ASSUME OutboundInv, NEW c \in OutboundCalls, RefuseLocally(c) \/ AnswerFromCache(c) PROVE OutboundInv'
  <1>k. kind \in Kinds /\ results \in BOOLEAN /\ KeyKnows
    BY DEF OutboundInv, OutboundTyped
  <1>1. sends[c].phase = "ready" /\ UNCHANGED <<kind, results, keySeen, effects, acted>>
    BY DEF RefuseLocally, AnswerFromCache
  <1>2. kind \in Irrevocable => c \notin acted
    BY <1>1 DEF OutboundInv, HandsOverOnce
  <1>3. CASE RefuseLocally(c)
    <2>1. PICK code \in LocalCodes : EndAttempt(c, code)
      BY <1>3 DEF RefuseLocally
    <2>2. code \in OutCodes /\ code # "OK"
      BY <1>k, RefusalCodes
    <2> QED
      BY <1>1, <1>2, <1>k, <2>1, <2>2, EndKeeps DEF KeyKnows
  <1>4. CASE AnswerFromCache(c)
    <2>1. kind \in Booking /\ results /\ EndAttempt(c, "OK") /\ "OK" \in OutCodes
      BY <1>4 DEF AnswerFromCache, OutCodes
    <2>2. Delivered
      BY <1>k, <2>1, PartsOf DEF KeyKnows, Booking, Delivered
    <2> QED
      BY <1>1, <1>2, <1>k, <2>1, <2>2, EndKeeps DEF KeyKnows
  <1> QED
    BY <1>3, <1>4

\* The reply is read: the next recipient, or the end of the attempt.
LEMMA TakeReplyKeeps == ASSUME OutboundInv, NEW c \in OutboundCalls, TakeReply(c) PROVE OutboundInv'
  <1>1. PICK code \in CodesOf(sends[c].reply) :
           /\ IF code = "OK" /\ kind = "whatsapp_send" /\ sends[c].part + 1 \in Parts(kind)
              THEN sends' = [sends EXCEPT ![c].phase = "next", ![c].part = @ + 1]
              ELSE EndAttempt(c, code)
           /\ results' = (results \/ (code = "OK" /\ kind \in Booking))
    BY DEF TakeReply
  <1>2. sends[c].phase = "sent" /\ UNCHANGED <<kind, keySeen, effects, acted>>
    BY DEF TakeReply
  <1>3. sends[c] \in Send /\ sends \in [OutboundCalls -> Send] /\ kind \in Kinds /\ results \in BOOLEAN /\ KeyKnows
    BY DEF OutboundInv, OutboundTyped
  <1>4. PartsDone(c) /\ HandsOverOnce(c)
    BY DEF OutboundInv
  <1>5. sends[c].reply \in RepliesTo
    BY <1>2, <1>4 DEF PartsDone
  <1>6. /\ code \in OutCodes /\ (code = "OK" => sends[c].reply \in Certain)
        /\ kind \in Irrevocable /\ sends[c].reply \notin Clean
             => Reported(code) \in {"OK", "SIDE_EFFECT_UNKNOWN", "INTERNAL"}
    BY <1>3, <1>5, ReplyCodes
  <1>7. /\ code = "OK" => Arrived(c)
        /\ sends[c].part = 2 => effects[1] >= 1
        /\ sends[c].part \in 1..2 /\ sends[c].part \in Parts(kind)
    BY <1>2, <1>3, <1>4, <1>6 DEF PartsDone, Send
  <1>8. CASE code = "OK" /\ kind = "whatsapp_send" /\ sends[c].part + 1 \in Parts(kind)
    <2>1. sends' = [sends EXCEPT ![c].phase = "next", ![c].part = sends[c].part + 1]
      BY <1>1, <1>8
    <2>2. sends[c].part = 1 /\ kind = "whatsapp_send"
      BY <1>7, <1>8, PartsOf
    <2>3. sends'[c] = [sends[c] EXCEPT !.phase = "next", !.part = 2] /\ \A d \in OutboundCalls \ {c} : sends'[d] = sends[d]
      BY <1>3, <2>1, <2>2
    <2>4. /\ sends'[c] \in Send /\ sends'[c].phase = "next" /\ sends'[c].part = 2
          /\ sends'[c].verdict = sends[c].verdict
      <3>1. "next" \in Phases /\ 2 \in 1..2
        BY DEF Phases
      <3> QED
        BY <1>3, <2>3, <3>1 DEF Send
    <2>5. kind \notin Booking /\ kind \notin Irrevocable /\ kind # "payment" /\ 2 \in Parts(kind)
      BY <2>2 DEF Booking, Irrevocable, Parts
    <2>6. OutboundTyped'
      <3>1. results' \in BOOLEAN
        BY <1>1, <1>3, Zenon
      <3>2. sends' \in [OutboundCalls -> Send]
        BY <1>3, <2>1, <2>3, <2>4
      <3> QED
        BY <1>2, <3>1, <3>2 DEF OutboundInv, OutboundTyped
    <2>7. PartsDone(c)' /\ HandsOverOnce(c)'
      BY <1>2, <1>4, <1>7, <1>8, <2>2, <2>4, <2>5 DEF PartsDone, HandsOverOnce, Parts, Arrived, Delivered
    <2>8. \A d \in OutboundCalls \ {c} : PartsDone(d)' /\ HandsOverOnce(d)'
      BY <1>2, <2>3 DEF OutboundInv, PartsDone, HandsOverOnce, Parts, RepliesTo, Arrived, Delivered
    <2> QED
      BY <1>2, <2>5, <2>6, <2>7, <2>8 DEF OutboundInv, KeyKnows, PaymentsCounted
  <1>9. CASE ~(code = "OK" /\ kind = "whatsapp_send" /\ sends[c].part + 1 \in Parts(kind))
    <2>1. EndAttempt(c, code)
      BY <1>1, <1>9
    <2>2. code = "OK" => Delivered
      <3>1. CASE kind = "whatsapp_send"
        <4>1. Parts(kind) = {1, 2}
          BY <3>1 DEF Parts
        <4>2. code = "OK" => sends[c].part = 2
          BY <1>7, <1>9, <3>1, <4>1
        <4> QED
          BY <1>7, <3>1, <4>1, <4>2 DEF Arrived, Delivered
      <3>2. CASE kind # "whatsapp_send"
        <4>1. sends[c].part = 1
          BY <1>2, <1>4, <3>2 DEF PartsDone
        <4> QED
          BY <1>7, <3>2, <4>1, PartsOf DEF Arrived, Delivered
      <3> QED
        BY <3>1, <3>2
    <2>3. kind \in Irrevocable /\ c \in acted => Reported(code) \in {"OK", "SIDE_EFFECT_UNKNOWN", "INTERNAL"}
      BY <1>2, <1>4, <1>6 DEF HandsOverOnce
    <2>4. results' \in BOOLEAN /\ (kind \in Booking /\ results' => effects[1] >= 1)
      BY <1>1, <1>3, <2>2, PartsOf DEF KeyKnows, Delivered, Booking
    <2> QED
      BY <1>2, <1>6, <2>1, <2>2, <2>3, <2>4, EndKeeps
  <1> QED
    BY <1>8, <1>9

\* A request leaves: it acts once on a key, and once per dispatch of a payment.
LEMMA HandOverKeeps ==
    ASSUME OutboundInv, NEW c \in OutboundCalls, NEW reply \in Replies, NEW took \in BOOLEAN, HandOver(c, reply, took)
    PROVE  OutboundInv'
  <1> DEFINE acts == took /\ ~(kind \in Booking /\ keySeen)
             part == sends[c].part
  <1>1. /\ sends[c].phase \in {"ready", "next"} /\ reply \in RepliesTo
        /\ took => reply \notin Clean
        /\ reply \in Certain => took
        /\ sends' = [sends EXCEPT ![c].phase = "sent", ![c].reply = reply]
        /\ keySeen' = (keySeen \/ took) /\ UNCHANGED <<kind, results>>
    BY DEF HandOver
  <1>2. /\ acts => /\ acted' = acted \cup {c}
                   /\ \E reached \in Reach(c) :
                        effects' = [p \in 1..2 |-> IF p \in reached THEN effects[p] + 1 ELSE effects[p]]
        /\ ~acts => UNCHANGED <<effects, acted>>
    BY DEF HandOver, CarriesKey
  <1>3. /\ sends[c] \in Send /\ sends \in [OutboundCalls -> Send] /\ kind \in Kinds /\ keySeen \in BOOLEAN
        /\ effects \in [1..2 -> Nat] /\ acted \subseteq OutboundCalls /\ KeyKnows /\ PaymentsCounted
    BY DEF OutboundInv, OutboundTyped
  <1>4. PartsDone(c) /\ HandsOverOnce(c)
    BY DEF OutboundInv
  <1>5. /\ sends'[c] = [sends[c] EXCEPT !.phase = "sent", !.reply = reply]
        /\ \A d \in OutboundCalls \ {c} : sends'[d] = sends[d]
    BY <1>1, <1>3
  <1>6. /\ sends'[c] \in Send /\ sends'[c].phase = "sent" /\ sends'[c].reply = reply
        /\ sends'[c].part = part /\ sends'[c].verdict = sends[c].verdict
    BY <1>3, <1>5 DEF Send, Phases
  <1>7. part \in 1..2 /\ part \in Parts(kind) /\ (kind # "whatsapp_send" => part = 1)
    BY <1>1, <1>3, <1>4 DEF PartsDone, Send
  <1>8. kind \in Irrevocable => sends[c].phase = "ready" /\ c \notin acted
    <2>1. kind \in Irrevocable => kind # "whatsapp_send"
      BY DEF Irrevocable
    <2> QED
      BY <1>1, <1>4, <1>7, <2>1 DEF PartsDone, HandsOverOnce
  <1> HIDE DEF acts, part
  <1>9. /\ effects' \in [1..2 -> Nat] /\ acted' \subseteq OutboundCalls
        /\ \A q \in 1..2 : effects[q] >= 1 => effects'[q] >= 1
        /\ acts /\ kind # "email" => effects'[part] = effects[part] + 1 /\ effects'[part] >= 1
        /\ acts /\ kind = "email" => \E q \in Parts(kind) : effects'[q] >= 1
    <2>1. CASE acts
      <3>1. PICK reached \in Reach(c) :
                effects' = [p \in 1..2 |-> IF p \in reached THEN effects[p] + 1 ELSE effects[p]]
        BY <1>2, <2>1
      <3>2. /\ effects' \in [1..2 -> Nat]
            /\ \A q \in 1..2 : effects[q] \in Nat /\ effects'[q] >= effects[q]
            /\ \A q \in 1..2 : q \in reached => effects'[q] = effects[q] + 1 /\ effects'[q] >= 1
        BY <1>3, <3>1
      <3>3. kind # "email" => part \in reached
        BY <3>1 DEF Reach, part
      <3>4. ASSUME kind = "email" PROVE \E q \in Parts(kind) : q \in reached
        <4>1. Reach(c) = {some \in SUBSET Parts(kind) : some # {}}
          BY <3>4 DEF Reach
        <4>2. reached \in SUBSET Parts(kind) /\ reached # {}
          BY <3>1, <4>1
        <4> QED
          BY <4>2
      <3>5. /\ kind # "email" => effects'[part] = effects[part] + 1 /\ effects'[part] >= 1
            /\ kind = "email" => \E q \in Parts(kind) : effects'[q] >= 1
        BY <1>7, <3>2, <3>3, <3>4, PartsOf
      <3> QED
        BY <1>2, <1>3, <2>1, <3>2, <3>5
    <2>2. CASE ~acts
      BY <1>2, <1>3, <2>2
    <2> QED
      BY <2>1, <2>2
  <1>10. OutboundTyped'
    BY <1>1, <1>3, <1>5, <1>6, <1>9 DEF OutboundInv, OutboundTyped
  <1>11. KeyKnows'
    <2> SUFFICES ASSUME kind \in Booking PROVE KeyKnows'
      BY <1>1 DEF KeyKnows, Booking
    <2>1. part = 1 /\ effects[1] \in Nat /\ kind # "email"
      BY <1>3, <1>7 DEF Booking
    <2>2. effects[1] <= 1 /\ (keySeen <=> effects[1] >= 1) /\ (results => effects[1] >= 1)
      BY <1>3 DEF KeyKnows
    <2>3. CASE acts
      <3>1. took /\ ~keySeen /\ effects'[1] = effects[1] + 1
        BY <1>9, <2>1, <2>3 DEF acts
      <3>2. effects'[1] = 1
        BY <2>1, <2>2, <3>1
      <3>3. keySeen'
        BY <1>1, <3>1
      <3> QED
        BY <3>2, <3>3 DEF KeyKnows
    <2>4. CASE ~acts
      <3>1. effects' = effects /\ (took => keySeen)
        BY <1>2, <2>4 DEF acts
      <3>2. keySeen' <=> keySeen
        BY <1>1, <3>1
      <3> QED
        BY <1>1, <2>2, <3>1, <3>2 DEF KeyKnows
    <2> QED
      BY <2>3, <2>4
  <1>12. PaymentsCounted'
    <2> SUFFICES ASSUME kind = "payment" PROVE effects'[1] = Cardinality(acted')
      BY <1>1 DEF PaymentsCounted
    <2>1. part = 1 /\ c \notin acted /\ effects[1] = Cardinality(acted)
      BY <1>3, <1>7, <1>8 DEF Irrevocable, PaymentsCounted
    <2>2. CASE acts
      <3>1. IsFiniteSet(acted)
        BY <1>3, OutboundAssumption, FS_Subset
      <3>2. Cardinality(acted \cup {c}) = Cardinality(acted) + 1
        BY <2>1, <3>1, FS_AddElement
      <3> QED
        BY <1>2, <1>9, <2>1, <2>2, <3>2
    <2>3. CASE ~acts
      BY <1>2, <2>1, <2>3
    <2> QED
      BY <2>2, <2>3
  <1>13. PartsDone(c)'
    <2>1. reply \in Certain => Arrived(c)'
      <3>1. CASE acts
        BY <1>1, <1>6, <1>9, <3>1 DEF Arrived, Delivered
      <3>2. CASE ~acts /\ took
        <4>1. kind \in Booking /\ keySeen /\ effects' = effects
          BY <1>2, <3>2 DEF acts
        <4>2. part = 1 /\ effects[1] >= 1
          BY <1>3, <1>7, <4>1 DEF Booking, KeyKnows
        <4> QED
          BY <1>1, <1>6, <4>1, <4>2 DEF Arrived, Booking
      <3> QED
        BY <1>1, <3>1, <3>2
    <2>2. part = 2 => effects'[1] >= 1
      <3>1. part = 2 => effects[1] >= 1
        BY <1>1, <1>4 DEF PartsDone, part
      <3> QED
        BY <1>9, <3>1
    <2>3. sends[c].verdict # "OK"
      BY <1>1, <1>4 DEF PartsDone
    <2>4. reply \in RepliesTo' /\ part \in Parts(kind')
      BY <1>1, <1>7 DEF RepliesTo
    <2> QED
      BY <1>1, <1>6, <1>7, <2>1, <2>2, <2>3, <2>4 DEF PartsDone
  <1>14. HandsOverOnce(c)'
    <2> SUFFICES ASSUME kind \in Irrevocable PROVE HandsOverOnce(c)'
      BY <1>1 DEF HandsOverOnce, Irrevocable
    <2>1. c \in acted' => acts
      BY <1>2, <1>8
    <2>2. acts => reply \notin Clean
      BY <1>1 DEF acts
    <2>3. sends[c].verdict \in {"none", "SIDE_EFFECT_UNKNOWN"}
      BY <1>4, <1>8 DEF HandsOverOnce
    <2> QED
      BY <1>6, <2>1, <2>2, <2>3 DEF HandsOverOnce
  <1>15. ASSUME NEW d \in OutboundCalls \ {c} PROVE PartsDone(d)' /\ HandsOverOnce(d)'
    <2>1. /\ PartsDone(d) /\ HandsOverOnce(d) /\ sends'[d] = sends[d] /\ sends[d].part \in 1..2
          /\ (d \in acted' <=> d \in acted)
      BY <1>2, <1>3, <1>5 DEF OutboundInv, Send
    <2>2. \A q \in Parts(kind) : effects[q] >= 1 => effects'[q] >= 1
      BY <1>9, PartsOf
    <2>3. PartsDone(d)'
      BY <1>1, <1>9, <2>1, <2>2 DEF PartsDone, Parts, RepliesTo, Arrived, Delivered
    <2>4. HandsOverOnce(d)'
      BY <1>1, <2>1 DEF HandsOverOnce
    <2> QED
      BY <2>3, <2>4
  <1> QED
    BY <1>10, <1>11, <1>12, <1>13, <1>14, <1>15 DEF OutboundInv

-----------------------------------------------------------------------------
\* Nothing has been sent yet.
LEMMA OutboundInitInv == ASSUME OutboundInit PROVE OutboundInv
  <1> DEFINE rest == [phase |-> "idle", attempt |-> 1, part |-> 1, reply |-> "none", verdict |-> "none"]
  <1>1. /\ kind \in Kinds /\ results = FALSE /\ keySeen = FALSE /\ effects = [p \in 1..2 |-> 0] /\ acted = {}
        /\ sends = [c \in OutboundCalls |-> rest]
    BY DEF OutboundInit
  <1>2. rest \in Send /\ rest.phase = "idle" /\ rest.part = 1 /\ rest.verdict = "none"
    BY DEF Send, Phases
  <1> HIDE DEF rest
  <1>3. OutboundTyped /\ effects[1] = 0
    <2>1. effects \in [1..2 -> Nat] /\ effects[1] = 0
      BY <1>1
    <2>2. sends \in [OutboundCalls -> Send]
      BY <1>1, <1>2
    <2> QED
      BY <1>1, <2>1, <2>2 DEF OutboundTyped
  <1>4. KeyKnows /\ PaymentsCounted
    BY <1>1, <1>3, FS_EmptySet DEF KeyKnows, PaymentsCounted
  <1>5. \A c \in OutboundCalls : PartsDone(c) /\ HandsOverOnce(c)
    BY <1>1, <1>2, PartsOf DEF PartsDone, HandsOverOnce
  <1> QED
    BY <1>3, <1>4, <1>5 DEF OutboundInv

\* Every step of every dispatch, and of its caller, keeps the invariant.
LEMMA OutboundStepInv == ASSUME OutboundInv, [OutboundNext]_outVars PROVE OutboundInv'
  <1>1. CASE UNCHANGED outVars
    BY <1>1 DEF outVars, OutboundInv, OutboundTyped, KeyKnows, PaymentsCounted, PartsDone, HandsOverOnce, RepliesTo, Arrived, Delivered
  <1>2. CASE OutboundNext
    BY <1>2, DispatchSendKeeps, LocalKeeps, HandOverKeeps, TakeReplyKeeps, AbandonKeeps DEF OutboundNext
  <1> QED
    BY <1>1, <1>2

\* The invariant holds always, for any number of dispatches and attempts.
THEOREM OutboundInvariant == OutboundSpec => []OutboundInv
  <1>1. OutboundInit => OutboundInv
    BY OutboundInitInv
  <1>2. OutboundInv /\ [OutboundNext]_outVars => OutboundInv'
    BY OutboundStepInv
  <1> QED
    BY <1>1, <1>2, PTL DEF OutboundSpec

\* However many dispatches a booking action has and whatever answers are lost,
\* the partner acts on it once; and every dispatch of a payment hands it over
\* at most once (booking_provider._idempotent_remote, _retry_policy_for).
THEOREM IrreversibleHappensOnce == OutboundSpec => []IrreversibleOnce
  <1>1. ASSUME OutboundInv PROVE IrreversibleOnce
    <2>1. kind \in Booking => effects[1] <= 1
      BY <1>1 DEF OutboundInv, KeyKnows
    <2>2. ASSUME kind = "payment" PROVE effects[1] <= Cardinality({c \in OutboundCalls : sends[c].phase # "idle"})
      <3> DEFINE begun == {c \in OutboundCalls : sends[c].phase # "idle"}
      <3>1. acted \subseteq begun
        BY <1>1, <2>2 DEF OutboundInv, OutboundTyped, HandsOverOnce, Irrevocable
      <3>2. IsFiniteSet(begun)
        BY OutboundAssumption, FS_Subset
      <3>3. Cardinality(acted) <= Cardinality(begun)
        BY <3>1, <3>2, FS_Subset
      <3> QED
        BY <1>1, <2>2, <3>3 DEF OutboundInv, PaymentsCounted
    <2> QED
      BY <2>1, <2>2 DEF IrreversibleOnce
  <1> QED
    BY <1>1, OutboundInvariant, PTL

\* A dispatch that is reported executed has had its effect on every part (of a
\* mail on one recipient at least), and an irrevocable one reported as a clean
\* failure has had none (execute of the providers, and the conversion in
\* _run_provider).
THEOREM VerdictsAreHonest == OutboundSpec => []HonestVerdict
  <1>1. ASSUME OutboundInv PROVE HonestVerdict
    BY <1>1 DEF OutboundInv, PartsDone, HandsOverOnce, HonestVerdict
  <1> QED
    BY <1>1, OutboundInvariant, PTL

-----------------------------------------------------------------------------
(* The circuit breaker, attribute by attribute *)

\* The types, and a row that was read is not gone.
BreakerTyped == ThreadsTypeOK /\ \A t \in Threads : base[t] # Nil => row # Nil

\* A snapshot the assertion of allow_request accepts.
Timed(s) == s.state = "OPEN" => s.openedAt # Nil

\* What thread t of a process with no other thread knows where it is.
HasTime(t) ==
    /\ pc[t] \in {"assign1", "assign2", "assign3", "save", "flush"} => Timed(snap[t])
    /\ pc[t] \in {"assign2", "assign3", "capture2", "capture3"} => M(t).state = snap[t].state
    /\ pc[t] \in {"reset1", "reset2", "reset3", "close"} => M(t).state # "OPEN"
    /\ pc[t] \notin {"assign2", "assign3", "reopen2", "stamp"} => Timed(M(t))
    /\ pc[t] = "flush" /\ ~deployment.postgres => base[t] = row

TimedInv ==
    /\ BreakerTyped
    /\ row # Nil => Timed(row)
    /\ \A t \in deployment.threads : HasTime(t)

\* The persisted circuit: the one of the constructor before the first save.
Saved == IF row = Nil THEN Fresh ELSE row

\* The transitions of the class docstring, from old to new.
Transition(old, new) ==
    \/ old.state # "OPEN" /\ new = Fresh
    \/ /\ old.state = "OPEN"
       /\ new = [state |-> "HALF_OPEN", failures |-> old.failures, openedAt |-> old.openedAt]
    \/ /\ old.state = "HALF_OPEN"
       /\ new = [state |-> "OPEN", failures |-> 1, openedAt |-> new.openedAt]
       /\ new.openedAt > old.openedAt
    \/ /\ old.state = "CLOSED" /\ new.failures = old.failures + 1
       /\ new.state = IF new.failures < Threshold THEN "CLOSED" ELSE "OPEN"

\* A circuit that is not closed knows since when.
Since(s) == s.state # "CLOSED" => s.openedAt \in 0..clock

\* Where the only thread is before it changes an attribute.
Untouched == {"idle", "exec", "raised", "gate", "success", "failure", "half", "assert", "probe", "failed",
              "reset1", "reopen", "count", "add", "assign1", "assign2", "assign3"}

\* What a thread that is at p has tested,
TestedAt(p) ==
    /\ p = "half" => Saved.state # "CLOSED"
    /\ p \in {"assert", "probe"} => Saved.state = "OPEN"
    /\ p \in {"failed", "reset1", "reset2", "reset3", "close"} => Saved.state # "OPEN"
    /\ p \in {"reopen", "reopen2"} => Saved.state = "HALF_OPEN"
    /\ p \in {"count", "add", "trip", "open"} => Saved.state = "CLOSED"

\* ... how its breaker m differs from the persisted circuit,
ChangedAt(p, m) ==
    /\ p \in Untouched => m = Saved
    /\ p = "reset2" => m = [state |-> Saved.state, failures |-> 0, openedAt |-> Saved.openedAt]
    /\ p \in {"reset3", "close"} => m = [state |-> Saved.state, failures |-> 0, openedAt |-> Nil]
    /\ p = "reopen2" => m = [state |-> "OPEN", failures |-> Saved.failures, openedAt |-> Saved.openedAt]
    /\ p \in {"trip", "open"} =>
          m = [state |-> Saved.state, failures |-> Saved.failures + 1, openedAt |-> Saved.openedAt]
    /\ p = "open" => Saved.failures + 1 >= Threshold
    /\ p = "stamp" =>
          /\ m.state = "OPEN"
          /\ \/ Saved.state = "HALF_OPEN" /\ m.failures = 1
             \/ Saved.state = "CLOSED" /\ m.failures = Saved.failures + 1 /\ m.failures >= Threshold
    /\ p \in {"capture", "capture2", "capture3", "save", "flush"} => Transition(Saved, m) /\ Since(m)

\* ... and what it holds in its locals s and b.
InHandAt(p, m, s, b) ==
    /\ p \in {"assign1", "assign2", "assign3"} => s = Saved
    /\ p = "add" => s.failures = Saved.failures
    /\ p \in {"capture2", "capture3"} => s.state = m.state
    /\ p = "capture3" => s.failures = m.failures
    /\ p \in {"save", "flush"} => s = m
    /\ p = "flush" => b = row

Fits(p, m, s, b) == TestedAt(p) /\ ChangedAt(p, m) /\ InHandAt(p, m, s, b)

\* One thread dispatches at a time.
Alone == \A t, u \in deployment.threads : t = u

AloneInv ==
    /\ BreakerTyped
    /\ Alone => \A t \in deployment.threads : Since(Saved) /\ Fits(pc[t], M(t), snap[t], base[t])

\* A step of thread t leaves the other threads and processes alone.
Others(t) ==
    /\ deployment' = deployment /\ clock' = clock
    /\ \A u \in Threads \ {t} : pc'[u] = pc[u] /\ snap'[u] = snap[u] /\ base'[u] = base[u]
    /\ \A p \in Processes \ {Home[t]} : mem'[p] = mem[p]

States3 == {"CLOSED", "OPEN", "HALF_OPEN"}

\* What a circuit is made of.
LEMMA SnapshotFields ==
    /\ \A s \in Snapshot : s.state \in States3 /\ s.failures \in Nat /\ s.openedAt \in Nat \cup {Nil}
    /\ \A s \in Snapshot : s = [state |-> s.state, failures |-> s.failures, openedAt |-> s.openedAt]
    /\ \A x \in States3, n \in Nat, o \in Nat \cup {Nil} :
          [state |-> x, failures |-> n, openedAt |-> o] \in Snapshot
    /\ Fresh \in Snapshot
BY DEF Snapshot, States3, Fresh

\* A write of the state changes that attribute and nobody else,
LEMMA WroteState ==
    ASSUME BreakerTyped, NEW t \in Threads, NEW from, NEW value \in States3, NEW to \in Positions,
           Write(t, from, "state", value, to)
    PROVE  /\ BreakerTyped' /\ Others(t) /\ row' = row /\ pc[t] = from /\ pc'[t] = to
           /\ snap'[t] = snap[t] /\ base'[t] = base[t]
           /\ mem'[Home[t]] = [state |-> value, failures |-> M(t).failures, openedAt |-> M(t).openedAt]
<1>1. /\ pc[t] = from /\ mem' = [mem EXCEPT ![Home[t]]["state"] = value] /\ pc' = [pc EXCEPT ![t] = to]
      /\ UNCHANGED <<deployment, clock, row, meth, snap, base>>
  BY DEF Write
<1>2. Home[t] \in Processes /\ mem \in [Processes -> Snapshot] /\ pc \in [Threads -> Positions]
  BY ThreadsAssumption DEF BreakerTyped, ThreadsTypeOK
<1>3. mem'[Home[t]] = [mem[Home[t]] EXCEPT !["state"] = value]
  BY <1>1, <1>2
<1>4. mem'[Home[t]] = [state |-> value, failures |-> M(t).failures, openedAt |-> M(t).openedAt]
  BY <1>2, <1>3 DEF M, Snapshot
<1>5. mem'[Home[t]] \in Snapshot
  BY <1>2, <1>4, SnapshotFields DEF M
<1>6. \A p \in Processes \ {Home[t]} : mem'[p] = mem[p]
  BY <1>1, <1>2
<1>7. mem' \in [Processes -> Snapshot]
  BY <1>1, <1>2, <1>5, <1>6
<1>8. pc' \in [Threads -> Positions] /\ pc'[t] = to /\ \A u \in Threads \ {t} : pc'[u] = pc[u]
  BY <1>1, <1>2
<1>9. BreakerTyped'
  BY <1>1, <1>7, <1>8 DEF BreakerTyped, ThreadsTypeOK
<1> QED BY <1>1, <1>4, <1>6, <1>8, <1>9 DEF Others

\* ... one of the count,
LEMMA WroteFailures ==
    ASSUME BreakerTyped, NEW t \in Threads, NEW from, NEW value \in Nat, NEW to \in Positions,
           Write(t, from, "failures", value, to)
    PROVE  /\ BreakerTyped' /\ Others(t) /\ row' = row /\ pc[t] = from /\ pc'[t] = to
           /\ snap'[t] = snap[t] /\ base'[t] = base[t]
           /\ mem'[Home[t]] = [state |-> M(t).state, failures |-> value, openedAt |-> M(t).openedAt]
<1>1. /\ pc[t] = from /\ mem' = [mem EXCEPT ![Home[t]]["failures"] = value] /\ pc' = [pc EXCEPT ![t] = to]
      /\ UNCHANGED <<deployment, clock, row, meth, snap, base>>
  BY DEF Write
<1>2. Home[t] \in Processes /\ mem \in [Processes -> Snapshot] /\ pc \in [Threads -> Positions]
  BY ThreadsAssumption DEF BreakerTyped, ThreadsTypeOK
<1>3. mem'[Home[t]] = [mem[Home[t]] EXCEPT !["failures"] = value]
  BY <1>1, <1>2
<1>4. mem'[Home[t]] = [state |-> M(t).state, failures |-> value, openedAt |-> M(t).openedAt]
  BY <1>2, <1>3 DEF M, Snapshot
<1>5. mem'[Home[t]] \in Snapshot
  BY <1>2, <1>4, SnapshotFields DEF M
<1>6. \A p \in Processes \ {Home[t]} : mem'[p] = mem[p]
  BY <1>1, <1>2
<1>7. mem' \in [Processes -> Snapshot]
  BY <1>1, <1>2, <1>5, <1>6
<1>8. pc' \in [Threads -> Positions] /\ pc'[t] = to /\ \A u \in Threads \ {t} : pc'[u] = pc[u]
  BY <1>1, <1>2
<1>9. BreakerTyped'
  BY <1>1, <1>7, <1>8 DEF BreakerTyped, ThreadsTypeOK
<1> QED BY <1>1, <1>4, <1>6, <1>8, <1>9 DEF Others

\* ... one of the opening time,
LEMMA WroteOpenedAt ==
    ASSUME BreakerTyped, NEW t \in Threads, NEW from, NEW value, value = Nil \/ value \in Nat,
           NEW to \in Positions, Write(t, from, "openedAt", value, to)
    PROVE  /\ BreakerTyped' /\ Others(t) /\ row' = row /\ pc[t] = from /\ pc'[t] = to
           /\ snap'[t] = snap[t] /\ base'[t] = base[t]
           /\ mem'[Home[t]] = [state |-> M(t).state, failures |-> M(t).failures, openedAt |-> value]
<1>1. /\ pc[t] = from /\ mem' = [mem EXCEPT ![Home[t]]["openedAt"] = value] /\ pc' = [pc EXCEPT ![t] = to]
      /\ UNCHANGED <<deployment, clock, row, meth, snap, base>>
  BY DEF Write
<1>2. Home[t] \in Processes /\ mem \in [Processes -> Snapshot] /\ pc \in [Threads -> Positions]
  BY ThreadsAssumption DEF BreakerTyped, ThreadsTypeOK
<1>3. mem'[Home[t]] = [mem[Home[t]] EXCEPT !["openedAt"] = value]
  BY <1>1, <1>2
<1>4. mem'[Home[t]] = [state |-> M(t).state, failures |-> M(t).failures, openedAt |-> value]
  BY <1>2, <1>3 DEF M, Snapshot
<1>5. mem'[Home[t]] \in Snapshot
  BY <1>2, <1>4, SnapshotFields DEF M
<1>6. \A p \in Processes \ {Home[t]} : mem'[p] = mem[p]
  BY <1>1, <1>2
<1>7. mem' \in [Processes -> Snapshot]
  BY <1>1, <1>2, <1>5, <1>6
<1>8. pc' \in [Threads -> Positions] /\ pc'[t] = to /\ \A u \in Threads \ {t} : pc'[u] = pc[u]
  BY <1>1, <1>2
<1>9. BreakerTyped'
  BY <1>1, <1>7, <1>8 DEF BreakerTyped, ThreadsTypeOK
<1> QED BY <1>1, <1>4, <1>6, <1>8, <1>9 DEF Others

\* ... a test only the place of its thread,
LEMMA TestedOnly ==
    ASSUME BreakerTyped, NEW t \in Threads, NEW from, NEW cond, NEW yes \in Positions, NEW no \in Positions,
           Test(t, from, cond, yes, no)
    PROVE  /\ BreakerTyped' /\ Others(t) /\ row' = row /\ pc[t] = from
           /\ (cond => pc'[t] = yes) /\ (~cond => pc'[t] = no)
           /\ snap'[t] = snap[t] /\ base'[t] = base[t] /\ mem'[Home[t]] = M(t)
<1>1. /\ pc[t] = from /\ pc' = [pc EXCEPT ![t] = IF cond THEN yes ELSE no]
      /\ UNCHANGED <<deployment, clock, mem, row, meth, snap, base>>
  BY DEF Test
<1>2. pc \in [Threads -> Positions] /\ (IF cond THEN yes ELSE no) \in Positions
  BY DEF BreakerTyped, ThreadsTypeOK
<1>3. pc' \in [Threads -> Positions] /\ \A u \in Threads \ {t} : pc'[u] = pc[u]
  BY <1>1, <1>2
<1>4. (cond => pc'[t] = yes) /\ (~cond => pc'[t] = no)
  BY <1>1, <1>2
<1>5. BreakerTyped'
  BY <1>1, <1>3 DEF BreakerTyped, ThreadsTypeOK
<1> QED BY <1>1, <1>3, <1>4, <1>5 DEF Others, M

\* A read changes the thread's copy of one attribute.
LEMMA ReadOnly ==
    ASSUME BreakerTyped, NEW t \in Threads, NEW from, NEW field \in {"state", "failures", "openedAt"},
           NEW to \in Positions, Read(t, from, field, to)
    PROVE  /\ BreakerTyped' /\ Others(t) /\ row' = row /\ pc[t] = from /\ pc'[t] = to
           /\ base'[t] = base[t] /\ mem'[Home[t]] = M(t)
           /\ (field = "state" => snap'[t] = [state |-> M(t).state, failures |-> snap[t].failures,
                                              openedAt |-> snap[t].openedAt])
           /\ (field = "failures" => snap'[t] = [state |-> snap[t].state, failures |-> M(t).failures,
                                                 openedAt |-> snap[t].openedAt])
           /\ (field = "openedAt" => snap'[t] = [state |-> snap[t].state, failures |-> snap[t].failures,
                                                 openedAt |-> M(t).openedAt])
<1>1. /\ pc[t] = from /\ snap' = [snap EXCEPT ![t][field] = M(t)[field]] /\ pc' = [pc EXCEPT ![t] = to]
      /\ UNCHANGED <<deployment, clock, mem, row, meth, base>>
  BY DEF Read
<1>2. M(t) \in Snapshot /\ snap \in [Threads -> Snapshot] /\ pc \in [Threads -> Positions]
  BY ThreadsAssumption DEF BreakerTyped, ThreadsTypeOK, M
<1>3. snap'[t] = [snap[t] EXCEPT ![field] = M(t)[field]] /\ \A u \in Threads \ {t} : snap'[u] = snap[u]
  BY <1>1, <1>2
<1>4. /\ (field = "state" => snap'[t] = [state |-> M(t).state, failures |-> snap[t].failures,
                                              openedAt |-> snap[t].openedAt])
      /\ (field = "failures" => snap'[t] = [state |-> snap[t].state, failures |-> M(t).failures,
                                                 openedAt |-> snap[t].openedAt])
      /\ (field = "openedAt" => snap'[t] = [state |-> snap[t].state, failures |-> snap[t].failures,
                                                 openedAt |-> M(t).openedAt])
  BY <1>2, <1>3 DEF Snapshot
<1>5. snap'[t] \in Snapshot
  BY <1>2, <1>4, SnapshotFields
<1>6. snap' \in [Threads -> Snapshot]
  BY <1>1, <1>2, <1>3, <1>5
<1>7. pc' \in [Threads -> Positions] /\ pc'[t] = to /\ \A u \in Threads \ {t} : pc'[u] = pc[u]
  BY <1>1, <1>2
<1>8. BreakerTyped'
  BY <1>1, <1>6, <1>7 DEF BreakerTyped, ThreadsTypeOK
<1> QED BY <1>1, <1>3, <1>4, <1>7, <1>8 DEF Others, M

\* ... the select of _refresh only what its thread holds.
LEMMA LoadedOnly ==
    ASSUME BreakerTyped, NEW t \in Threads, NEW from, NEW m \in Methods, Load(t, from, m)
    PROVE  /\ BreakerTyped' /\ Others(t) /\ row' = row /\ pc[t] = from
           /\ (row = Nil => pc'[t] = m /\ snap'[t] = snap[t])
           /\ (row # Nil => pc'[t] = "assign1" /\ snap'[t] = row)
           /\ base'[t] = base[t] /\ mem'[Home[t]] = M(t)
<1>1. /\ pc[t] = from /\ snap' = [snap EXCEPT ![t] = IF row = Nil THEN snap[t] ELSE row]
      /\ pc' = [pc EXCEPT ![t] = IF row = Nil THEN m ELSE "assign1"] /\ meth' = [meth EXCEPT ![t] = m]
      /\ UNCHANGED <<deployment, clock, mem, row, base>>
  BY DEF Load
<1>2. /\ snap \in [Threads -> Snapshot] /\ pc \in [Threads -> Positions] /\ meth \in [Threads -> Methods]
      /\ m \in Positions /\ "assign1" \in Positions /\ (row # Nil => row \in Snapshot)
  BY DEF BreakerTyped, ThreadsTypeOK, Positions
<1>3. snap' \in [Threads -> Snapshot] /\ pc' \in [Threads -> Positions] /\ meth' \in [Threads -> Methods]
  BY <1>1, <1>2
<1>4. \A u \in Threads \ {t} : pc'[u] = pc[u] /\ snap'[u] = snap[u]
  BY <1>1, <1>2
<1>5. /\ (row = Nil => pc'[t] = m /\ snap'[t] = snap[t])
      /\ (row # Nil => pc'[t] = "assign1" /\ snap'[t] = row)
  BY <1>1, <1>2
<1>6. BreakerTyped'
  BY <1>1, <1>3 DEF BreakerTyped, ThreadsTypeOK
<1> QED BY <1>1, <1>4, <1>5, <1>6 DEF Others, M

\* What a thread forgets.
LEMMA ForgotOnly ==
    ASSUME BreakerTyped, NEW t \in Threads, Forget(t)
    PROVE  /\ snap' \in [Threads -> Snapshot] /\ base' \in [Threads -> Snapshot \cup {Nil}]
           /\ snap'[t] = Fresh /\ base'[t] = Nil
           /\ \A u \in Threads \ {t} : snap'[u] = snap[u] /\ base'[u] = base[u]
BY SnapshotFields DEF Forget, BreakerTyped, ThreadsTypeOK

\* The last assignment of _refresh hands over to the method.
LEMMA AssignedLast ==
    ASSUME BreakerTyped, NEW t \in Threads, pc[t] = "assign3",
           mem' = [mem EXCEPT ![Home[t]].openedAt = snap[t].openedAt],
           pc' = [pc EXCEPT ![t] = meth[t]], Forget(t), UNCHANGED <<deployment, clock, row, meth>>
    PROVE  /\ BreakerTyped' /\ Others(t) /\ pc'[t] \in Methods
           /\ mem'[Home[t]] = [state |-> M(t).state, failures |-> M(t).failures, openedAt |-> snap[t].openedAt]
<1>1. /\ Home[t] \in Processes /\ mem \in [Processes -> Snapshot] /\ pc \in [Threads -> Positions]
      /\ snap[t] \in Snapshot /\ meth[t] \in Methods /\ Methods \subseteq Positions
  BY ThreadsAssumption DEF BreakerTyped, ThreadsTypeOK, Positions
<1>2. mem'[Home[t]] = [mem[Home[t]] EXCEPT !.openedAt = snap[t].openedAt]
      /\ \A p \in Processes \ {Home[t]} : mem'[p] = mem[p]
  BY <1>1
<1>3. mem'[Home[t]] = [state |-> M(t).state, failures |-> M(t).failures, openedAt |-> snap[t].openedAt]
  BY <1>1, <1>2 DEF M, Snapshot
<1>4. mem'[Home[t]] \in Snapshot
  BY <1>1, <1>3, SnapshotFields DEF M
<1>5. mem' \in [Processes -> Snapshot]
  BY <1>1, <1>2, <1>4
<1>6. pc' \in [Threads -> Positions] /\ pc'[t] \in Methods /\ \A u \in Threads \ {t} : pc'[u] = pc[u]
  BY <1>1
<1>7. BreakerTyped'
  BY <1>5, <1>6, ForgotOnly DEF BreakerTyped, ThreadsTypeOK
<1> QED BY <1>2, <1>3, <1>6, <1>7, ForgotOnly DEF Others

\* The upsert reads the row it will change.
LEMMA ReadTheRow ==
    ASSUME BreakerTyped, NEW t \in Threads, SaveRead(t)
    PROVE  /\ BreakerTyped' /\ Others(t) /\ row' = row /\ pc[t] = "save" /\ pc'[t] = "flush"
           /\ snap'[t] = snap[t] /\ base'[t] = row /\ mem'[Home[t]] = M(t)
<1>1. /\ pc[t] = "save" /\ base' = [base EXCEPT ![t] = row] /\ pc' = [pc EXCEPT ![t] = "flush"]
      /\ UNCHANGED <<deployment, clock, mem, row, meth, snap>>
  BY DEF SaveRead
<1>2. /\ base \in [Threads -> Snapshot \cup {Nil}] /\ pc \in [Threads -> Positions]
      /\ row \in Snapshot \cup {Nil} /\ "flush" \in Positions
  BY DEF BreakerTyped, ThreadsTypeOK, Positions
<1>3. base' \in [Threads -> Snapshot \cup {Nil}] /\ pc' \in [Threads -> Positions]
  BY <1>1, <1>2
<1>4. BreakerTyped'
  BY <1>1, <1>3 DEF BreakerTyped, ThreadsTypeOK
<1>5. pc'[t] = "flush" /\ base'[t] = row /\ \A u \in Threads \ {t} : pc'[u] = pc[u] /\ base'[u] = base[u]
  BY <1>1, <1>2
<1> QED BY <1>1, <1>4, <1>5 DEF Others, M

\* A save whose row nobody changed since it read it writes the whole snapshot.
LEMMA WroteTheRow ==
    ASSUME BreakerTyped, NEW t \in Threads, SaveWrite(t)
    PROVE  /\ BreakerTyped' /\ Others(t) /\ pc[t] = "flush" /\ pc'[t] \in {"exec", "idle"}
           /\ mem'[Home[t]] = M(t) /\ row' \in Snapshot
           /\ (deployment.postgres \/ base[t] = row => row' = snap[t])
<1>1. pc[t] = "flush" /\ Forget(t) /\ UNCHANGED <<deployment, clock, mem, meth>>
  BY DEF SaveWrite
<1>2. /\ snap[t] \in Snapshot /\ base[t] \in Snapshot \cup {Nil} /\ row \in Snapshot \cup {Nil}
      /\ pc \in [Threads -> Positions] /\ (base[t] # Nil => row \in Snapshot)
      /\ After(t) \in {"exec", "idle"} /\ {"exec", "idle"} \subseteq Positions
  BY DEF BreakerTyped, ThreadsTypeOK, After, Positions
<1>3. PICK p \in {"exec", "idle"} : pc' = [pc EXCEPT ![t] = p]
  <2>1. \/ pc' = [pc EXCEPT ![t] = After(t)]
        \/ pc' = [pc EXCEPT ![t] = IF row = Nil THEN After(t) ELSE "idle"]
    BY DEF SaveWrite
  <2>2. (IF row = Nil THEN After(t) ELSE "idle") \in {"exec", "idle"}
    BY <1>2
  <2> QED BY <1>2, <2>1, <2>2
<1>4. pc' \in [Threads -> Positions] /\ pc'[t] = p /\ \A u \in Threads \ {t} : pc'[u] = pc[u]
  BY <1>2, <1>3
<1>5. ASSUME row # Nil PROVE
        [f \in DOMAIN row |-> IF snap[t][f] = base[t][f] THEN row[f] ELSE snap[t][f]]
           = [state |-> IF snap[t].state = base[t].state THEN row.state ELSE snap[t].state,
              failures |-> IF snap[t].failures = base[t].failures THEN row.failures ELSE snap[t].failures,
              openedAt |-> IF snap[t].openedAt = base[t].openedAt THEN row.openedAt ELSE snap[t].openedAt]
  BY <1>2, <1>5 DEF Snapshot
<1>6. row' \in Snapshot
  <2>1. CASE deployment.postgres
    BY <1>2, <2>1 DEF SaveWrite
  <2>2. CASE ~deployment.postgres /\ base[t] = Nil
    BY <1>2, <2>2 DEF SaveWrite
  <2>3. CASE ~deployment.postgres /\ base[t] # Nil
    <3>1. row' = [f \in DOMAIN row |-> IF snap[t][f] = base[t][f] THEN row[f] ELSE snap[t][f]]
      BY <2>3 DEF SaveWrite
    <3>2. row \in Snapshot /\ base[t] \in Snapshot /\ row # Nil
      BY <1>2, <2>3, NilIsNoSnapshot
    <3>3. row' \in Snapshot
      BY <1>2, <1>5, <3>1, <3>2, SnapshotFields
    <3> QED BY <3>3
  <2> QED BY <2>1, <2>2, <2>3
<1>7. ASSUME deployment.postgres \/ base[t] = row PROVE row' = snap[t]
  <2>1. CASE deployment.postgres
    BY <2>1 DEF SaveWrite
  <2>2. CASE ~deployment.postgres /\ base[t] = Nil
    BY <1>7, <2>2 DEF SaveWrite
  <2>3. CASE ~deployment.postgres /\ base[t] # Nil
    <3>1. row' = [f \in DOMAIN row |-> IF snap[t][f] = base[t][f] THEN row[f] ELSE snap[t][f]]
      BY <2>3 DEF SaveWrite
    <3>2. row # Nil /\ row \in Snapshot /\ base[t] = row
      BY <1>2, <1>7, <2>3
    <3>3. row' = [state |-> snap[t].state, failures |-> snap[t].failures, openedAt |-> snap[t].openedAt]
      BY <1>5, <3>1, <3>2
    <3> QED BY <1>2, <3>3, SnapshotFields
  <2> QED BY <2>1, <2>2, <2>3
<1>8. BreakerTyped'
  BY <1>1, <1>4, <1>6, ForgotOnly, NilIsNoSnapshot DEF BreakerTyped, ThreadsTypeOK
<1> QED BY <1>1, <1>3, <1>4, <1>6, <1>7, <1>8, ForgotOnly DEF Others, M

\* Places and states that the proofs below name.
LEMMA NamedPlaces ==
    /\ "assign2" \in Positions /\ "assign3" \in Positions /\ "capture" \in Positions
    /\ "capture2" \in Positions /\ "capture3" \in Positions /\ "save" \in Positions
    /\ "reset2" \in Positions /\ "reset3" \in Positions /\ "reopen2" \in Positions
    /\ "stamp" \in Positions /\ "add" \in Positions /\ "trip" \in Positions
    /\ "CLOSED" \in States3 /\ "OPEN" \in States3 /\ "HALF_OPEN" \in States3
BY DEF Positions, States3

\* A process that starts again has the persisted circuit.
LEMMA Restarted ==
    ASSUME BreakerTyped, NEW p \in Processes, Restart(p)
    PROVE  /\ BreakerTyped' /\ row' = row /\ deployment' = deployment /\ clock' = clock /\ mem'[p] = Saved
           /\ \A q \in Processes \ {p} : mem'[q] = mem[q]
           /\ \A u \in Threads : IF Home[u] = p THEN pc'[u] = "idle"
                                 ELSE pc'[u] = pc[u] /\ snap'[u] = snap[u] /\ base'[u] = base[u]
<1>1. /\ mem' = [mem EXCEPT ![p] = Saved]
      /\ pc' = [t \in Threads |-> IF Home[t] = p THEN "idle" ELSE pc[t]]
      /\ snap' = [t \in Threads |-> IF Home[t] = p THEN Fresh ELSE snap[t]]
      /\ base' = [t \in Threads |-> IF Home[t] = p THEN Nil ELSE base[t]]
      /\ UNCHANGED <<deployment, clock, row, meth>>
  BY DEF Restart, Saved
<1>2. /\ mem \in [Processes -> Snapshot] /\ Saved \in Snapshot
      /\ pc \in [Threads -> Positions] /\ snap \in [Threads -> Snapshot]
      /\ base \in [Threads -> Snapshot \cup {Nil}] /\ Fresh \in Snapshot /\ "idle" \in Positions
  BY SnapshotFields DEF BreakerTyped, ThreadsTypeOK, Saved, Positions
<1>3. mem' \in [Processes -> Snapshot] /\ mem'[p] = Saved /\ \A q \in Processes \ {p} : mem'[q] = mem[q]
  BY <1>1, <1>2
<1>4. /\ pc' \in [Threads -> Positions] /\ snap' \in [Threads -> Snapshot]
      /\ base' \in [Threads -> Snapshot \cup {Nil}]
  BY <1>1, <1>2
<1>5. \A u \in Threads : /\ Home[u] = p => pc'[u] = "idle" /\ base'[u] = Nil
                         /\ Home[u] # p => pc'[u] = pc[u] /\ snap'[u] = snap[u] /\ base'[u] = base[u]
  BY <1>1
<1>6. BreakerTyped'
  BY <1>1, <1>3, <1>4, <1>5 DEF BreakerTyped, ThreadsTypeOK
<1> QED BY <1>1, <1>3, <1>5, <1>6

\* Every thread lives in a process.
LEMMA ThreadsHome ==
    ASSUME BreakerTyped PROVE deployment.threads \subseteq Threads /\ \A t \in Threads : Home[t] \in Processes
BY ThreadsAssumption DEF BreakerTyped, ThreadsTypeOK

\* Every process has one thread; on SQLite there is one in all.
OneEach ==
    /\ \A t, u \in deployment.threads : Home[t] = Home[u] => t = u
    /\ deployment.postgres \/ Alone

\* A step of one thread: the others, in other processes, know what they knew.
LEMMA TimedKeeps ==
    ASSUME TimedInv, OneEach, NEW t \in deployment.threads, BreakerTyped', Others(t),
           row' # Nil => Timed(row'), HasTime(t)'
    PROVE  TimedInv'
<1>1. ASSUME NEW u \in deployment.threads, u # t PROVE HasTime(u)'
  <2>1. /\ u \in Threads \ {t} /\ Home[u] \in Processes \ {Home[t]}
        /\ pc'[u] = pc[u] /\ snap'[u] = snap[u] /\ base'[u] = base[u] /\ mem'[Home[u]] = mem[Home[u]]
        /\ deployment.postgres /\ deployment' = deployment
    BY <1>1, ThreadsHome DEF OneEach, Alone, TimedInv, Others
  <2>2. HasTime(u)
    BY <1>1 DEF TimedInv
  <2> QED BY <2>1, <2>2 DEF HasTime, Timed, M
<1>2. deployment' = deployment
  BY DEF Others
<1> QED BY <1>1, <1>2 DEF TimedInv, Timed

\* allow_request keeps the times.
LEMMA GateTimed ==
    ASSUME TimedInv, OneEach, NEW t \in deployment.threads, Gate(t) \/ Unreported(t)
    PROVE  TimedInv'
<1>0. t \in Threads /\ BreakerTyped /\ HasTime(t) /\ (row # Nil => Timed(row)) /\ M(t) \in Snapshot
  BY ThreadsHome DEF TimedInv, M, BreakerTyped, ThreadsTypeOK
<1>1. CASE Load(t, "idle", "gate")
  <2>1. /\ BreakerTyped' /\ Others(t) /\ row' = row /\ pc[t] = "idle"
        /\ pc'[t] \in {"gate", "assign1"} /\ (pc'[t] = "assign1" => Timed(snap'[t])) /\ mem'[Home[t]] = M(t)
    BY <1>0, <1>1, LoadedOnly DEF Methods
  <2>2. HasTime(t)'
    BY <1>0, <2>1 DEF HasTime, M, Timed
  <2> QED BY <1>0, <2>1, <2>2, TimedKeeps
<1>2. ASSUME NEW from \in {"gate", "half", "assert", "exec"}, NEW c, NEW yes \in {"exec", "idle"},
             NEW no \in {"half", "assert", "raised", "probe", "idle"}, Test(t, from, c, yes, no)
      PROVE  TimedInv'
  <2>1. /\ BreakerTyped' /\ Others(t) /\ row' = row /\ pc[t] = from
        /\ pc'[t] \in {"exec", "idle", "half", "assert", "raised", "probe"} /\ mem'[Home[t]] = M(t)
    BY <1>0, <1>2, TestedOnly DEF Positions
  <2>2. HasTime(t)'
    BY <1>0, <2>1 DEF HasTime, M, Timed
  <2> QED BY <1>0, <2>1, <2>2, TimedKeeps
<1>3. CASE Write(t, "probe", "state", "HALF_OPEN", "capture")
  <2>1. /\ BreakerTyped' /\ Others(t) /\ row' = row /\ pc'[t] = "capture"
        /\ mem'[Home[t]].state = "HALF_OPEN"
    <3>1. /\ BreakerTyped' /\ Others(t) /\ row' = row
          /\ mem'[Home[t]] = [state |-> "HALF_OPEN", failures |-> M(t).failures, openedAt |-> M(t).openedAt]
          /\ snap'[t] = snap[t]
      BY <1>0, <1>3, WroteState, NamedPlaces
    <3>2. pc[t] = "probe" /\ pc'[t] = "capture"
      BY <1>0, <1>3 DEF Write, BreakerTyped, ThreadsTypeOK
    <3> QED BY <3>1, <3>2
  <2>2. HasTime(t)'
    BY <2>1 DEF HasTime, M, Timed
  <2> QED BY <1>0, <2>1, <2>2, TimedKeeps
<1> QED BY <1>1, <1>2, <1>3 DEF Gate, Unreported

\* record_success does.
LEMMA SuccessTimed ==
    ASSUME TimedInv, OneEach, NEW t \in deployment.threads, RecordSuccess(t)
    PROVE  TimedInv'
<1>0. t \in Threads /\ BreakerTyped /\ HasTime(t) /\ (row # Nil => Timed(row)) /\ M(t) \in Snapshot
  BY ThreadsHome DEF TimedInv, M, BreakerTyped, ThreadsTypeOK
<1>1. CASE Load(t, "exec", "success")
  <2>1. /\ BreakerTyped' /\ Others(t) /\ row' = row /\ pc[t] = "exec"
        /\ pc'[t] \in {"success", "assign1"} /\ (pc'[t] = "assign1" => Timed(snap'[t])) /\ mem'[Home[t]] = M(t)
    BY <1>0, <1>1, LoadedOnly DEF Methods
  <2>2. HasTime(t)'
    BY <1>0, <2>1 DEF HasTime, M, Timed
  <2> QED BY <1>0, <2>1, <2>2, TimedKeeps
<1>2. CASE Test(t, "success", M(t).state = "OPEN", "idle", "reset1")
  <2>1. /\ BreakerTyped' /\ Others(t) /\ row' = row /\ pc[t] = "success" /\ mem'[Home[t]] = M(t)
        /\ (M(t).state = "OPEN" => pc'[t] = "idle") /\ (M(t).state # "OPEN" => pc'[t] = "reset1")
    <3>1. BreakerTyped' /\ Others(t) /\ row' = row /\ mem'[Home[t]] = M(t)
      BY <1>0, <1>2, TestedOnly DEF Positions
    <3>2. /\ pc[t] = "success"
          /\ (M(t).state = "OPEN" => pc'[t] = "idle") /\ (M(t).state # "OPEN" => pc'[t] = "reset1")
      BY <1>0, <1>2 DEF Test, BreakerTyped, ThreadsTypeOK
    <3> QED BY <3>1, <3>2
  <2>2. HasTime(t)'
    BY <1>0, <2>1 DEF HasTime, M, Timed
  <2> QED BY <1>0, <2>1, <2>2, TimedKeeps
<1>3. CASE Write(t, "reset1", "failures", 0, "reset2")
  <2>1. /\ BreakerTyped' /\ Others(t) /\ row' = row /\ pc[t] = "reset1" /\ pc'[t] = "reset2"
        /\ mem'[Home[t]].state = M(t).state
    <3>1. /\ BreakerTyped' /\ Others(t) /\ row' = row
          /\ mem'[Home[t]] = [state |-> M(t).state, failures |-> 0, openedAt |-> M(t).openedAt]
          /\ snap'[t] = snap[t]
      BY <1>0, <1>3, WroteFailures, NamedPlaces
    <3>2. pc[t] = "reset1" /\ pc'[t] = "reset2"
      BY <1>0, <1>3 DEF Write, BreakerTyped, ThreadsTypeOK
    <3> QED BY <3>1, <3>2
  <2>2. HasTime(t)'
    BY <1>0, <2>1 DEF HasTime, M, Timed
  <2> QED BY <1>0, <2>1, <2>2, TimedKeeps
<1>4. CASE Write(t, "reset2", "openedAt", Nil, "reset3")
  <2>1. /\ BreakerTyped' /\ Others(t) /\ row' = row /\ pc[t] = "reset2" /\ pc'[t] = "reset3"
        /\ mem'[Home[t]].state = M(t).state
    <3>1. /\ BreakerTyped' /\ Others(t) /\ row' = row
          /\ mem'[Home[t]] = [state |-> M(t).state, failures |-> M(t).failures, openedAt |-> Nil]
          /\ snap'[t] = snap[t]
      BY <1>0, <1>4, WroteOpenedAt, NamedPlaces
    <3>2. pc[t] = "reset2" /\ pc'[t] = "reset3"
      BY <1>0, <1>4 DEF Write, BreakerTyped, ThreadsTypeOK
    <3> QED BY <3>1, <3>2
  <2>2. HasTime(t)'
    BY <1>0, <2>1 DEF HasTime, M, Timed
  <2> QED BY <1>0, <2>1, <2>2, TimedKeeps
<1>5. CASE Test(t, "reset3", M(t).state = "HALF_OPEN", "close", "capture")
  <2>1. /\ BreakerTyped' /\ Others(t) /\ row' = row /\ pc[t] = "reset3" /\ mem'[Home[t]] = M(t)
        /\ pc'[t] \in {"close", "capture"}
    BY <1>0, <1>5, TestedOnly DEF Positions
  <2>2. HasTime(t)'
    BY <1>0, <2>1 DEF HasTime, M, Timed
  <2> QED BY <1>0, <2>1, <2>2, TimedKeeps
<1>6. CASE Write(t, "close", "state", "CLOSED", "capture")
  <2>1. /\ BreakerTyped' /\ Others(t) /\ row' = row /\ pc'[t] = "capture" /\ mem'[Home[t]].state = "CLOSED"
    <3>1. /\ BreakerTyped' /\ Others(t) /\ row' = row
          /\ mem'[Home[t]] = [state |-> "CLOSED", failures |-> M(t).failures, openedAt |-> M(t).openedAt]
          /\ snap'[t] = snap[t]
      BY <1>0, <1>6, WroteState, NamedPlaces
    <3>2. pc[t] = "close" /\ pc'[t] = "capture"
      BY <1>0, <1>6 DEF Write, BreakerTyped, ThreadsTypeOK
    <3> QED BY <3>1, <3>2
  <2>2. HasTime(t)'
    BY <2>1 DEF HasTime, M, Timed
  <2> QED BY <1>0, <2>1, <2>2, TimedKeeps
<1> QED BY <1>1, <1>2, <1>3, <1>4, <1>5, <1>6 DEF RecordSuccess

\* record_failure does: the time is set before the row is saved.
LEMMA FailureTimed ==
    ASSUME TimedInv, OneEach, NEW t \in deployment.threads, RecordFailure(t)
    PROVE  TimedInv'
<1>0. /\ t \in Threads /\ BreakerTyped /\ HasTime(t) /\ (row # Nil => Timed(row)) /\ M(t) \in Snapshot
      /\ snap[t] \in Snapshot /\ clock \in Nat
  BY ThreadsHome DEF TimedInv, M, BreakerTyped, ThreadsTypeOK
<1>1. CASE Load(t, "exec", "failure")
  <2>1. /\ BreakerTyped' /\ Others(t) /\ row' = row /\ pc[t] = "exec"
        /\ pc'[t] \in {"failure", "assign1"} /\ (pc'[t] = "assign1" => Timed(snap'[t])) /\ mem'[Home[t]] = M(t)
    BY <1>0, <1>1, LoadedOnly DEF Methods
  <2>2. HasTime(t)'
    BY <1>0, <2>1 DEF HasTime, M, Timed
  <2> QED BY <1>0, <2>1, <2>2, TimedKeeps
<1>2. ASSUME NEW from \in {"failure", "failed", "trip"}, NEW c, NEW yes \in {"idle", "reopen", "open"},
             NEW no \in {"failed", "count", "capture"}, Test(t, from, c, yes, no)
      PROVE  TimedInv'
  <2>1. /\ BreakerTyped' /\ Others(t) /\ row' = row /\ pc[t] = from /\ mem'[Home[t]] = M(t)
        /\ pc'[t] \in {"idle", "reopen", "open", "failed", "count", "capture"}
    BY <1>0, <1>2, TestedOnly DEF Positions
  <2>2. HasTime(t)'
    BY <1>0, <2>1 DEF HasTime, M, Timed
  <2> QED BY <1>0, <2>1, <2>2, TimedKeeps
<1>3. ASSUME NEW from \in {"reopen", "open"}, NEW to \in {"reopen2", "stamp"},
             Write(t, from, "state", "OPEN", to)
      PROVE  TimedInv'
  <2>1. /\ BreakerTyped' /\ Others(t) /\ row' = row /\ pc'[t] \in {"reopen2", "stamp"}
    <3>1. /\ BreakerTyped' /\ Others(t) /\ row' = row
          /\ mem'[Home[t]] = [state |-> "OPEN", failures |-> M(t).failures, openedAt |-> M(t).openedAt]
          /\ snap'[t] = snap[t]
      BY <1>0, <1>3, WroteState, NamedPlaces
    <3>2. pc[t] = from /\ pc'[t] = to
      BY <1>0, <1>3 DEF Write, BreakerTyped, ThreadsTypeOK
    <3> QED BY <1>3, <3>1, <3>2
  <2>2. HasTime(t)'
    BY <2>1 DEF HasTime
  <2> QED BY <1>0, <2>1, <2>2, TimedKeeps
<1>4. CASE Write(t, "reopen2", "failures", 1, "stamp")
  <2>1. /\ BreakerTyped' /\ Others(t) /\ row' = row /\ pc'[t] = "stamp"
    <3>1. /\ BreakerTyped' /\ Others(t) /\ row' = row
          /\ mem'[Home[t]] = [state |-> M(t).state, failures |-> 1, openedAt |-> M(t).openedAt]
          /\ snap'[t] = snap[t]
      BY <1>0, <1>4, WroteFailures, NamedPlaces
    <3>2. pc[t] = "reopen2" /\ pc'[t] = "stamp"
      BY <1>0, <1>4 DEF Write, BreakerTyped, ThreadsTypeOK
    <3> QED BY <3>1, <3>2
  <2>2. HasTime(t)'
    BY <2>1 DEF HasTime
  <2> QED BY <1>0, <2>1, <2>2, TimedKeeps
<1>5. CASE Read(t, "count", "failures", "add")
  <2>1. /\ BreakerTyped' /\ Others(t) /\ row' = row /\ pc[t] = "count" /\ pc'[t] = "add" /\ mem'[Home[t]] = M(t)
    <3>1. /\ BreakerTyped' /\ Others(t) /\ row' = row
          /\ mem'[Home[t]] = M(t)
          /\ snap'[t] = [state |-> snap[t].state, failures |-> M(t).failures, openedAt |-> snap[t].openedAt]
      BY <1>0, <1>5, ReadOnly, NamedPlaces
    <3>2. pc[t] = "count" /\ pc'[t] = "add"
      BY <1>0, <1>5 DEF Read, BreakerTyped, ThreadsTypeOK
    <3> QED BY <3>1, <3>2
  <2>2. HasTime(t)'
    BY <1>0, <2>1 DEF HasTime, M, Timed
  <2> QED BY <1>0, <2>1, <2>2, TimedKeeps
<1>6. CASE Write(t, "add", "failures", snap[t].failures + 1, "trip")
  <2>1. snap[t].failures + 1 \in Nat
    BY <1>0, SnapshotFields
  <2>2. /\ BreakerTyped' /\ Others(t) /\ row' = row /\ pc[t] = "add" /\ pc'[t] = "trip"
        /\ mem'[Home[t]].state = M(t).state /\ mem'[Home[t]].openedAt = M(t).openedAt
    <3>1. /\ BreakerTyped' /\ Others(t) /\ row' = row
          /\ mem'[Home[t]] = [state |-> M(t).state, failures |-> snap[t].failures + 1, openedAt |-> M(t).openedAt]
          /\ snap'[t] = snap[t]
      BY <1>0, <1>6, <2>1, WroteFailures, NamedPlaces
    <3>2. pc[t] = "add" /\ pc'[t] = "trip"
      BY <1>0, <1>6 DEF Write, BreakerTyped, ThreadsTypeOK
    <3> QED BY <3>1, <3>2
  <2>3. HasTime(t)'
    BY <1>0, <2>2 DEF HasTime, M, Timed
  <2> QED BY <1>0, <2>2, <2>3, TimedKeeps
<1>7. CASE Stamp(t)
  <2>1. /\ BreakerTyped' /\ Others(t) /\ row' = row /\ pc'[t] = "capture" /\ mem'[Home[t]].openedAt = clock
    <3>1. /\ BreakerTyped' /\ Others(t) /\ row' = row
          /\ mem'[Home[t]] = [state |-> M(t).state, failures |-> M(t).failures, openedAt |-> clock]
          /\ snap'[t] = snap[t]
      BY <1>0, <1>7, WroteOpenedAt, NamedPlaces DEF Stamp
    <3>2. pc[t] = "stamp" /\ pc'[t] = "capture"
      BY <1>0, <1>7 DEF Write, Stamp, BreakerTyped, ThreadsTypeOK
    <3> QED BY <3>1, <3>2
  <2>2. HasTime(t)'
    BY <1>0, <2>1, ThreadsAssumption DEF HasTime, M, Timed
  <2> QED BY <1>0, <2>1, <2>2, TimedKeeps
<1> QED BY <1>1, <1>2, <1>3, <1>4, <1>5, <1>6, <1>7 DEF RecordFailure, CountFailure

\* _refresh and _persist do.
LEMMA StoreTimed ==
    ASSUME TimedInv, OneEach, NEW t \in deployment.threads, Refresh(t) \/ Capture(t) \/ SaveRead(t) \/ SaveWrite(t)
    PROVE  TimedInv'
<1>0. /\ t \in Threads /\ BreakerTyped /\ HasTime(t) /\ (row # Nil => Timed(row)) /\ M(t) \in Snapshot
      /\ snap[t] \in Snapshot
  BY ThreadsHome DEF TimedInv, M, BreakerTyped, ThreadsTypeOK
<1>1. CASE Write(t, "assign1", "state", snap[t].state, "assign2")
  <2>1. /\ BreakerTyped' /\ Others(t) /\ row' = row /\ pc[t] = "assign1" /\ pc'[t] = "assign2"
        /\ mem'[Home[t]].state = snap[t].state /\ snap'[t] = snap[t]
    <3>1. /\ BreakerTyped' /\ Others(t) /\ row' = row
          /\ mem'[Home[t]] = [state |-> snap[t].state, failures |-> M(t).failures, openedAt |-> M(t).openedAt]
          /\ snap'[t] = snap[t]
      BY <1>0, <1>1, WroteState, SnapshotFields, NamedPlaces
    <3>2. pc[t] = "assign1" /\ pc'[t] = "assign2"
      BY <1>0, <1>1 DEF Write, BreakerTyped, ThreadsTypeOK
    <3> QED BY <3>1, <3>2
  <2>2. HasTime(t)'
    BY <1>0, <2>1 DEF HasTime, M, Timed
  <2> QED BY <1>0, <2>1, <2>2, TimedKeeps
<1>2. CASE Write(t, "assign2", "failures", snap[t].failures, "assign3")
  <2>1. /\ BreakerTyped' /\ Others(t) /\ row' = row /\ pc[t] = "assign2" /\ pc'[t] = "assign3"
        /\ mem'[Home[t]].state = M(t).state /\ snap'[t] = snap[t]
    <3>1. /\ BreakerTyped' /\ Others(t) /\ row' = row
          /\ mem'[Home[t]] = [state |-> M(t).state, failures |-> snap[t].failures, openedAt |-> M(t).openedAt]
          /\ snap'[t] = snap[t]
      BY <1>0, <1>2, WroteFailures, SnapshotFields, NamedPlaces
    <3>2. pc[t] = "assign2" /\ pc'[t] = "assign3"
      BY <1>0, <1>2 DEF Write, BreakerTyped, ThreadsTypeOK
    <3> QED BY <3>1, <3>2
  <2>2. HasTime(t)'
    BY <1>0, <2>1 DEF HasTime, M, Timed
  <2> QED BY <1>0, <2>1, <2>2, TimedKeeps
<1>3. ASSUME pc[t] = "assign3", mem' = [mem EXCEPT ![Home[t]].openedAt = snap[t].openedAt],
             pc' = [pc EXCEPT ![t] = meth[t]], Forget(t), UNCHANGED <<deployment, clock, row, meth>>
      PROVE  TimedInv'
  <2>1. /\ BreakerTyped' /\ Others(t) /\ row' = row /\ pc'[t] \in {"gate", "success", "failure"}
        /\ mem'[Home[t]].state = M(t).state /\ mem'[Home[t]].openedAt = snap[t].openedAt
    <3>1. /\ BreakerTyped' /\ Others(t) /\ pc'[t] \in Methods
          /\ mem'[Home[t]] = [state |-> M(t).state, failures |-> M(t).failures, openedAt |-> snap[t].openedAt]
      BY <1>0, <1>3, AssignedLast
    <3> QED BY <1>3, <3>1 DEF Methods
  <2>2. HasTime(t)'
    BY <1>0, <1>3, <2>1 DEF HasTime, M, Timed
  <2> QED BY <1>0, <2>1, <2>2, TimedKeeps
<1>4. CASE Read(t, "capture", "state", "capture2")
  <2>1. /\ BreakerTyped' /\ Others(t) /\ row' = row /\ pc[t] = "capture" /\ pc'[t] = "capture2"
        /\ mem'[Home[t]] = M(t) /\ snap'[t].state = M(t).state
    <3>1. /\ BreakerTyped' /\ Others(t) /\ row' = row
          /\ mem'[Home[t]] = M(t)
          /\ snap'[t] = [state |-> M(t).state, failures |-> snap[t].failures, openedAt |-> snap[t].openedAt]
      BY <1>0, <1>4, ReadOnly, NamedPlaces
    <3>2. pc[t] = "capture" /\ pc'[t] = "capture2"
      BY <1>0, <1>4 DEF Read, BreakerTyped, ThreadsTypeOK
    <3> QED BY <3>1, <3>2
  <2>2. HasTime(t)'
    BY <1>0, <2>1 DEF HasTime, M, Timed
  <2> QED BY <1>0, <2>1, <2>2, TimedKeeps
<1>5. CASE Read(t, "capture2", "failures", "capture3")
  <2>1. /\ BreakerTyped' /\ Others(t) /\ row' = row /\ pc[t] = "capture2" /\ pc'[t] = "capture3"
        /\ mem'[Home[t]] = M(t) /\ snap'[t].state = snap[t].state
    <3>1. /\ BreakerTyped' /\ Others(t) /\ row' = row
          /\ mem'[Home[t]] = M(t)
          /\ snap'[t] = [state |-> snap[t].state, failures |-> M(t).failures, openedAt |-> snap[t].openedAt]
      BY <1>0, <1>5, ReadOnly, NamedPlaces
    <3>2. pc[t] = "capture2" /\ pc'[t] = "capture3"
      BY <1>0, <1>5 DEF Read, BreakerTyped, ThreadsTypeOK
    <3> QED BY <3>1, <3>2
  <2>2. HasTime(t)'
    BY <1>0, <2>1 DEF HasTime, M, Timed
  <2> QED BY <1>0, <2>1, <2>2, TimedKeeps
<1>6. CASE Read(t, "capture3", "openedAt", "save")
  <2>1. /\ BreakerTyped' /\ Others(t) /\ row' = row /\ pc[t] = "capture3" /\ pc'[t] = "save"
        /\ mem'[Home[t]] = M(t) /\ snap'[t].state = snap[t].state /\ snap'[t].openedAt = M(t).openedAt
    <3>1. /\ BreakerTyped' /\ Others(t) /\ row' = row
          /\ mem'[Home[t]] = M(t)
          /\ snap'[t] = [state |-> snap[t].state, failures |-> snap[t].failures, openedAt |-> M(t).openedAt]
      BY <1>0, <1>6, ReadOnly, NamedPlaces
    <3>2. pc[t] = "capture3" /\ pc'[t] = "save"
      BY <1>0, <1>6 DEF Read, BreakerTyped, ThreadsTypeOK
    <3> QED BY <3>1, <3>2
  <2>2. HasTime(t)'
    BY <1>0, <2>1 DEF HasTime, M, Timed
  <2> QED BY <1>0, <2>1, <2>2, TimedKeeps
<1>7. CASE SaveRead(t)
  <2>1. /\ BreakerTyped' /\ Others(t) /\ row' = row /\ pc[t] = "save" /\ pc'[t] = "flush"
        /\ mem'[Home[t]] = M(t) /\ snap'[t] = snap[t] /\ base'[t] = row
    BY <1>0, <1>7, ReadTheRow
  <2>2. HasTime(t)'
    BY <1>0, <2>1 DEF HasTime, M, Timed
  <2> QED BY <1>0, <2>1, <2>2, TimedKeeps
<1>8. CASE SaveWrite(t)
  <2>1. /\ BreakerTyped' /\ Others(t) /\ pc[t] = "flush" /\ pc'[t] \in {"exec", "idle"} /\ mem'[Home[t]] = M(t)
        /\ (deployment.postgres \/ base[t] = row => row' = snap[t])
    BY <1>0, <1>8, WroteTheRow
  <2>2. row' = snap[t] /\ Timed(snap[t])
    BY <1>0, <2>1 DEF HasTime
  <2>3. HasTime(t)'
    BY <1>0, <2>1 DEF HasTime, M, Timed
  <2> QED BY <1>0, <2>1, <2>2, <2>3, TimedKeeps
<1> QED BY <1>1, <1>2, <1>3, <1>4, <1>5, <1>6, <1>7, <1>8 DEF Refresh, Capture

\* So does every step.
LEMMA TimedStep == ASSUME TimedInv, OneEach, [ThreadsNext]_threadsVars PROVE TimedInv'
<1>1. CASE UNCHANGED threadsVars
  BY <1>1 DEF threadsVars, TimedInv, BreakerTyped, ThreadsTypeOK, HasTime, Timed, M
<1>2. CASE ThreadsTick
  <2>1. clock' \in Nat /\ UNCHANGED <<deployment, mem, row, pc, meth, snap, base>>
    BY <1>2 DEF ThreadsTick, TimedInv, BreakerTyped, ThreadsTypeOK
  <2> QED BY <2>1 DEF TimedInv, BreakerTyped, ThreadsTypeOK, HasTime, Timed, M
<1>3. ASSUME NEW t \in deployment.threads, Restart(Home[t]) PROVE TimedInv'
  <2>1. BreakerTyped /\ t \in Threads /\ Home[t] \in Processes /\ deployment.threads \subseteq Threads
    BY ThreadsHome DEF TimedInv
  <2>2. /\ BreakerTyped' /\ row' = row /\ deployment' = deployment /\ mem'[Home[t]] = Saved
        /\ \A q \in Processes \ {Home[t]} : mem'[q] = mem[q]
        /\ \A u \in Threads : IF Home[u] = Home[t] THEN pc'[u] = "idle"
                              ELSE pc'[u] = pc[u] /\ snap'[u] = snap[u] /\ base'[u] = base[u]
    BY <1>3, <2>1, Restarted
  <2>3. Timed(Saved)
    BY DEF TimedInv, Saved, Timed, Fresh
  <2>4. ASSUME NEW u \in deployment.threads PROVE HasTime(u)'
    <3>1. CASE Home[u] = Home[t]
      <4>1. pc'[u] = "idle" /\ Timed(mem'[Home[u]])
        BY <2>1, <2>2, <2>3, <3>1
      <4> QED BY <4>1 DEF HasTime, M, Timed
    <3>2. CASE Home[u] # Home[t]
      <4>1. /\ pc'[u] = pc[u] /\ snap'[u] = snap[u] /\ base'[u] = base[u] /\ mem'[Home[u]] = mem[Home[u]]
            /\ HasTime(u) /\ row' = row /\ deployment' = deployment
        BY <2>1, <2>2, <2>4, <3>2, ThreadsHome DEF TimedInv
      <4> QED BY <4>1 DEF HasTime, M, Timed
    <3> QED BY <3>1, <3>2
  <2> QED BY <2>2, <2>4 DEF TimedInv, Timed
<1> QED BY <1>1, <1>2, <1>3, GateTimed, SuccessTimed, FailureTimed, StoreTimed DEF ThreadsNext

\* A step of the only thread that saves nothing.
LEMMA AloneKeeps ==
    ASSUME AloneInv, NEW t \in deployment.threads, BreakerTyped', Others(t), row' = row,
           Alone => Fits(pc'[t], mem'[Home[t]], snap'[t], base'[t])
    PROVE  AloneInv'
<1>1. deployment' = deployment /\ clock' = clock /\ Saved' = Saved
  BY DEF Others, Saved
<1>2. ASSUME Alone PROVE Fits(pc[t], M(t), snap[t], base[t])'
  BY <1>1, <1>2 DEF Fits, TestedAt, ChangedAt, InHandAt, Since, Transition, M
<1>3. ASSUME Alone PROVE Since(Saved)'
  BY <1>1, <1>3 DEF AloneInv, Since
<1>4. ASSUME Alone, NEW u \in deployment.threads PROVE u = t
  BY <1>4 DEF Alone
<1>5. Alone' => Alone
  BY <1>1 DEF Alone
<1> QED BY <1>1, <1>2, <1>3, <1>4, <1>5 DEF AloneInv

\* What holds where the only thread is.
LEMMA AloneNow ==
    ASSUME AloneInv, NEW t \in deployment.threads
    PROVE  /\ t \in Threads /\ BreakerTyped /\ M(t) \in Snapshot /\ snap[t] \in Snapshot /\ clock \in Nat
           /\ Saved \in Snapshot
           /\ Alone => Since(Saved) /\ Fits(pc[t], M(t), snap[t], base[t])
<1>1. t \in Threads /\ BreakerTyped /\ M(t) \in Snapshot /\ snap[t] \in Snapshot /\ clock \in Nat
  BY ThreadsHome DEF AloneInv, M, BreakerTyped, ThreadsTypeOK
<1>2. Saved \in Snapshot
  BY SnapshotFields DEF AloneInv, BreakerTyped, ThreadsTypeOK, Saved
<1> QED BY <1>1, <1>2 DEF AloneInv

\* allow_request, attribute by attribute.
LEMMA GateAlone ==
    ASSUME AloneInv, NEW t \in deployment.threads, Gate(t) \/ Unreported(t)
    PROVE  AloneInv'
<1>0. /\ t \in Threads /\ BreakerTyped /\ M(t) \in Snapshot /\ snap[t] \in Snapshot /\ clock \in Nat
      /\ Saved \in Snapshot /\ (Alone => Since(Saved) /\ Fits(pc[t], M(t), snap[t], base[t]))
  BY AloneNow
<1>1. CASE Load(t, "idle", "gate")
  <2>1. /\ BreakerTyped' /\ Others(t) /\ row' = row
        /\ mem'[Home[t]] = M(t) /\ base'[t] = base[t] /\ (row # Nil => snap'[t] = row)
    BY <1>0, <1>1, LoadedOnly DEF Methods
  <2>2. pc[t] = "idle" /\ (row = Nil => pc'[t] = "gate") /\ (row # Nil => pc'[t] = "assign1")
    BY <1>0, <1>1 DEF Load, BreakerTyped, ThreadsTypeOK
  <2>3. Alone => Fits(pc'[t], mem'[Home[t]], snap'[t], base'[t])
    BY <1>0, <2>1, <2>2, SnapshotFields, ThreadsAssumption
       DEF Fits, TestedAt, ChangedAt, InHandAt, Untouched, States3, Saved
  <2> QED BY <2>1, <2>2, <2>3, AloneKeeps
<1>2. CASE Test(t, "gate", M(t).state = "CLOSED", "exec", "half")
  <2>1. /\ BreakerTyped' /\ Others(t) /\ row' = row
        /\ mem'[Home[t]] = M(t) /\ snap'[t] = snap[t] /\ base'[t] = base[t]
    BY <1>0, <1>2, TestedOnly DEF Positions
  <2>2. /\ pc[t] = "gate"
        /\ (M(t).state = "CLOSED" => pc'[t] = "exec")
        /\ (~(M(t).state = "CLOSED") => pc'[t] = "half")
    BY <1>0, <1>2 DEF Test, BreakerTyped, ThreadsTypeOK
  <2>3. Alone => Fits(pc'[t], mem'[Home[t]], snap'[t], base'[t])
    BY <1>0, <2>1, <2>2, SnapshotFields, ThreadsAssumption
       DEF Fits, TestedAt, ChangedAt, InHandAt, Untouched, States3
  <2> QED BY <2>1, <2>2, <2>3, AloneKeeps
<1>3. CASE Test(t, "half", M(t).state = "HALF_OPEN", "exec", "assert")
  <2>1. /\ BreakerTyped' /\ Others(t) /\ row' = row
        /\ mem'[Home[t]] = M(t) /\ snap'[t] = snap[t] /\ base'[t] = base[t]
    BY <1>0, <1>3, TestedOnly DEF Positions
  <2>2. /\ pc[t] = "half"
        /\ (M(t).state = "HALF_OPEN" => pc'[t] = "exec")
        /\ (~(M(t).state = "HALF_OPEN") => pc'[t] = "assert")
    BY <1>0, <1>3 DEF Test, BreakerTyped, ThreadsTypeOK
  <2>3. Alone => Fits(pc'[t], mem'[Home[t]], snap'[t], base'[t])
    BY <1>0, <2>1, <2>2, SnapshotFields, ThreadsAssumption
       DEF Fits, TestedAt, ChangedAt, InHandAt, Untouched, States3
  <2> QED BY <2>1, <2>2, <2>3, AloneKeeps
<1>4. CASE Test(t, "assert", M(t).openedAt # Nil /\ clock - M(t).openedAt < Cooldown,
              "idle", IF M(t).openedAt = Nil THEN "raised" ELSE "probe")
  <2>1. /\ BreakerTyped' /\ Others(t) /\ row' = row
        /\ mem'[Home[t]] = M(t) /\ snap'[t] = snap[t] /\ base'[t] = base[t]
    BY <1>0, <1>4, TestedOnly DEF Positions
  <2>2. pc[t] = "assert" /\ pc'[t] \in {"idle", "raised", "probe"}
    BY <1>0, <1>4 DEF Test, BreakerTyped, ThreadsTypeOK
  <2>3. Alone => Fits(pc'[t], mem'[Home[t]], snap'[t], base'[t])
    BY <1>0, <2>1, <2>2, SnapshotFields, ThreadsAssumption
       DEF Fits, TestedAt, ChangedAt, InHandAt, Untouched, States3
  <2> QED BY <2>1, <2>2, <2>3, AloneKeeps
<1>5. CASE Write(t, "probe", "state", "HALF_OPEN", "capture")
  <2>1. /\ BreakerTyped' /\ Others(t) /\ row' = row
        /\ mem'[Home[t]] = [state |-> "HALF_OPEN", failures |-> M(t).failures, openedAt |-> M(t).openedAt]
        /\ snap'[t] = snap[t] /\ base'[t] = base[t]
    BY <1>0, <1>5, WroteState, NamedPlaces
  <2>2. pc[t] = "probe" /\ pc'[t] = "capture"
    BY <1>0, <1>5 DEF Write, BreakerTyped, ThreadsTypeOK
  <2>3. Alone => Fits(pc'[t], mem'[Home[t]], snap'[t], base'[t])
    BY <1>0, <2>1, <2>2, SnapshotFields, ThreadsAssumption
       DEF Fits, TestedAt, ChangedAt, InHandAt, Untouched, States3, Transition, Since, Fresh
  <2> QED BY <2>1, <2>2, <2>3, AloneKeeps
<1>6. CASE Test(t, "exec", TRUE, "idle", "idle")
  <2>1. /\ BreakerTyped' /\ Others(t) /\ row' = row
        /\ mem'[Home[t]] = M(t) /\ snap'[t] = snap[t] /\ base'[t] = base[t]
    BY <1>0, <1>6, TestedOnly DEF Positions
  <2>2. /\ pc[t] = "exec"
        /\ (TRUE => pc'[t] = "idle")
        /\ (~(TRUE) => pc'[t] = "idle")
    BY <1>0, <1>6 DEF Test, BreakerTyped, ThreadsTypeOK
  <2>3. Alone => Fits(pc'[t], mem'[Home[t]], snap'[t], base'[t])
    BY <1>0, <2>1, <2>2, SnapshotFields, ThreadsAssumption
       DEF Fits, TestedAt, ChangedAt, InHandAt, Untouched, States3
  <2> QED BY <2>1, <2>2, <2>3, AloneKeeps
<1> QED BY <1>1, <1>2, <1>3, <1>4, <1>5, <1>6 DEF Gate, Unreported

\* record_success.
LEMMA SuccessAlone ==
    ASSUME AloneInv, NEW t \in deployment.threads, RecordSuccess(t)
    PROVE  AloneInv'
<1>0. /\ t \in Threads /\ BreakerTyped /\ M(t) \in Snapshot /\ snap[t] \in Snapshot /\ clock \in Nat
      /\ Saved \in Snapshot /\ (Alone => Since(Saved) /\ Fits(pc[t], M(t), snap[t], base[t]))
  BY AloneNow
<1>1. CASE Load(t, "exec", "success")
  <2>1. /\ BreakerTyped' /\ Others(t) /\ row' = row
        /\ mem'[Home[t]] = M(t) /\ base'[t] = base[t] /\ (row # Nil => snap'[t] = row)
    BY <1>0, <1>1, LoadedOnly DEF Methods
  <2>2. pc[t] = "exec" /\ (row = Nil => pc'[t] = "success") /\ (row # Nil => pc'[t] = "assign1")
    BY <1>0, <1>1 DEF Load, BreakerTyped, ThreadsTypeOK
  <2>3. Alone => Fits(pc'[t], mem'[Home[t]], snap'[t], base'[t])
    BY <1>0, <2>1, <2>2, SnapshotFields, ThreadsAssumption
       DEF Fits, TestedAt, ChangedAt, InHandAt, Untouched, States3, Saved
  <2> QED BY <2>1, <2>2, <2>3, AloneKeeps
<1>2. CASE Test(t, "success", M(t).state = "OPEN", "idle", "reset1")
  <2>1. /\ BreakerTyped' /\ Others(t) /\ row' = row
        /\ mem'[Home[t]] = M(t) /\ snap'[t] = snap[t] /\ base'[t] = base[t]
    BY <1>0, <1>2, TestedOnly DEF Positions
  <2>2. /\ pc[t] = "success"
        /\ (M(t).state = "OPEN" => pc'[t] = "idle")
        /\ (~(M(t).state = "OPEN") => pc'[t] = "reset1")
    BY <1>0, <1>2 DEF Test, BreakerTyped, ThreadsTypeOK
  <2>3. Alone => Fits(pc'[t], mem'[Home[t]], snap'[t], base'[t])
    BY <1>0, <2>1, <2>2, SnapshotFields, ThreadsAssumption
       DEF Fits, TestedAt, ChangedAt, InHandAt, Untouched, States3
  <2> QED BY <2>1, <2>2, <2>3, AloneKeeps
<1>3. CASE Write(t, "reset1", "failures", 0, "reset2")
  <2>1. /\ BreakerTyped' /\ Others(t) /\ row' = row
        /\ mem'[Home[t]] = [state |-> M(t).state, failures |-> 0, openedAt |-> M(t).openedAt]
        /\ snap'[t] = snap[t] /\ base'[t] = base[t]
    BY <1>0, <1>3, WroteFailures, NamedPlaces
  <2>2. pc[t] = "reset1" /\ pc'[t] = "reset2"
    BY <1>0, <1>3 DEF Write, BreakerTyped, ThreadsTypeOK
  <2>3. Alone => Fits(pc'[t], mem'[Home[t]], snap'[t], base'[t])
    BY <1>0, <2>1, <2>2, SnapshotFields, ThreadsAssumption
       DEF Fits, TestedAt, ChangedAt, InHandAt, Untouched, States3
  <2> QED BY <2>1, <2>2, <2>3, AloneKeeps
<1>4. CASE Write(t, "reset2", "openedAt", Nil, "reset3")
  <2>1. /\ BreakerTyped' /\ Others(t) /\ row' = row
        /\ mem'[Home[t]] = [state |-> M(t).state, failures |-> M(t).failures, openedAt |-> Nil]
        /\ snap'[t] = snap[t] /\ base'[t] = base[t]
    BY <1>0, <1>4, WroteOpenedAt, NamedPlaces
  <2>2. pc[t] = "reset2" /\ pc'[t] = "reset3"
    BY <1>0, <1>4 DEF Write, BreakerTyped, ThreadsTypeOK
  <2>3. Alone => Fits(pc'[t], mem'[Home[t]], snap'[t], base'[t])
    BY <1>0, <2>1, <2>2, SnapshotFields, ThreadsAssumption
       DEF Fits, TestedAt, ChangedAt, InHandAt, Untouched, States3
  <2> QED BY <2>1, <2>2, <2>3, AloneKeeps
<1>5. CASE Test(t, "reset3", M(t).state = "HALF_OPEN", "close", "capture")
  <2>1. /\ BreakerTyped' /\ Others(t) /\ row' = row
        /\ mem'[Home[t]] = M(t) /\ snap'[t] = snap[t] /\ base'[t] = base[t]
    BY <1>0, <1>5, TestedOnly DEF Positions
  <2>2. /\ pc[t] = "reset3"
        /\ (M(t).state = "HALF_OPEN" => pc'[t] = "close")
        /\ (~(M(t).state = "HALF_OPEN") => pc'[t] = "capture")
    BY <1>0, <1>5 DEF Test, BreakerTyped, ThreadsTypeOK
  <2>3. Alone => Fits(pc'[t], mem'[Home[t]], snap'[t], base'[t])
    BY <1>0, <2>1, <2>2, SnapshotFields, ThreadsAssumption
       DEF Fits, TestedAt, ChangedAt, InHandAt, Untouched, States3, Transition, Since, Fresh
  <2> QED BY <2>1, <2>2, <2>3, AloneKeeps
<1>6. CASE Write(t, "close", "state", "CLOSED", "capture")
  <2>1. /\ BreakerTyped' /\ Others(t) /\ row' = row
        /\ mem'[Home[t]] = [state |-> "CLOSED", failures |-> M(t).failures, openedAt |-> M(t).openedAt]
        /\ snap'[t] = snap[t] /\ base'[t] = base[t]
    BY <1>0, <1>6, WroteState, NamedPlaces
  <2>2. pc[t] = "close" /\ pc'[t] = "capture"
    BY <1>0, <1>6 DEF Write, BreakerTyped, ThreadsTypeOK
  <2>3. Alone => Fits(pc'[t], mem'[Home[t]], snap'[t], base'[t])
    BY <1>0, <2>1, <2>2, SnapshotFields, ThreadsAssumption
       DEF Fits, TestedAt, ChangedAt, InHandAt, Untouched, States3, Transition, Since, Fresh
  <2> QED BY <2>1, <2>2, <2>3, AloneKeeps
<1> QED BY <1>1, <1>2, <1>3, <1>4, <1>5, <1>6 DEF RecordSuccess

\* record_failure.
LEMMA FailureAlone ==
    ASSUME AloneInv, NEW t \in deployment.threads, RecordFailure(t)
    PROVE  AloneInv'
<1>0. /\ t \in Threads /\ BreakerTyped /\ M(t) \in Snapshot /\ snap[t] \in Snapshot /\ clock \in Nat
      /\ Saved \in Snapshot /\ (Alone => Since(Saved) /\ Fits(pc[t], M(t), snap[t], base[t]))
  BY AloneNow
<1>1. CASE Load(t, "exec", "failure")
  <2>1. /\ BreakerTyped' /\ Others(t) /\ row' = row
        /\ mem'[Home[t]] = M(t) /\ base'[t] = base[t] /\ (row # Nil => snap'[t] = row)
    BY <1>0, <1>1, LoadedOnly DEF Methods
  <2>2. pc[t] = "exec" /\ (row = Nil => pc'[t] = "failure") /\ (row # Nil => pc'[t] = "assign1")
    BY <1>0, <1>1 DEF Load, BreakerTyped, ThreadsTypeOK
  <2>3. Alone => Fits(pc'[t], mem'[Home[t]], snap'[t], base'[t])
    BY <1>0, <2>1, <2>2, SnapshotFields, ThreadsAssumption
       DEF Fits, TestedAt, ChangedAt, InHandAt, Untouched, States3, Saved
  <2> QED BY <2>1, <2>2, <2>3, AloneKeeps
<1>2. CASE Test(t, "failure", M(t).state = "OPEN", "idle", "failed")
  <2>1. /\ BreakerTyped' /\ Others(t) /\ row' = row
        /\ mem'[Home[t]] = M(t) /\ snap'[t] = snap[t] /\ base'[t] = base[t]
    BY <1>0, <1>2, TestedOnly DEF Positions
  <2>2. /\ pc[t] = "failure"
        /\ (M(t).state = "OPEN" => pc'[t] = "idle")
        /\ (~(M(t).state = "OPEN") => pc'[t] = "failed")
    BY <1>0, <1>2 DEF Test, BreakerTyped, ThreadsTypeOK
  <2>3. Alone => Fits(pc'[t], mem'[Home[t]], snap'[t], base'[t])
    BY <1>0, <2>1, <2>2, SnapshotFields, ThreadsAssumption
       DEF Fits, TestedAt, ChangedAt, InHandAt, Untouched, States3
  <2> QED BY <2>1, <2>2, <2>3, AloneKeeps
<1>3. CASE Test(t, "failed", M(t).state = "HALF_OPEN", "reopen", "count")
  <2>1. /\ BreakerTyped' /\ Others(t) /\ row' = row
        /\ mem'[Home[t]] = M(t) /\ snap'[t] = snap[t] /\ base'[t] = base[t]
    BY <1>0, <1>3, TestedOnly DEF Positions
  <2>2. /\ pc[t] = "failed"
        /\ (M(t).state = "HALF_OPEN" => pc'[t] = "reopen")
        /\ (~(M(t).state = "HALF_OPEN") => pc'[t] = "count")
    BY <1>0, <1>3 DEF Test, BreakerTyped, ThreadsTypeOK
  <2>3. Alone => Fits(pc'[t], mem'[Home[t]], snap'[t], base'[t])
    BY <1>0, <2>1, <2>2, SnapshotFields, ThreadsAssumption
       DEF Fits, TestedAt, ChangedAt, InHandAt, Untouched, States3
  <2> QED BY <2>1, <2>2, <2>3, AloneKeeps
<1>4. CASE Write(t, "reopen", "state", "OPEN", "reopen2")
  <2>1. /\ BreakerTyped' /\ Others(t) /\ row' = row
        /\ mem'[Home[t]] = [state |-> "OPEN", failures |-> M(t).failures, openedAt |-> M(t).openedAt]
        /\ snap'[t] = snap[t] /\ base'[t] = base[t]
    BY <1>0, <1>4, WroteState, NamedPlaces
  <2>2. pc[t] = "reopen" /\ pc'[t] = "reopen2"
    BY <1>0, <1>4 DEF Write, BreakerTyped, ThreadsTypeOK
  <2>3. Alone => Fits(pc'[t], mem'[Home[t]], snap'[t], base'[t])
    BY <1>0, <2>1, <2>2, SnapshotFields, ThreadsAssumption
       DEF Fits, TestedAt, ChangedAt, InHandAt, Untouched, States3
  <2> QED BY <2>1, <2>2, <2>3, AloneKeeps
<1>5. CASE Write(t, "reopen2", "failures", 1, "stamp")
  <2>1. /\ BreakerTyped' /\ Others(t) /\ row' = row
        /\ mem'[Home[t]] = [state |-> M(t).state, failures |-> 1, openedAt |-> M(t).openedAt]
        /\ snap'[t] = snap[t] /\ base'[t] = base[t]
    BY <1>0, <1>5, WroteFailures, NamedPlaces
  <2>2. pc[t] = "reopen2" /\ pc'[t] = "stamp"
    BY <1>0, <1>5 DEF Write, BreakerTyped, ThreadsTypeOK
  <2>3. Alone => Fits(pc'[t], mem'[Home[t]], snap'[t], base'[t])
    BY <1>0, <2>1, <2>2, SnapshotFields, ThreadsAssumption
       DEF Fits, TestedAt, ChangedAt, InHandAt, Untouched, States3
  <2> QED BY <2>1, <2>2, <2>3, AloneKeeps
<1>6. CASE Read(t, "count", "failures", "add")
  <2>1. /\ BreakerTyped' /\ Others(t) /\ row' = row
        /\ snap'[t] = [state |-> snap[t].state, failures |-> M(t).failures, openedAt |-> snap[t].openedAt]
        /\ mem'[Home[t]] = M(t) /\ base'[t] = base[t]
    BY <1>0, <1>6, ReadOnly, NamedPlaces
  <2>2. pc[t] = "count" /\ pc'[t] = "add"
    BY <1>0, <1>6 DEF Read, BreakerTyped, ThreadsTypeOK
  <2>3. Alone => Fits(pc'[t], mem'[Home[t]], snap'[t], base'[t])
    BY <1>0, <2>1, <2>2, SnapshotFields, ThreadsAssumption
       DEF Fits, TestedAt, ChangedAt, InHandAt, Untouched, States3
  <2> QED BY <2>1, <2>2, <2>3, AloneKeeps
<1>7. CASE Write(t, "add", "failures", snap[t].failures + 1, "trip")
  <2>1. /\ BreakerTyped' /\ Others(t) /\ row' = row
        /\ mem'[Home[t]] = [state |-> M(t).state, failures |-> snap[t].failures + 1, openedAt |-> M(t).openedAt]
        /\ snap'[t] = snap[t] /\ base'[t] = base[t]
    BY <1>0, <1>7, WroteFailures, NamedPlaces, SnapshotFields
  <2>2. pc[t] = "add" /\ pc'[t] = "trip"
    BY <1>0, <1>7 DEF Write, BreakerTyped, ThreadsTypeOK
  <2>3. Alone => Fits(pc'[t], mem'[Home[t]], snap'[t], base'[t])
    BY <1>0, <2>1, <2>2, SnapshotFields, ThreadsAssumption
       DEF Fits, TestedAt, ChangedAt, InHandAt, Untouched, States3
  <2> QED BY <2>1, <2>2, <2>3, AloneKeeps
<1>8. CASE Test(t, "trip", M(t).failures >= Threshold, "open", "capture")
  <2>1. /\ BreakerTyped' /\ Others(t) /\ row' = row
        /\ mem'[Home[t]] = M(t) /\ snap'[t] = snap[t] /\ base'[t] = base[t]
    BY <1>0, <1>8, TestedOnly DEF Positions
  <2>2. /\ pc[t] = "trip"
        /\ (M(t).failures >= Threshold => pc'[t] = "open")
        /\ (~(M(t).failures >= Threshold) => pc'[t] = "capture")
    BY <1>0, <1>8 DEF Test, BreakerTyped, ThreadsTypeOK
  <2>3. Alone => Fits(pc'[t], mem'[Home[t]], snap'[t], base'[t])
    BY <1>0, <2>1, <2>2, SnapshotFields, ThreadsAssumption
       DEF Fits, TestedAt, ChangedAt, InHandAt, Untouched, States3, Transition, Since, Fresh
  <2> QED BY <2>1, <2>2, <2>3, AloneKeeps
<1>9. CASE Write(t, "open", "state", "OPEN", "stamp")
  <2>1. /\ BreakerTyped' /\ Others(t) /\ row' = row
        /\ mem'[Home[t]] = [state |-> "OPEN", failures |-> M(t).failures, openedAt |-> M(t).openedAt]
        /\ snap'[t] = snap[t] /\ base'[t] = base[t]
    BY <1>0, <1>9, WroteState, NamedPlaces
  <2>2. pc[t] = "open" /\ pc'[t] = "stamp"
    BY <1>0, <1>9 DEF Write, BreakerTyped, ThreadsTypeOK
  <2>3. Alone => Fits(pc'[t], mem'[Home[t]], snap'[t], base'[t])
    BY <1>0, <2>1, <2>2, SnapshotFields, ThreadsAssumption
       DEF Fits, TestedAt, ChangedAt, InHandAt, Untouched, States3
  <2> QED BY <2>1, <2>2, <2>3, AloneKeeps
<1>10. CASE Stamp(t)
  <2>1. /\ BreakerTyped' /\ Others(t) /\ row' = row
        /\ mem'[Home[t]] = [state |-> M(t).state, failures |-> M(t).failures, openedAt |-> clock]
        /\ snap'[t] = snap[t] /\ base'[t] = base[t]
    BY <1>0, <1>10, WroteOpenedAt, NamedPlaces DEF Stamp
  <2>2. pc[t] = "stamp" /\ pc'[t] = "capture"
    BY <1>0, <1>10 DEF Stamp, Write, BreakerTyped, ThreadsTypeOK
  <2>3. Alone /\ Saved.state = "HALF_OPEN" => Saved.openedAt \in Nat /\ clock > Saved.openedAt
    <3>1. SUFFICES ASSUME Alone, Saved.state = "HALF_OPEN" PROVE Saved.openedAt \in Nat /\ clock > Saved.openedAt
      OBVIOUS
    <3>2. row # Nil /\ Saved = row
      BY <3>1 DEF Saved, Fresh
    <3>3. row.openedAt \in Stamps
      BY <1>0, <3>2 DEF Stamps
    <3>4. clock \notin Stamps
      BY <1>10 DEF Stamp
    <3>5. Saved.openedAt \in 0..clock
      BY <1>0, <3>1 DEF Since
    <3> QED BY <1>0, <3>2, <3>3, <3>4, <3>5
  <2>4. Alone => Fits("capture", mem'[Home[t]], snap'[t], base'[t])
    <3>1. SUFFICES ASSUME Alone PROVE Fits("capture", mem'[Home[t]], snap'[t], base'[t])
      OBVIOUS
    <3>2. /\ M(t).state = "OPEN"
          /\ \/ Saved.state = "HALF_OPEN" /\ M(t).failures = 1
             \/ Saved.state = "CLOSED" /\ M(t).failures = Saved.failures + 1 /\ M(t).failures >= Threshold
      BY <1>0, <2>2, <3>1 DEF Fits, ChangedAt
    <3>3. Since(mem'[Home[t]])
      BY <1>0, <2>1 DEF Since
    <3>4. Transition(Saved, mem'[Home[t]])
      <4>1. CASE Saved.state = "HALF_OPEN"
        BY <2>1, <2>3, <3>1, <3>2, <4>1 DEF Transition
      <4>2. CASE Saved.state = "CLOSED"
        <5>1. M(t).failures \in Nat /\ Threshold \in Nat
          BY <1>0, SnapshotFields, ThreadsAssumption
        <5> QED BY <2>1, <3>2, <4>2, <5>1 DEF Transition
      <4> QED BY <3>2, <4>1, <4>2
    <3> QED BY <3>3, <3>4 DEF Fits, TestedAt, ChangedAt, InHandAt, Untouched
  <2> QED BY <2>1, <2>2, <2>4, AloneKeeps
<1> QED BY <1>1, <1>2, <1>3, <1>4, <1>5, <1>6, <1>7, <1>8, <1>9, <1>10 DEF RecordFailure, CountFailure

\* _refresh, and _persist up to the read of the upsert.
LEMMA StoreAlone ==
    ASSUME AloneInv, NEW t \in deployment.threads, Refresh(t) \/ Capture(t) \/ SaveRead(t)
    PROVE  AloneInv'
<1>0. /\ t \in Threads /\ BreakerTyped /\ M(t) \in Snapshot /\ snap[t] \in Snapshot /\ clock \in Nat
      /\ Saved \in Snapshot /\ (Alone => Since(Saved) /\ Fits(pc[t], M(t), snap[t], base[t]))
  BY AloneNow
<1>1. CASE Write(t, "assign1", "state", snap[t].state, "assign2")
  <2>1. /\ BreakerTyped' /\ Others(t) /\ row' = row
        /\ mem'[Home[t]] = [state |-> snap[t].state, failures |-> M(t).failures, openedAt |-> M(t).openedAt]
        /\ snap'[t] = snap[t] /\ base'[t] = base[t]
    BY <1>0, <1>1, WroteState, NamedPlaces, SnapshotFields
  <2>2. pc[t] = "assign1" /\ pc'[t] = "assign2"
    BY <1>0, <1>1 DEF Write, BreakerTyped, ThreadsTypeOK
  <2>3. Alone => Fits(pc'[t], mem'[Home[t]], snap'[t], base'[t])
    BY <1>0, <2>1, <2>2, SnapshotFields, ThreadsAssumption
       DEF Fits, TestedAt, ChangedAt, InHandAt, Untouched, States3
  <2> QED BY <2>1, <2>2, <2>3, AloneKeeps
<1>2. CASE Write(t, "assign2", "failures", snap[t].failures, "assign3")
  <2>1. /\ BreakerTyped' /\ Others(t) /\ row' = row
        /\ mem'[Home[t]] = [state |-> M(t).state, failures |-> snap[t].failures, openedAt |-> M(t).openedAt]
        /\ snap'[t] = snap[t] /\ base'[t] = base[t]
    BY <1>0, <1>2, WroteFailures, NamedPlaces, SnapshotFields
  <2>2. pc[t] = "assign2" /\ pc'[t] = "assign3"
    BY <1>0, <1>2 DEF Write, BreakerTyped, ThreadsTypeOK
  <2>3. Alone => Fits(pc'[t], mem'[Home[t]], snap'[t], base'[t])
    BY <1>0, <2>1, <2>2, SnapshotFields, ThreadsAssumption
       DEF Fits, TestedAt, ChangedAt, InHandAt, Untouched, States3
  <2> QED BY <2>1, <2>2, <2>3, AloneKeeps
<1>3. ASSUME pc[t] = "assign3", mem' = [mem EXCEPT ![Home[t]].openedAt = snap[t].openedAt],
             pc' = [pc EXCEPT ![t] = meth[t]], Forget(t), UNCHANGED <<deployment, clock, row, meth>>
      PROVE  AloneInv'
  <2>1. /\ BreakerTyped' /\ Others(t) /\ pc'[t] \in Methods
        /\ mem'[Home[t]] = [state |-> M(t).state, failures |-> M(t).failures, openedAt |-> snap[t].openedAt]
    BY <1>0, <1>3, AssignedLast
  <2>2. pc[t] = "assign3" /\ pc'[t] \in {"gate", "success", "failure"} /\ row' = row
    BY <1>3, <2>1 DEF Methods
  <2>3. Alone => Fits(pc'[t], mem'[Home[t]], snap'[t], base'[t])
    BY <1>0, <2>1, <2>2, SnapshotFields, ThreadsAssumption
       DEF Fits, TestedAt, ChangedAt, InHandAt, Untouched, States3
  <2> QED BY <2>1, <2>2, <2>3, AloneKeeps
<1>4. CASE Read(t, "capture", "state", "capture2")
  <2>1. /\ BreakerTyped' /\ Others(t) /\ row' = row
        /\ snap'[t] = [state |-> M(t).state, failures |-> snap[t].failures, openedAt |-> snap[t].openedAt]
        /\ mem'[Home[t]] = M(t) /\ base'[t] = base[t]
    BY <1>0, <1>4, ReadOnly, NamedPlaces
  <2>2. pc[t] = "capture" /\ pc'[t] = "capture2"
    BY <1>0, <1>4 DEF Read, BreakerTyped, ThreadsTypeOK
  <2>3. Alone => Fits(pc'[t], mem'[Home[t]], snap'[t], base'[t])
    BY <1>0, <2>1, <2>2, SnapshotFields, ThreadsAssumption
       DEF Fits, TestedAt, ChangedAt, InHandAt, Untouched, States3
  <2> QED BY <2>1, <2>2, <2>3, AloneKeeps
<1>5. CASE Read(t, "capture2", "failures", "capture3")
  <2>1. /\ BreakerTyped' /\ Others(t) /\ row' = row
        /\ snap'[t] = [state |-> snap[t].state, failures |-> M(t).failures, openedAt |-> snap[t].openedAt]
        /\ mem'[Home[t]] = M(t) /\ base'[t] = base[t]
    BY <1>0, <1>5, ReadOnly, NamedPlaces
  <2>2. pc[t] = "capture2" /\ pc'[t] = "capture3"
    BY <1>0, <1>5 DEF Read, BreakerTyped, ThreadsTypeOK
  <2>3. Alone => Fits(pc'[t], mem'[Home[t]], snap'[t], base'[t])
    BY <1>0, <2>1, <2>2, SnapshotFields, ThreadsAssumption
       DEF Fits, TestedAt, ChangedAt, InHandAt, Untouched, States3
  <2> QED BY <2>1, <2>2, <2>3, AloneKeeps
<1>6. CASE Read(t, "capture3", "openedAt", "save")
  <2>1. /\ BreakerTyped' /\ Others(t) /\ row' = row
        /\ snap'[t] = [state |-> snap[t].state, failures |-> snap[t].failures, openedAt |-> M(t).openedAt]
        /\ mem'[Home[t]] = M(t) /\ base'[t] = base[t]
    BY <1>0, <1>6, ReadOnly, NamedPlaces
  <2>2. pc[t] = "capture3" /\ pc'[t] = "save"
    BY <1>0, <1>6 DEF Read, BreakerTyped, ThreadsTypeOK
  <2>3. Alone => Fits(pc'[t], mem'[Home[t]], snap'[t], base'[t])
    BY <1>0, <2>1, <2>2, SnapshotFields, ThreadsAssumption
       DEF Fits, TestedAt, ChangedAt, InHandAt, Untouched, States3
  <2> QED BY <2>1, <2>2, <2>3, AloneKeeps
<1>7. CASE SaveRead(t)
  <2>1. /\ BreakerTyped' /\ Others(t) /\ row' = row
        /\ mem'[Home[t]] = M(t) /\ snap'[t] = snap[t] /\ base'[t] = row
    BY <1>0, <1>7, ReadTheRow
  <2>2. pc[t] = "save" /\ pc'[t] = "flush"
    BY <1>0, <1>7 DEF SaveRead, BreakerTyped, ThreadsTypeOK
  <2>3. Alone => Fits(pc'[t], mem'[Home[t]], snap'[t], base'[t])
    BY <1>0, <2>1, <2>2, SnapshotFields, ThreadsAssumption
       DEF Fits, TestedAt, ChangedAt, InHandAt, Untouched, States3
  <2> QED BY <2>1, <2>2, <2>3, AloneKeeps
<1> QED BY <1>1, <1>2, <1>3, <1>4, <1>5, <1>6, <1>7 DEF Refresh, Capture

\* The save of the only thread: the row becomes the breaker, along a transition.
LEMMA SaveAlone ==
    ASSUME AloneInv, NEW t \in deployment.threads, SaveWrite(t)
    PROVE  AloneInv' /\ (Alone => Transition(Saved, row'))
<1>0. /\ t \in Threads /\ BreakerTyped /\ M(t) \in Snapshot /\ snap[t] \in Snapshot /\ clock \in Nat
      /\ Saved \in Snapshot /\ (Alone => Since(Saved) /\ Fits(pc[t], M(t), snap[t], base[t]))
  BY AloneNow
<1>1. /\ BreakerTyped' /\ Others(t) /\ pc[t] = "flush" /\ pc'[t] \in {"exec", "idle"}
      /\ mem'[Home[t]] = M(t) /\ row' \in Snapshot
      /\ (deployment.postgres \/ base[t] = row => row' = snap[t])
  BY <1>0, WroteTheRow
<1>2. ASSUME Alone PROVE row' = M(t) /\ Transition(Saved, M(t)) /\ Since(M(t))
  BY <1>0, <1>1, <1>2 DEF Fits, ChangedAt, InHandAt
<1>3. deployment' = deployment /\ clock' = clock /\ Saved' = row'
  BY <1>1, NilIsNoSnapshot DEF Others, Saved
<1>4. ASSUME Alone PROVE Since(Saved)' /\ Fits(pc[t], M(t), snap[t], base[t])'
  <2>1. M(t)' = row' /\ Since(row') /\ pc'[t] \in {"exec", "idle"}
    BY <1>1, <1>2, <1>4 DEF M
  <2>2. Since(Saved)'
    BY <1>3, <2>1 DEF Since
  <2>3. TestedAt(pc[t])' /\ ChangedAt(pc[t], M(t))' /\ InHandAt(pc[t], M(t), snap[t], base[t])'
    BY <1>3, <2>1 DEF TestedAt, ChangedAt, InHandAt, Untouched
  <2> QED BY <2>2, <2>3 DEF Fits
<1>5. ASSUME Alone, NEW u \in deployment.threads PROVE u = t
  BY <1>5 DEF Alone
<1>6. Alone' => Alone
  BY <1>3 DEF Alone
<1>7. AloneInv'
  BY <1>1, <1>3, <1>4, <1>5, <1>6 DEF AloneInv
<1> QED BY <1>2, <1>7

\* Every step; the one that writes the row makes a documented transition.
LEMMA AloneStep ==
    ASSUME AloneInv, [ThreadsNext]_threadsVars
    PROVE  AloneInv' /\ (Alone /\ row' # row => Transition(Saved, row'))
<1>1. CASE UNCHANGED threadsVars
  <2>1. UNCHANGED <<deployment, clock, mem, row, pc, meth, snap, base>>
    BY <1>1 DEF threadsVars
  <2>2. BreakerTyped'
    BY <2>1 DEF AloneInv, BreakerTyped, ThreadsTypeOK
  <2>3. Alone' => \A t \in deployment.threads : (Since(Saved) /\ Fits(pc[t], M(t), snap[t], base[t]))'
    <3>1. Alone' => Alone
      BY <2>1 DEF Alone
    <3>2. ASSUME Alone, NEW t \in deployment.threads
          PROVE  (Since(Saved) /\ Fits(pc[t], M(t), snap[t], base[t]))'
      <4>1. Since(Saved) /\ Fits(pc[t], M(t), snap[t], base[t])
        BY <3>2 DEF AloneInv
      <4> QED BY <2>1, <4>1 DEF Since, Saved, Fits, TestedAt, ChangedAt, InHandAt, Transition, M
    <3> QED BY <3>1, <3>2
  <2> QED BY <2>1, <2>2, <2>3 DEF AloneInv
<1>2. CASE ThreadsTick
  <2>1. clock \in Nat /\ clock' = clock + 1 /\ UNCHANGED <<deployment, mem, row, pc, meth, snap, base>>
    BY <1>2 DEF ThreadsTick, AloneInv, BreakerTyped, ThreadsTypeOK
  <2>2. BreakerTyped'
    BY <2>1 DEF AloneInv, BreakerTyped, ThreadsTypeOK
  <2>3. Alone' => \A t \in deployment.threads : (Since(Saved) /\ Fits(pc[t], M(t), snap[t], base[t]))'
    <3>1. Alone' => Alone
      BY <2>1 DEF Alone
    <3>2. ASSUME Alone, NEW t \in deployment.threads
          PROVE  (Since(Saved) /\ Fits(pc[t], M(t), snap[t], base[t]))'
      <4>1. Since(Saved) /\ Fits(pc[t], M(t), snap[t], base[t])
        BY <3>2 DEF AloneInv
      <4>2. Saved' = Saved /\ M(t)' = M(t)
        BY <2>1 DEF Saved, M
      <4>4. Since(Saved)'
        BY <2>1, <4>1, <4>2 DEF Since
      <4>5. ChangedAt(pc[t], M(t))'
        BY <2>1, <4>1, <4>2 DEF Fits, ChangedAt, Transition, Since, Untouched
      <4>6. TestedAt(pc[t])' /\ InHandAt(pc[t], M(t), snap[t], base[t])'
        BY <2>1, <4>1, <4>2 DEF Fits, TestedAt, InHandAt
      <4> QED BY <4>4, <4>5, <4>6 DEF Fits
    <3> QED BY <3>1, <3>2
  <2> QED BY <2>1, <2>2, <2>3 DEF AloneInv
<1>3. ASSUME NEW t \in deployment.threads, Restart(Home[t]) PROVE AloneInv' /\ row' = row
  <2>1. BreakerTyped /\ t \in Threads /\ Home[t] \in Processes
    BY ThreadsHome DEF AloneInv
  <2>2. /\ BreakerTyped' /\ row' = row /\ deployment' = deployment /\ clock' = clock /\ mem'[Home[t]] = Saved
        /\ pc'[t] = "idle"
    BY <1>3, <2>1, Restarted
  <2>3. ASSUME Alone PROVE Since(Saved)' /\ Fits(pc[t], M(t), snap[t], base[t])'
    <3>1. Saved' = Saved /\ M(t)' = Saved
      BY <2>2 DEF Saved, M
    <3>2. Since(Saved)'
      BY <2>2, <2>3, <3>1 DEF AloneInv, Since
    <3>3. TestedAt(pc[t])' /\ ChangedAt(pc[t], M(t))' /\ InHandAt(pc[t], M(t), snap[t], base[t])'
      BY <2>2, <3>1 DEF TestedAt, ChangedAt, InHandAt, Untouched
    <3> QED BY <3>2, <3>3 DEF Fits
  <2>4. ASSUME Alone, NEW u \in deployment.threads PROVE u = t
    BY <2>4 DEF Alone
  <2>5. Alone' => Alone
    BY <2>2 DEF Alone
  <2> QED BY <2>2, <2>3, <2>4, <2>5 DEF AloneInv
<1>4. ASSUME NEW t \in deployment.threads,
             \/ Gate(t) \/ RecordSuccess(t) \/ RecordFailure(t) \/ Unreported(t)
             \/ Refresh(t) \/ Capture(t) \/ SaveRead(t)
      PROVE  AloneInv' /\ row' = row
  <2>1. AloneInv'
    BY <1>4, GateAlone, SuccessAlone, FailureAlone, StoreAlone
  <2>2. row' = row
    BY <1>4 DEF Gate, RecordSuccess, RecordFailure, Unreported, Refresh, Capture, SaveRead, CountFailure, Stamp,
                Load, Test, Write, Read
  <2> QED BY <2>1, <2>2
<1>5. CASE ThreadsTick \/ UNCHANGED threadsVars
  BY <1>1, <1>2, <1>5 DEF ThreadsTick, threadsVars
<1> QED BY <1>3, <1>4, <1>5, SaveAlone DEF ThreadsNext

\* Both hold when the service starts.
LEMMA BreakerStarts == ASSUME ThreadsInit PROVE TimedInv /\ AloneInv
<1>1. BreakerTyped
  BY SnapshotFields DEF ThreadsInit, BreakerTyped, ThreadsTypeOK, Positions, Methods
<1>2. row = Nil /\ Saved = Fresh /\ Since(Fresh) /\ Timed(Fresh)
  BY DEF ThreadsInit, Saved, Since, Timed, Fresh
<1>3. ASSUME NEW t \in deployment.threads PROVE pc[t] = "idle" /\ M(t) = Fresh
  BY <1>1, <1>3, ThreadsHome DEF ThreadsInit, M
<1>4. ASSUME NEW t \in deployment.threads PROVE HasTime(t)
  BY <1>2, <1>3 DEF HasTime
<1>5. ASSUME NEW t \in deployment.threads PROVE Fits(pc[t], M(t), snap[t], base[t])
  BY <1>2, <1>3 DEF Fits, TestedAt, ChangedAt, InHandAt, Untouched
<1> QED BY <1>1, <1>2, <1>4, <1>5 DEF TimedInv, AloneInv

\* However many server processes share the row on PostgreSQL, each with one
\* dispatching thread, and with one thread on SQLite: no open circuit is
\* persisted without its time, wherever a process stops.
THEOREM OpenRowAlwaysHasTime ==
    ASSUME \A d \in Deployments : /\ \A t, u \in d.threads : Home[t] = Home[u] => t = u
                                  /\ d.postgres \/ \A t, u \in d.threads : t = u
    PROVE  ThreadsSpec => []OpenRowHasTime
<1>1. TimedInv => OneEach
  BY DEF TimedInv, BreakerTyped, ThreadsTypeOK, OneEach, Alone
<1>2. TimedInv /\ [ThreadsNext]_threadsVars => TimedInv'
  BY <1>1, TimedStep
<1>3. TimedInv => OpenRowHasTime
  BY DEF TimedInv, Timed, OpenRowHasTime
<1> QED BY <1>2, <1>3, BreakerStarts, PTL DEF ThreadsSpec

\* In every deployment: as long as one thread dispatches, the persisted circuit
\* moves along the documented transitions only.
THEOREM CircuitKeepsProtocol == ThreadsSpec => RowFollowsProtocol
<1>1. AloneInv /\ [ThreadsNext]_threadsVars => AloneInv'
  BY AloneStep
<1>2. ASSUME AloneInv, [ThreadsNext]_threadsVars
      PROVE  [LET old == IF row = Nil THEN Fresh ELSE row IN
              (\A t, u \in deployment.threads : t = u) /\ row' # row =>
                 \/ old.state # "OPEN" /\ row' = Fresh
                 \/ old.state = "OPEN" /\ row' = [old EXCEPT !.state = "HALF_OPEN"]
                 \/ /\ old.state = "HALF_OPEN"
                    /\ row' = [state |-> "OPEN", failures |-> 1, openedAt |-> row'.openedAt]
                    /\ row'.openedAt > old.openedAt
                 \/ /\ old.state = "CLOSED" /\ row'.failures = old.failures + 1
                    /\ row'.state = IF row'.failures < Threshold THEN "CLOSED" ELSE "OPEN"
             ]_threadsVars
  <2>1. Alone /\ row' # row => Transition(Saved, row')
    BY <1>2, AloneStep
  <2>2. Saved \in Snapshot
    BY <1>2, SnapshotFields DEF AloneInv, BreakerTyped, ThreadsTypeOK, Saved
  <2>3. [Saved EXCEPT !.state = "HALF_OPEN"]
          = [state |-> "HALF_OPEN", failures |-> Saved.failures, openedAt |-> Saved.openedAt]
    BY <2>2 DEF Snapshot
  <2> QED BY <2>1, <2>3 DEF Alone, Transition, Saved
<1> QED BY <1>1, <1>2, BreakerStarts, PTL DEF ThreadsSpec, RowFollowsProtocol
=============================================================================
