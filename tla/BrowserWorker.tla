---------------------------- MODULE BrowserWorker ----------------------------
(***************************************************************************)
(* The command path of the browser provider (PlaywrightBrowserTransport):  *)
(* dispatch threads put commands with a deadline in a bounded queue, one   *)
(* worker thread owns every browser context and answers them.  A caller    *)
(* that gives up cannot stop the worker; it can only mark its command.     *)
(***************************************************************************)
EXTENDS Integers, Sequences, FiniteSets

CONSTANTS
    BrowserCallers,   \* dispatch threads, one call each
    SessionKeys,
    MaxContexts,      \* max_contexts
    QueueSize,        \* command_queue_size
    Nothing           \* no command in the worker's hands

ASSUME BrowserAssumption ==
    /\ Nothing \notin BrowserCallers /\ SessionKeys # {}
    /\ MaxContexts \in Nat \ {0} /\ QueueSize \in Nat \ {0}

Interactions == {"interact", "download"}   \* _NON_RETRYABLE_OPERATIONS
Operations == Interactions \cup {"read", "tabs", "close_context"}

VARIABLES
    commands,    \* the queue: callers whose command waits
    calls,       \* per caller: phase, operation, session, late, cancelled, answer
    thread,      \* "off", "running", "stopped"
    current,     \* the command in the worker's hands, Nothing between two
    contexts,    \* session keys with a browser context
    idle,        \* those not used for context_idle_seconds
    closed,      \* _closed and _stop
    touched,     \* callers whose interaction reached a page (history)
    failed,      \* those whose interaction then raised and was not quarantined (history)
    marks        \* per session: those whose effects its context holds (history)

browserVars == <<commands, calls, thread, current, contexts, idle, closed, touched, failed, marks>>

NoCallYet ==
    [phase |-> "none", op |-> "read", session |-> CHOOSE s \in SessionKeys : TRUE,
     late |-> FALSE, cancelled |-> FALSE, answer |-> "none"]

BrowserInit ==
    /\ commands = <<>>
    /\ calls = [c \in BrowserCallers |-> NoCallYet]
    /\ thread = "off"
    /\ current = Nothing
    /\ contexts = {} /\ idle = {}
    /\ closed = FALSE
    /\ touched = {} /\ failed = {} /\ marks = [s \in SessionKeys |-> {}]

\* The record of a caller that has its answer.
Answered(call, answer) == [call EXCEPT !.phase = "done", !.answer = answer]

NewCall(op, s) == [NoCallYet EXCEPT !.phase = "putting", !.op = op, !.session = s]

\* What validate refuses an action with: its parameters, its URL, its path.
ValidateBrowser == {"VALIDATION", "FORBIDDEN"}

\* What the vault may refuse a fill's value_ref with.
ResolveFillText(op) == IF op = "interact" THEN {"AUTH"} ELSE {}

\* What execute refuses before it calls its transport: the action itself, an
\* upload without its file, a credential, a deadline that is already over.
RefuseCall(c, op, s) ==
    /\ calls[c].phase = "none" /\ op # "close_context"
    /\ \E answer \in ValidateBrowser \cup ResolveFillText(op) \cup {"NOT_FOUND", "TIMEOUT"} :
         calls' = [calls EXCEPT ![c] = Answered(NewCall(op, s), answer)]
    /\ UNCHANGED <<commands, thread, current, contexts, idle, closed, touched, failed, marks>>

\* _ensure_started: the first call starts the worker, none may once it is closed.
EnsureStarted ==
    /\ ~closed
    /\ thread' = IF thread = "off" THEN "running" ELSE thread

\* An action of execute hands its operation to _call.
BrowserCall(c, op, s) ==
    /\ calls[c].phase = "none" /\ op # "close_context"
    /\ \/ EnsureStarted /\ calls' = [calls EXCEPT ![c] = NewCall(op, s)]
       \/ closed /\ calls' = [calls EXCEPT ![c] = Answered(NewCall(op, s), "UNAVAILABLE")] /\ UNCHANGED thread
    /\ UNCHANGED <<commands, current, contexts, idle, closed, touched, failed, marks>>

\* close_context: nothing to do without a worker, or once all is closed.
CloseCall(c, s) ==
    /\ calls[c].phase = "none"
    /\ calls' = [calls EXCEPT ![c] = IF closed \/ thread = "off" THEN Answered(NewCall("close_context", s), "OK")
                                                                ELSE NewCall("close_context", s)]
    /\ UNCHANGED <<commands, thread, current, contexts, idle, closed, touched, failed, marks>>

\* commands.put
PutCommand(c) ==
    /\ calls[c].phase = "putting" /\ Len(commands) < QueueSize
    /\ commands' = Append(commands, c)
    /\ calls' = [calls EXCEPT ![c].phase = "waiting"]
    /\ UNCHANGED <<thread, current, contexts, idle, closed, touched, failed, marks>>

\* ... and its queue.Full.
PutTimesOut(c) ==
    /\ calls[c].phase = "putting" /\ calls[c].late /\ Len(commands) = QueueSize
    /\ calls' = [calls EXCEPT ![c] = Answered([calls[c] EXCEPT !.cancelled = TRUE], "UNAVAILABLE")]
    /\ UNCHANGED <<commands, thread, current, contexts, idle, closed, touched, failed, marks>>

\* The deadline of a call passes.
DeadlinePasses(c) ==
    /\ calls[c].phase \in {"putting", "waiting"} /\ ~calls[c].late
    /\ calls' = [calls EXCEPT ![c].late = TRUE]
    /\ UNCHANGED <<commands, thread, current, contexts, idle, closed, touched, failed, marks>>

\* Mutant: once the worker has taken the command its answer is waited for.
GiveUp_QueuedOnly(c) ==
    /\ calls[c].phase = "waiting" /\ calls[c].late /\ current # c
    /\ calls' = [calls EXCEPT ![c] = Answered([calls[c] EXCEPT !.cancelled = TRUE],
                    IF calls[c].op \in Interactions THEN "SIDE_EFFECT_UNKNOWN" ELSE "TIMEOUT")]
    /\ UNCHANGED <<commands, thread, current, contexts, idle, closed, touched, failed, marks>>

\* response.get runs into its timeout, a grace after the deadline.
GiveUp(c) ==
    /\ calls[c].phase = "waiting" /\ calls[c].late
    /\ calls' = [calls EXCEPT ![c] = Answered([calls[c] EXCEPT !.cancelled = TRUE],
                    IF calls[c].op \in Interactions THEN "SIDE_EFFECT_UNKNOWN" ELSE "TIMEOUT")]
    /\ UNCHANGED <<commands, thread, current, contexts, idle, closed, touched, failed, marks>>

\* response.put: it reaches a caller that still waits.
Respond(c, answer) ==
    calls' = IF calls[c].phase = "waiting" THEN [calls EXCEPT ![c] = Answered(calls[c], answer)] ELSE calls

\* _close_session for a set of sessions.
CloseSessions(gone) ==
    /\ contexts' = contexts \ gone
    /\ marks' = [s \in SessionKeys |-> IF s \in gone THEN {} ELSE marks[s]]

\* The worker takes a command: expired ones are answered and dropped.
TakeCommand ==
    /\ thread = "running" /\ ~closed /\ current = Nothing /\ commands # <<>>
    /\ LET c == Head(commands)
       IN  IF calls[c].cancelled \/ calls[c].late
           THEN Respond(c, "TIMEOUT") /\ UNCHANGED current
           ELSE current' = c /\ UNCHANGED calls
    /\ commands' = Tail(commands)
    /\ UNCHANGED <<thread, contexts, idle, closed, touched, failed, marks>>

\* _reap_idle_contexts on an empty queue.
ReapIdle ==
    /\ thread = "running" /\ ~closed /\ current = Nothing /\ commands = <<>> /\ idle # {}
    /\ CloseSessions(idle)
    /\ idle' = {}
    /\ UNCHANGED <<commands, calls, thread, current, closed, touched, failed>>

\* The rest of a turn of the worker after the command on session s: the
\* sessions in gone are closed, s is in use again, the idle ones are reaped.
EndTurn(s, gone, answer) ==
    /\ Respond(current, answer)
    /\ CloseSessions(gone \cup (idle \ {s}))
    /\ idle' = {}
    /\ current' = Nothing
    /\ UNCHANGED <<commands, thread, closed>>

\* What _guard_current_page raises about the URL a page is at: a ToolError.
GuardCurrentPage == {"VALIDATION", "FORBIDDEN", "UNAVAILABLE"}

\* What _download raises once its click was made: its timeout is answered as no
\* download; the artifact is missing, unreadable, too large or not written.
DownloadErrors == {"NOT_FOUND", "PROVIDER_ERROR", "VALIDATION"}

\* _transport_error: the code of what the engine raised (external kinds); a
\* ToolError stays what it is.
TransportError(raised) ==
    CASE raised = "timeout" -> "TIMEOUT"
      [] raised = "no_chromium" -> "NOT_IMPLEMENTED"
      [] raised = "error" -> "PROVIDER_ERROR"
      [] OTHER -> raised

\* _command_error: the timeout of an interaction is never a clean one, and the
\* session that may hold its effect is closed.
CommandError(c, raised) ==
    IF calls[c].op \in Interactions /\ raised = "timeout"
    THEN [code |-> "SIDE_EFFECT_UNKNOWN", gone |-> {calls[c].session}]
    ELSE [code |-> TransportError(raised), gone |-> {}]

\* _ensure_runtime: without Playwright or Chromium nothing runs; a launch may
\* fail or time out too.
EnsureRuntimeFails ==
    /\ current # Nothing /\ current \notin touched /\ contexts = {}
    /\ \E raised \in {"no_chromium", "timeout", "error"} :
         LET error == CommandError(current, raised)
         IN  EndTurn(calls[current].session, error.gone, error.code)
    /\ UNCHANGED <<touched, failed>>

\* _dispatch refuses before it reaches a page: no context to list tabs of, or
\* no room for a new context once the idle ones are gone.
RefuseCommand ==
    /\ current # Nothing /\ current \notin touched
    /\ LET s == calls[current].session
       IN  \/ calls[current].op = "tabs" /\ s \notin contexts /\ EndTurn(s, {}, "NOT_FOUND")
           \/ /\ calls[current].op # "close_context" /\ s \notin contexts
              /\ Cardinality(contexts \ idle) >= MaxContexts
              /\ EndTurn(s, {}, "UNAVAILABLE")
    /\ UNCHANGED <<touched, failed>>

\* close_context in the worker.
DispatchClose ==
    /\ current # Nothing /\ calls[current].op = "close_context"
    /\ EndTurn(calls[current].session, {calls[current].session}, "OK")
    /\ UNCHANGED <<touched, failed>>

\* _context_page, and an interaction that reaches the page.
Interact ==
    /\ current # Nothing /\ current \notin touched
    /\ calls[current].op \in Interactions
    /\ LET s == calls[current].session
       IN  /\ s \in contexts \/ Cardinality(contexts \ idle) < MaxContexts
           /\ IF s \in contexts
              THEN contexts' = contexts /\ idle' = idle \ {s}
              ELSE contexts' = (contexts \ idle) \cup {s} /\ idle' = {}
           /\ marks' = [t \in SessionKeys |-> IF t = s THEN marks[t] \cup {current}
                                              ELSE IF t \in contexts' THEN marks[t] ELSE {}]
    /\ touched' = touched \cup {current}
    /\ UNCHANGED <<commands, calls, thread, current, closed, failed>>

\* What execute itself may make of an interaction its transport reports done:
\* _verify_expect of a click or submit ...
VerifyExpect == {"OK", "CONFLICT"}
\* ... and _verify_download_artifact.
VerifyDownload == {"OK", "PROVIDER_ERROR", "FORBIDDEN"}

\* Mutant: an interaction that came back too late keeps its session.
InteractionDone_Kept(s) ==
    IF calls[current].cancelled \/ calls[current].late
    THEN EndTurn(s, {}, "SIDE_EFFECT_UNKNOWN")
    ELSE \E answer \in IF calls[current].op = "download" THEN VerifyDownload ELSE VerifyExpect :
           EndTurn(s, {}, answer)

\* The worker's turn after an interaction that came back without an error: the
\* deadline is looked at once more.
InteractionDone(s) ==
    IF calls[current].cancelled \/ calls[current].late
    THEN EndTurn(s, {s}, "SIDE_EFFECT_UNKNOWN")
    ELSE \E answer \in IF calls[current].op = "download" THEN VerifyDownload ELSE VerifyExpect :
           EndTurn(s, {}, answer)

\* ... and after one that raised: the engine, the guard of the page the interaction
\* led to, or what follows the click of a download.
InteractionFails(s) ==
    \E raised \in IF calls[current].op = "download" THEN {"error"} \cup DownloadErrors
                  ELSE {"timeout", "error"} \cup GuardCurrentPage :
        LET error == CommandError(current, raised)
        IN  /\ EndTurn(s, error.gone, error.code)
            /\ failed' = IF error.gone = {} THEN failed \cup {current} ELSE failed

\* The interaction comes back to the worker.
InteractionEnds ==
    /\ current \in touched
    /\ \/ InteractionDone(calls[current].session) /\ UNCHANGED failed
       \/ InteractionFails(calls[current].session)
    /\ UNCHANGED touched

\* Operations without effect (navigate, screenshot, extract, inspect, tabs), and
\* an interaction whose element reference is refused.
ReadEnds ==
    /\ current # Nothing /\ current \notin touched /\ calls[current].op # "close_context"
    /\ LET s == calls[current].session
           room == s \in contexts \/ Cardinality(contexts \ idle) < MaxContexts
           answers == IF calls[current].op \in Interactions THEN {"NOT_FOUND", "CONFLICT", "VALIDATION"}
                      ELSE {"OK", "NOT_FOUND", "TIMEOUT", "PROVIDER_ERROR"} \cup GuardCurrentPage
       IN  /\ calls[current].op = "tabs" => s \in contexts
           /\ room
           /\ \E answer \in answers : Respond(current, answer)
           /\ contexts' = (contexts \ (idle \ {s})) \cup {s}
           /\ marks' = [t \in SessionKeys |-> IF t \in contexts' THEN marks[t] ELSE {}]
    /\ idle' = {}
    /\ current' = Nothing
    /\ UNCHANGED <<commands, thread, closed, touched, failed>>

\* A context is not used for context_idle_seconds.
GoesIdle(s) ==
    /\ s \in contexts \ idle
    /\ idle' = idle \cup {s}
    /\ UNCHANGED <<commands, calls, thread, current, contexts, closed, touched, failed, marks>>

\* close: the worker stops after the command in its hands.
CloseTransport ==
    /\ ~closed
    /\ closed' = TRUE
    /\ UNCHANGED <<commands, calls, thread, current, contexts, idle, touched, failed, marks>>

\* _shutdown_runtime; what is left in the queue stays there.
Shutdown ==
    /\ closed /\ thread = "running" /\ current = Nothing
    /\ thread' = "stopped"
    /\ CloseSessions(contexts)
    /\ idle' = {}
    /\ UNCHANGED <<commands, calls, current, closed, touched, failed>>

\* What goes on for a call without the worker: time passes, threads run.  The
\* worker itself is owed nothing, for the engine may hang.
BrowserCallerStep(c) == PutCommand(c) \/ PutTimesOut(c) \/ DeadlinePasses(c) \/ GiveUp(c)

BrowserStep == TakeCommand \/ EnsureRuntimeFails \/ RefuseCommand \/ DispatchClose \/ Interact \/ InteractionEnds \/ ReadEnds

BrowserNext ==
    \/ \E c \in BrowserCallers :
         \/ \E op \in Operations, s \in SessionKeys : BrowserCall(c, op, s) \/ RefuseCall(c, op, s)
         \/ \E s \in SessionKeys : CloseCall(c, s)
         \/ BrowserCallerStep(c)
    \/ BrowserStep
    \/ ReapIdle \/ \E s \in SessionKeys : GoesIdle(s)
    \/ CloseTransport \/ Shutdown

BrowserSpec == BrowserInit /\ [][BrowserNext]_browserVars

-----------------------------------------------------------------------------
\* Whatever a caller is told about an interaction, a page that may hold its
\* unknown effect is not used again: once the worker has let go of a call that
\* was reported SIDE_EFFECT_UNKNOWN, the context it touched is closed (unless
\* the page's answer, too late for the caller, was an error of another kind).
\* And an interaction reported TIMEOUT reached no page, nor did one reported
\* UNAVAILABLE, unless it led to a page whose name could then not be resolved.
UnknownIsQuarantined ==
    \A c \in BrowserCallers :
        /\ calls[c].answer = "SIDE_EFFECT_UNKNOWN" /\ current # c /\ c \notin failed
             => \A s \in SessionKeys : c \notin marks[s]
        /\ calls[c].answer = "TIMEOUT" => c \notin touched
        /\ calls[c].answer = "UNAVAILABLE" => c \notin touched \/ c \in failed

\* Every call comes back, though the engine hang or the transport be closed
\* under its callers.
BrowserCallEnds == \A c \in BrowserCallers : (calls[c].phase # "none") ~> (calls[c].phase = "done")
=============================================================================
