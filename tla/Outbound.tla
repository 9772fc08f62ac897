------------------------------- MODULE Outbound -------------------------------
(***************************************************************************)
(* What the providers with outside effects do to the outside world: the    *)
(* booking partner, WhatsApp, SMTP, GitHub, a paired Android device, the    *)
(* files of the workspace and a subprocess, under the service's retries,   *)
(* its deadline and its conversion of ambiguous failures.  Several         *)
(* dispatches carry the same action; a partner may act on a request and    *)
(* its answer may still be lost.                                           *)
(***************************************************************************)
EXTENDS Integers, FiniteSetsExt

CONSTANTS
    OutboundCalls,   \* dispatches of one action
    MaxTries         \* RetryPolicy.max_attempts

ASSUME OutboundAssumption == IsFiniteSet(OutboundCalls) /\ MaxTries \in Nat

Booking == {"booking_hold", "booking_confirm", "booking_cancel"}
\* A message to every recipient, a reaction to one message.
MetaKinds == {"whatsapp_send", "whatsapp_react"}
\* Issues, comments and pull requests are created anew each time; a commit
\* names the file it replaces.
GithubWrites == {"github", "commit"}
DeviceWrites == {"device", "install", "payment"}
FileWrites == {"fs_write", "fs_move", "fs_delete"}
Kinds == Booking \cup MetaKinds \cup {"email", "code"} \cup GithubWrites \cup DeviceWrites \cup FileWrites
\* What the outside refuses to do twice: a commit over a file that has changed
\* (external), a file that is gone.
Unrepeatable == {"commit", "fs_move", "fs_delete"}
\* non_retryable_action_types, which are ambiguous_on_failure_action_types too.
Irrevocable == {"booking_confirm", "booking_cancel", "payment"}
\* The recipients of a message, one effect each; the others have one.
Parts(kind) == IF kind \in {"whatsapp_send", "email"} THEN 1..2 ELSE 1..1

\* What comes back: 2xx with a body, with none, with one that does not decode
\* or is too long; 401 or 403, 404, 409, 400 or 422, another 4xx, 429, 5xx;
\* nothing in time, a connection that breaks.
Certain == {"ok", "empty", "garbled", "long"}
Clean == {"denied", "missing", "conflict", "invalid", "odd", "busy"}
Replies == Certain \cup Clean \cup {"broken", "timeout", "reset"}

VARIABLES
    kind,       \* the action's provider and type
    sends,      \* per dispatch: phase, attempt, part, reply, verdict
    results,    \* _idempotent_results has the action's key
    keySeen,       \* the partner has acted on the idempotency key (external)
    effects,    \* per part: how often the world changed (external)
    acted       \* dispatches whose requests changed it (history)

outVars == <<kind, sends, results, keySeen, effects, acted>>

OutboundInit ==
    /\ kind \in Kinds
    /\ sends = [c \in OutboundCalls |-> [phase |-> "idle", attempt |-> 1, part |-> 1, reply |-> "none", verdict |-> "none"]]
    /\ results = FALSE /\ keySeen = FALSE
    /\ effects = [p \in 1..2 |-> 0]
    /\ acted = {}

-----------------------------------------------------------------------------
(* The codes the providers end with *)

\* validate refuses the parameters.
ValidateBooking == {"VALIDATION", "NOT_IMPLEMENTED"}
ValidateWhatsApp == {"VALIDATION", "NOT_IMPLEMENTED"}
ValidateEmail == {"VALIDATION", "NOT_IMPLEMENTED", "NOT_FOUND", "FORBIDDEN"}
ValidateGithub == {"VALIDATION", "NOT_IMPLEMENTED"}
ValidateDevice == {"VALIDATION", "NOT_IMPLEMENTED", "NOT_FOUND", "FORBIDDEN"}
ValidateCode == {"VALIDATION", "NOT_IMPLEMENTED"}
\* A path that leaves the workspace is forbidden.
ValidateFile == {"VALIDATION", "FORBIDDEN"}

\* execute ends before the request leaves: no credentials in the vault, the
\* limiter, a free-form message out of the customer's window.
RefuseBooking == ValidateBooking \cup {"AUTH", "FORBIDDEN"}
CustomerWindow == IF kind = "whatsapp_send" THEN {"CONFLICT"} ELSE {}
RefuseWhatsApp == ValidateWhatsApp \cup {"AUTH", "FORBIDDEN"} \cup CustomerWindow
ResolveToken == {"AUTH"}
RefuseGithub == ValidateGithub \cup ResolveToken
\* An attachment that cannot be read; a server that refuses the connection, TLS
\* or the login (other login errors escape).
AddAttachments == {"PROVIDER_ERROR", "VALIDATION"}
RefuseEmail == ValidateEmail \cup AddAttachments \cup {"AUTH", "FORBIDDEN", "UNAVAILABLE", "TIMEOUT", "INTERNAL"}
\* The endpoint, the pairing token, and the connection, whose failure escapes.
EnsurePaired == {"AUTH"}
EnsureConnected == {"INTERNAL"}
\* An app is installed once its signature has been verified.
VerifySignedApk == IF kind = "install" THEN {"FORBIDDEN", "NOT_IMPLEMENTED", "TIMEOUT"} ELSE {}
RefuseDevice == VerifySignedApk \cup ValidateDevice \cup EnsurePaired \cup EnsureConnected \cup {"FORBIDDEN"}

LocalCodes ==
    CASE kind \in Booking -> RefuseBooking
      [] kind \in MetaKinds -> RefuseWhatsApp
      [] kind = "email" -> RefuseEmail
      [] kind \in GithubWrites -> RefuseGithub
      [] kind \in DeviceWrites -> RefuseDevice
      [] kind \in FileWrites -> ValidateFile
      [] kind = "code" -> ValidateCode

\* _partner_call; json.loads raises past it.
PartnerCall(reply) ==
    CASE reply \in {"ok", "empty"} -> {"OK"}
      [] reply = "garbled" -> {"PROVIDER_ERROR", "INTERNAL"}
      [] reply = "denied" -> {"AUTH"}
      [] reply = "missing" -> {"NOT_FOUND"}
      [] reply = "conflict" -> {"CONFLICT"}
      [] reply = "invalid" -> {"VALIDATION"}
      [] reply = "timeout" -> {"TIMEOUT"}
      [] reply \in {"busy", "broken", "reset"} -> {"UNAVAILABLE"}
      [] reply \in {"long", "odd"} -> {"PROVIDER_ERROR"}

\* A hold and a confirmation need a reference in the answer, a cancellation
\* takes the booking's own.
RemoteHold(reply) == IF reply = "empty" THEN {"PROVIDER_ERROR"} ELSE PartnerCall(reply)
RemoteConfirm(reply) == IF reply = "empty" THEN {"PROVIDER_ERROR"} ELSE PartnerCall(reply)
RemoteCancel(reply) == PartnerCall(reply)

\* _map_http_error of WhatsApp.
MetaError(reply) ==
    CASE reply = "denied" -> "AUTH"
      [] reply = "missing" -> "NOT_FOUND"
      [] reply = "conflict" -> "CONFLICT"
      [] reply = "invalid" -> "VALIDATION"
      [] reply \in {"busy", "broken"} -> "UNAVAILABLE"
      [] reply = "odd" -> "PROVIDER_ERROR"

\* _http_call of WhatsApp; an answer with no id is as good as one.
MetaCall(reply) ==
    CASE reply \in {"ok", "empty"} -> {"OK"}
      [] reply = "garbled" -> {"OK", "INTERNAL"}
      [] reply = "long" -> {"PROVIDER_ERROR"}
      [] reply = "timeout" -> {"TIMEOUT"}
      [] reply = "reset" -> {"UNAVAILABLE"}
      [] OTHER -> {MetaError(reply)}

\* _handle_http_error of GitHub: 403 may be its rate limit, 409 and 400 have no
\* code of their own.
GithubError(reply) ==
    CASE reply = "denied" -> {"AUTH", "UNAVAILABLE"}
      [] reply = "missing" -> {"NOT_FOUND"}
      [] reply = "invalid" -> {"VALIDATION", "PROVIDER_ERROR"}
      [] reply \in {"busy", "broken"} -> {"UNAVAILABLE"}
      [] reply \in {"conflict", "odd"} -> {"PROVIDER_ERROR"}

\* _http_call of GitHub: an answer that is too long is cut, and does not decode.
GithubCall(reply) ==
    CASE reply \in {"ok", "empty"} -> {"OK"}
      [] reply \in {"garbled", "long"} -> {"PROVIDER_ERROR", "INTERNAL"}
      [] reply \in {"timeout", "reset"} -> {"UNAVAILABLE"}
      [] OTHER -> GithubError(reply)

\* sendmail and the end of the session: QUIT may fail after the message is in.
\* sendmail returns the recipients the server refused, and nobody reads that.
SendMail(reply) ==
    CASE reply \in {"ok", "empty"} -> {"OK"}
      [] reply \in {"garbled", "long"} -> {"INTERNAL", "TIMEOUT"}
      [] OTHER -> {"UNAVAILABLE"}

\* _adb under execute: the command ends, fails, hangs.
AdbCall(reply) ==
    CASE reply \in {"ok", "empty", "garbled", "long"} -> {"OK"}
      [] reply = "timeout" -> {"TIMEOUT"}
      [] OTHER -> {"UNAVAILABLE"}

\* A write that fails may have written in part; the source of a move may be
\* gone and its destination taken; a directory may not be empty.
WriteFile(reply) == IF reply = "ok" THEN {"OK"} ELSE {"PROVIDER_ERROR"}
MoveFile(reply) ==
    CASE reply = "ok" -> {"OK"}
      [] reply = "missing" -> {"NOT_FOUND"}
      [] reply = "conflict" -> {"CONFLICT"}
      [] reply = "denied" -> {"PROVIDER_ERROR"}
DeleteFile(reply) ==
    CASE reply = "ok" -> {"OK"}
      [] reply = "missing" -> {"NOT_FOUND"}
      [] reply = "conflict" -> {"FORBIDDEN"}
      [] reply = "denied" -> {"PROVIDER_ERROR"}

\* The subprocess exits with zero or not, is killed at its timeout, or cannot
\* be started.
ExecuteCode(reply) ==
    CASE reply = "ok" -> {"OK"}
      [] reply = "garbled" -> {"FAILED"}
      [] reply = "timeout" -> {"TIMEOUT"}
      [] reply = "denied" -> {"PROVIDER_ERROR"}

\* What can come back: over the network anything.
RepliesTo ==
    CASE kind = "fs_write" -> {"ok", "broken"}
      [] kind \in FileWrites \ {"fs_write"} -> {"ok", "missing", "conflict", "denied"}
      [] kind = "code" -> {"ok", "garbled", "timeout", "denied"}
      [] OTHER -> Replies

\* _file_commit is one PUT, as the others are one POST.
FileCommit(reply) == GithubCall(reply)

CodesOf(reply) ==
    CASE kind = "booking_hold" -> RemoteHold(reply)
      [] kind = "booking_confirm" -> RemoteConfirm(reply)
      [] kind = "booking_cancel" -> RemoteCancel(reply)
      [] kind \in MetaKinds -> MetaCall(reply)
      [] kind = "email" -> SendMail(reply)
      [] kind = "github" -> GithubCall(reply)
      [] kind = "commit" -> FileCommit(reply)
      [] kind = "fs_write" -> WriteFile(reply)
      [] kind = "fs_move" -> MoveFile(reply)
      [] kind = "fs_delete" -> DeleteFile(reply)
      [] kind = "code" -> ExecuteCode(reply)
      [] kind \in DeviceWrites -> AdbCall(reply)

-----------------------------------------------------------------------------
\* Mutant: a timeout is reported as it is.
Reported_NoTimeout(code) ==
    IF kind \in Irrevocable /\ code \in {"UNAVAILABLE", "PROVIDER_ERROR"} THEN "SIDE_EFFECT_UNKNOWN" ELSE code

\* An irrevocable action's failure in transport is an unknown outcome
\* (booking's execute, and _run_provider for every provider); a result that
\* is a failure is one of the provider.
Reported(code) ==
    IF kind \in Irrevocable /\ code \in {"UNAVAILABLE", "TIMEOUT", "PROVIDER_ERROR"}
    THEN "SIDE_EFFECT_UNKNOWN" ELSE IF code = "FAILED" THEN "PROVIDER_ERROR" ELSE code

\* RetryPolicy.is_retryable under _retry_policy_for.
RetriedCode(code) == kind \notin Irrevocable /\ code \in {"UNAVAILABLE", "PROVIDER_ERROR"}

\* An attempt ends with code: another attempt, or the verdict, unless the
\* caller has left.  Past the deadline there is no other attempt.
EndAttempt(c, code) ==
    LET s == sends[c]
        waited == s.verdict = "none"
    IN  sends' = [sends EXCEPT ![c] =
            IF RetriedCode(code) /\ waited /\ s.attempt < MaxTries
            THEN [s EXCEPT !.phase = "ready", !.attempt = s.attempt + 1, !.part = 1, !.reply = "none"]
            ELSE [s EXCEPT !.phase = "done", !.reply = "none", !.verdict = IF waited THEN Reported(code) ELSE s.verdict]]

DispatchSend(c) ==
    /\ sends[c].phase = "idle"
    /\ sends' = [sends EXCEPT ![c].phase = "ready"]
    /\ UNCHANGED <<kind, results, keySeen, effects, acted>>

\* execute refuses: the credentials, the limiter, the pairing, the customer
\* window, an attachment, the connection to the mail server or the device.
RefuseLocally(c) ==
    /\ sends[c].phase = "ready" /\ sends[c].part = 1
    /\ \E code \in LocalCodes : EndAttempt(c, code)
    /\ UNCHANGED <<kind, results, keySeen, effects, acted>>

\* _idempotent_remote finds the result of an earlier call.
AnswerFromCache(c) ==
    /\ sends[c].phase = "ready" /\ kind \in Booking /\ results
    /\ EndAttempt(c, "OK")
    /\ UNCHANGED <<kind, results, keySeen, effects, acted>>

\* Mutant: only a key the user has supplied is sent.
CarriesKey_Supplied == FALSE

\* The Idempotency-Key of a request: the one in the parameters, or else a
\* digest of the action; the partner acts once on it (external).
CarriesKey == kind \in Booking

\* Whom a request reaches that is taken: a mail server may refuse recipients as
\* long as it takes one (external), a WhatsApp message has one.
Reach(c) == IF kind = "email" THEN {some \in SUBSET Parts(kind) : some # {}} ELSE {{sends[c].part}}

\* The request leaves, and a reply is on its way.
HandOver(c, reply, took) ==
    /\ sends[c].phase \in {"ready", "next"}
    /\ kind \in Booking /\ sends[c].phase = "ready" => ~results
    /\ reply \in RepliesTo
    /\ took => reply \notin Clean /\ ~(kind \in Unrepeatable /\ keySeen)
    /\ reply \in Certain => took
    /\ sends' = [sends EXCEPT ![c].phase = "sent", ![c].reply = reply]
    /\ IF took /\ ~(CarriesKey /\ keySeen)
       THEN /\ \E reached \in Reach(c) :
                effects' = [p \in 1..2 |-> IF p \in reached THEN effects[p] + 1 ELSE effects[p]]
            /\ acted' = acted \cup {c}
       ELSE UNCHANGED <<effects, acted>>
    /\ keySeen' = (keySeen \/ took)
    /\ UNCHANGED <<kind, results>>

\* The reply is read: WhatsApp's next recipient, or the end of the attempt.
TakeReply(c) ==
    /\ sends[c].phase = "sent"
    /\ \E code \in CodesOf(sends[c].reply) :
         /\ IF code = "OK" /\ kind = "whatsapp_send" /\ sends[c].part + 1 \in Parts(kind)
            THEN sends' = [sends EXCEPT ![c].phase = "next", ![c].part = @ + 1]
            ELSE EndAttempt(c, code)
         /\ results' = (results \/ (code = "OK" /\ kind \in Booking))
    /\ UNCHANGED <<kind, keySeen, effects, acted>>

\* run_with_timeout leaves; the thread goes on.
AbandonSend(c) ==
    /\ sends[c].phase \in {"ready", "next", "sent"} /\ sends[c].verdict = "none"
    /\ sends' = [sends EXCEPT ![c].verdict = Reported("TIMEOUT")]
    /\ UNCHANGED <<kind, results, keySeen, effects, acted>>

OutboundNext ==
    \E c \in OutboundCalls :
        \/ DispatchSend(c) \/ RefuseLocally(c) \/ AnswerFromCache(c)
        \/ \E reply \in Replies, took \in BOOLEAN : HandOver(c, reply, took)
        \/ TakeReply(c) \/ AbandonSend(c)

OutboundSpec == OutboundInit /\ [][OutboundNext]_outVars

-----------------------------------------------------------------------------
\* However requests overlap and answers are lost, one booking action acts on
\* the partner once over all its dispatches, and one dispatch of a payment
\* hands it over once: neither retries nor a caller that left repeat it.
IrreversibleOnce ==
    /\ kind \in Booking => effects[1] <= 1
    /\ kind = "payment" => effects[1] <= Cardinality({c \in OutboundCalls : sends[c].phase # "idle"})

\* What "executed" may be taken to mean: a WhatsApp message has reached every
\* recipient, a mail one of them.
Delivered ==
    IF kind = "email" THEN \E p \in Parts(kind) : effects[p] >= 1 ELSE \A p \in Parts(kind) : effects[p] >= 1

\* A dispatch reported executed has had its effect on every part of the action
\* (a mail on one of its recipients: the refused ones are not looked at), and an
\* irrevocable one reported failed with anything but SIDE_EFFECT_UNKNOWN has had
\* none (an answer that cannot be decoded, INTERNAL, is the exception).
HonestVerdict ==
    \A c \in OutboundCalls :
        /\ sends[c].verdict = "OK" => Delivered
        /\ kind \in Irrevocable /\ sends[c].verdict \notin {"none", "OK", "SIDE_EFFECT_UNKNOWN", "INTERNAL"}
             => c \notin acted
=============================================================================
