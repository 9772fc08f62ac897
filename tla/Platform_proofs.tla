--------------------------- MODULE Platform_proofs ---------------------------
(***************************************************************************)
(* Proofs about the components that share no state with one another: the   *)
(* circuit breaker, access control and the vault, the web provider, the    *)
(* element references of the browser, workflow schedules, the parameters   *)
(* of fill steps and the rate limiters.                                    *)
(***************************************************************************)
EXTENDS CircuitBreaker, WorkflowOps, BrowserRefs, WebFetch, Access, StepParams, RateLimit,
        WellFoundedInduction, FiniteSetTheorems, TLAPS

-----------------------------------------------------------------------------
(* The circuit breaker *)

\* The inductive invariant: the type invariant is needed for the arithmetic.
BreakerInv == CircuitTypeOK /\ CountersAccurate

\* The initial state.
LEMMA InitBreaker == CircuitInit => BreakerInv
  BY BreakerAssumption DEF CircuitInit, BreakerInv, CircuitTypeOK, CountersAccurate, States

\* Every step of the breaker preserves the invariant.
LEMMA StepBreaker == BreakerInv /\ [CircuitNext]_circuitVars => BreakerInv'
  <1> SUFFICES ASSUME BreakerInv, [CircuitNext]_circuitVars
               PROVE  BreakerInv'
    OBVIOUS
  <1> USE BreakerAssumption DEF BreakerInv, CircuitTypeOK, CountersAccurate, States
  <1>1. CASE UNCHANGED circuitVars
    BY <1>1 DEF circuitVars
  <1>2. ASSUME NEW r \in Requests, Admit(r) PROVE BreakerInv'
    BY <1>2 DEF Admit
  <1>3. ASSUME NEW r \in Requests, Success(r) PROVE BreakerInv'
    BY <1>3 DEF Success
  <1>4. ASSUME NEW r \in Requests, Failure(r) PROVE BreakerInv'
    <2>1. CASE state = "OPEN"
      BY <1>4, <2>1 DEF Failure
    <2>2. CASE state = "HALF_OPEN"
      BY <1>4, <2>2 DEF Failure
    <2>3. CASE state = "CLOSED"
      BY <1>4, <2>3 DEF Failure
    <2> QED BY <2>1, <2>2, <2>3
  <1>5. ASSUME NEW r \in Requests, Ignored(r) PROVE BreakerInv'
    BY <1>5 DEF Ignored
  <1>6. CASE Tick
    BY <1>6 DEF Tick
  <1> QED BY <1>1, <1>2, <1>3, <1>4, <1>5, <1>6 DEF CircuitNext

\* The state of a breaker is well typed in every state of every behaviour.
THEOREM BreakerTypeCorrect == CircuitSpec => []CircuitTypeOK
  <1>1. BreakerInv => CircuitTypeOK
    BY DEF BreakerInv
  <1> QED BY <1>1, InitBreaker, StepBreaker, PTL DEF CircuitSpec, Safety

\* A closed circuit has counted every eligible failure since the last success
\* and an open one knows when it opened, in whatever order dispatches report.
THEOREM CountersAlwaysAccurate == CircuitSpec => []CountersAccurate
  <1>1. BreakerInv => CountersAccurate
    BY DEF BreakerInv
  <1> QED BY <1>1, InitBreaker, StepBreaker, PTL DEF CircuitSpec, Safety

-----------------------------------------------------------------------------
(* Access control and the vault *)

Places == {"idle", "token", "user", "used", "permission", "op", "vault", "store", "audit", "holding"}
AuditCodes == {"none", "EXECUTED", "UNKNOWN", "AUTH", "REVOKED", "TAMPERED"}
AnyKey == KeyRows \cup {NoRequest.key}
AnyUser == Users \cup {NoUser} \cup {HolderOf[k] : k \in AnyKey}
SecretRecords == [exists : BOOLEAN, owner : AnyUser, sealedBy : AnyUser, revision : Nat, revoked : BOOLEAN]
RequestRecords == [pc : Places, op : Ops, user : AnyUser, key : AnyKey, row : SecretRecords, code : AuditCodes]
KeyRecords == [exists : BOOLEAN, revoked : BOOLEAN, used : BOOLEAN]

\* The rows have their columns, what a request has read of the secret is such a
\* row, and only a secret that was stored is revoked.
AccessInv ==
    /\ keys \in [KeyRows -> KeyRecords]
    /\ secret \in SecretRecords
    /\ req \in [ApiRequests -> RequestRecords]
    /\ secret.revoked => secret.exists

\* The secret before its first store is a row of the vault like any other.
LEMMA NoSecretTyped == NoSecret \in SecretRecords
  BY DEF NoSecret, SecretRecords, AnyUser

\* A request that has not arrived, or was answered, has read nothing yet.
LEMMA NoRequestTyped == NoRequest \in RequestRecords
<1>1. NoRequest.row = NoSecret /\ NoRequest.pc = "idle" /\ NoRequest.op = "resolve"
      /\ NoRequest.user = NoUser /\ NoRequest.code = "none"
  BY DEF NoRequest
<1>2. NoRequest = [pc |-> "idle", op |-> "resolve", user |-> NoUser, key |-> NoRequest.key,
                   row |-> NoSecret, code |-> "none"]
  BY DEF NoRequest
<1> QED
  BY <1>2, NoSecretTyped DEF RequestRecords, Places, Ops, AnyUser, AnyKey, AuditCodes

\* bootstrap_admin leaves live keys and no secret.
LEMMA InitInv == AccessInit => AccessInv
  BY NoSecretTyped, NoRequestTyped DEF AccessInit, AccessInv, KeyRecords, NoSecret

\* A request that moves on or is answered is still a request.
LEMMA MovesKeeps ==
    ASSUME AccessInv, NEW r \in ApiRequests, NEW pc \in Places, MovesTo(r, pc)
    PROVE  req' \in [ApiRequests -> RequestRecords]
  BY DEF AccessInv, MovesTo, RequestRecords

\* A route that returns or raises leaves nothing of its request behind.
LEMMA AnswersKeeps ==
    ASSUME AccessInv, NEW r \in ApiRequests, Answers(r)
    PROVE  req' \in [ApiRequests -> RequestRecords]
  BY NoRequestTyped DEF AccessInv, Answers

\* What store_secret and revoke_secret hand to _audit is still a request.
LEMMA AuditKeeps ==
    ASSUME AccessInv, NEW r \in ApiRequests,
           req' = [req EXCEPT ![r].pc = "audit", ![r].code = "EXECUTED"]
    PROVE  req' \in [ApiRequests -> RequestRecords]
  BY DEF AccessInv, RequestRecords, Places, AuditCodes

\* So is what resolve_ref hands to it, with the row it has read.
LEMMA ResolveKeeps ==
    ASSUME AccessInv, NEW r \in ApiRequests, NEW code \in AuditCodes,
           req' = [req EXCEPT ![r].pc = "audit", ![r].row = secret, ![r].code = code]
    PROVE  req' \in [ApiRequests -> RequestRecords]
<1>1. req[r] \in RequestRecords /\ secret \in SecretRecords
  BY DEF AccessInv
<1>2. [req[r] EXCEPT !.pc = "audit", !.row = secret, !.code = code] \in RequestRecords
  BY <1>1 DEF RequestRecords, Places
<1>3. req' = [req EXCEPT ![r] = [req[r] EXCEPT !.pc = "audit", !.row = secret, !.code = code]]
  BY DEF AccessInv
<1> QED
  BY <1>2, <1>3 DEF AccessInv

\* get_current_principal starts from a token and an operation.
LEMMA ArriveKeeps ==
    ASSUME AccessInv, NEW r \in ApiRequests, NEW k \in KeyRows, NEW op \in Ops,
           req' = [req EXCEPT ![r] = [NoRequest EXCEPT !.pc = "token", !.key = k, !.op = op]]
    PROVE  req' \in [ApiRequests -> RequestRecords]
<1>1. [NoRequest EXCEPT !.pc = "token", !.key = k, !.op = op] \in RequestRecords
  BY NoRequestTyped DEF RequestRecords, Places, AnyKey
<1> QED
  BY <1>1 DEF AccessInv

\* Every step of authentication, of the routes and of the vault keeps the
\* invariant: rows are changed column by column, and the secret is revoked
\* only where revoke_secret found it.
LEMMA StepInv == AccessInv /\ [AccessNext]_accessVars => AccessInv'
<1> SUFFICES ASSUME AccessInv, [AccessNext]_accessVars PROVE AccessInv'
  OBVIOUS
<1>0. CASE UNCHANGED accessVars
  BY <1>0 DEF AccessInv, accessVars
<1> SUFFICES ASSUME NEW r \in ApiRequests,
        \/ Arrive(r) \/ ReadKey(r) \/ ReadUser(r) \/ FlushUsed(r) \/ RequirePermission(r) \/ AuthorizeAction(r)
        \/ CreateUser(r) \/ CreateApiKey(r) \/ SetUserDisabled(r) \/ RevokeKey(r) \/ VaultDisabled(r)
        \/ StoreRead(r) \/ StoreInsert(r) \/ StoreRotate(r) \/ RevokeSecret(r) \/ ResolveSecret(r)
        \/ AuditVault(r) \/ AuditFails(r) \/ Forget(r)
      PROVE AccessInv'
  BY <1>0 DEF AccessNext
<1>row. req[r].row \in SecretRecords /\ req[r].user \in AnyUser /\ req[r].key \in AnyKey
  BY DEF AccessInv, RequestRecords
<1>fields. req[r].row.owner \in AnyUser /\ req[r].row.revision \in Nat /\ req[r].row.revoked \in BOOLEAN
  BY <1>row DEF SecretRecords
<1>1. CASE Arrive(r)
  BY <1>1, ArriveKeeps DEF Arrive, AccessInv
<1>2. CASE ReadKey(r)
  BY <1>2, MovesKeeps, AnswersKeeps DEF ReadKey, AccessInv, Places
<1>3. CASE ReadUser(r)
  <2>1. HolderOf[req[r].key] \in AnyUser
    BY <1>row DEF AnyUser
  <2>2. req' \in [ApiRequests -> RequestRecords]
    BY <1>3, <2>1, AnswersKeeps DEF ReadUser, AccessInv, RequestRecords, Places
  <2> QED
    BY <1>3, <2>2 DEF ReadUser, AccessInv
<1>4. CASE FlushUsed(r)
  <2>1. keys' \in [KeyRows -> KeyRecords]
    BY <1>4 DEF FlushUsed, AccessInv, KeyRecords
  <2> QED
    BY <1>4, <2>1, MovesKeeps DEF FlushUsed, AccessInv, Places
<1>5. CASE RequirePermission(r)
  BY <1>5, MovesKeeps, AnswersKeeps DEF RequirePermission, AccessInv, Places
<1>6. CASE AuthorizeAction(r)
  BY <1>6, MovesKeeps, AnswersKeeps DEF AuthorizeAction, AccessInv, Places
<1>7. CASE CreateUser(r)
  BY <1>7, AnswersKeeps DEF CreateUser, AccessInv
<1>8. CASE CreateApiKey(r)
  <2>1. keys' \in [KeyRows -> KeyRecords]
    BY <1>8 DEF CreateApiKey, AccessInv, KeyRecords
  <2> QED
    BY <1>8, <2>1, AnswersKeeps DEF CreateApiKey, AccessInv
<1>9. CASE SetUserDisabled(r)
  BY <1>9, AnswersKeeps DEF SetUserDisabled, AccessInv
<1>10. CASE RevokeKey(r)
  <2>1. keys' \in [KeyRows -> KeyRecords]
    BY <1>10 DEF RevokeKey, AccessInv, KeyRecords
  <2> QED
    BY <1>10, <2>1, AnswersKeeps DEF RevokeKey, AccessInv
<1>11. CASE VaultDisabled(r)
  BY <1>11, AnswersKeeps DEF VaultDisabled, AccessInv
<1>12. CASE StoreRead(r)
  <2>1. PICK owner \in {u \in Users : users[u].exists} \cup {req[r].user} :
          req' = [req EXCEPT ![r].pc = "store", ![r].row = [secret EXCEPT !.owner = owner]]
    BY <1>12 DEF StoreRead
  <2>2. owner \in AnyUser
    BY <2>1, <1>row DEF AnyUser
  <2>3. [secret EXCEPT !.owner = owner] \in SecretRecords
    BY <2>2 DEF AccessInv, SecretRecords
  <2>4. req' \in [ApiRequests -> RequestRecords]
    BY <2>1, <2>3 DEF AccessInv, RequestRecords, Places
  <2> QED
    BY <1>12, <2>4 DEF StoreRead, AccessInv
<1>13. CASE StoreInsert(r)
  <2>1. CASE secret.exists
    BY <1>13, <2>1, AnswersKeeps DEF StoreInsert, AccessInv
  <2>2. CASE ~secret.exists
    <3>0. secret' = [exists |-> TRUE, owner |-> req[r].row.owner, sealedBy |-> req[r].user,
                     revision |-> 1, revoked |-> FALSE]
      BY <1>13, <2>2 DEF StoreInsert
    <3>1. secret' \in SecretRecords /\ ~secret'.revoked
      BY <3>0, <1>row, <1>fields DEF SecretRecords
    <3>2. req' \in [ApiRequests -> RequestRecords]
      <4>1. req' = [req EXCEPT ![r].pc = "audit", ![r].code = "EXECUTED"]
        BY <1>13, <2>2 DEF StoreInsert
      <4> QED
        BY <4>1, AuditKeeps
    <3> QED
      BY <1>13, <3>1, <3>2 DEF StoreInsert, AccessInv
  <2> QED
    BY <2>1, <2>2
<1>14. CASE StoreRotate(r)
  <2>0. secret' = [secret EXCEPT !.owner = req[r].row.owner, !.sealedBy = req[r].user,
                                 !.revision = req[r].row.revision + 1,
                                 !.revoked = @ /\ ~req[r].row.revoked]
    BY <1>14 DEF StoreRotate
  <2>1. secret' \in SecretRecords /\ (secret'.revoked => secret'.exists)
    <3>1. secret'.revoked => secret.revoked
      BY <2>0 DEF AccessInv, SecretRecords
    <3>2. secret'.exists = secret.exists
      BY <2>0 DEF AccessInv, SecretRecords
    <3>3. secret' \in SecretRecords
      <4>1. req[r].row.revision + 1 \in Nat /\ (secret.revoked /\ ~req[r].row.revoked) \in BOOLEAN
        BY <1>fields
      <4> QED
        BY <2>0, <4>1, <1>row, <1>fields DEF AccessInv, SecretRecords
    <3> QED
      BY <3>1, <3>2, <3>3 DEF AccessInv
  <2>2. req' \in [ApiRequests -> RequestRecords]
    <3>1. req' = [req EXCEPT ![r].pc = "audit", ![r].code = "EXECUTED"]
      BY <1>14 DEF StoreRotate
    <3> QED
      BY <3>1, AuditKeeps
  <2> QED
    BY <1>14, <2>1, <2>2 DEF StoreRotate, AccessInv
<1>15. CASE RevokeSecret(r)
  <2>1. CASE secret.exists
    <3>1. secret' \in SecretRecords /\ secret'.exists
      BY <1>15, <2>1 DEF RevokeSecret, AccessInv, SecretRecords
    <3>2. req' \in [ApiRequests -> RequestRecords]
      <4>1. req' = [req EXCEPT ![r].pc = "audit", ![r].code = "EXECUTED"]
        BY <1>15, <2>1 DEF RevokeSecret
      <4> QED
        BY <4>1, AuditKeeps
    <3> QED
      BY <1>15, <3>1, <3>2 DEF RevokeSecret, AccessInv
  <2>2. CASE ~secret.exists
    BY <1>15, <2>2, AnswersKeeps DEF RevokeSecret, AccessInv
  <2> QED
    BY <2>1, <2>2
<1>16. CASE ResolveSecret(r)
  <2>1. PICK requireOwner, damaged \in BOOLEAN :
          req' = [req EXCEPT ![r].pc = "audit", ![r].row = secret,
                             ![r].code = ResolveCode(req[r].user, requireOwner, damaged)]
    BY <1>16 DEF ResolveSecret
  <2>2. ResolveCode(req[r].user, requireOwner, damaged) \in AuditCodes
    BY DEF ResolveCode, AuditCodes
  <2>3. req' \in [ApiRequests -> RequestRecords]
    BY <2>1, <2>2, ResolveKeeps
  <2> QED
    BY <1>16, <2>3 DEF ResolveSecret, AccessInv
<1>17. CASE AuditVault(r)
  <2>1. CASE Answers(r)
    BY <1>17, <2>1, AnswersKeeps DEF AuditVault, AccessInv
  <2>2. CASE req' = [req EXCEPT ![r].pc = "holding"]
    <3>1. MovesTo(r, "holding")
      BY <2>2 DEF MovesTo
    <3>2. req' \in [ApiRequests -> RequestRecords]
      BY <3>1, MovesKeeps DEF Places
    <3> QED
      BY <1>17, <3>2 DEF AuditVault, AccessInv
  <2> QED
    BY <1>17, <2>1, <2>2 DEF AuditVault
<1>18. CASE AuditFails(r)
  BY <1>18, AnswersKeeps DEF AuditFails, AccessInv
<1>19. CASE Forget(r)
  BY <1>19, AnswersKeeps DEF Forget, AccessInv
<1> QED
  BY <1>1, <1>2, <1>3, <1>4, <1>5, <1>6, <1>7, <1>8, <1>9, <1>10, <1>11, <1>12, <1>13,
     <1>14, <1>15, <1>16, <1>17, <1>18, <1>19

\* In every state the rows of keys and of the secret are whole, and only a
\* secret that VaultService has stored can stand revoked.
THEOREM AccessInvariant == AccessSpec => []AccessInv
  BY InitInv, StepInv, PTL DEF AccessSpec

\* What one step may do to a revocation.
Stands ==
    /\ \A k \in KeyRows : keys[k].revoked => keys'[k].revoked
    /\ secret.revoked /\ ~secret'.revoked =>
          \E r \in ApiRequests : req[r].pc = "store" /\ req[r].row.revoked

\* Keys: authentication flushes last_used_at alone, and create_api_key and
\* revoke_key never clear revoked_at.  The secret: a first store cannot follow a
\* revocation, since only a stored secret is revoked, and a rotation clears
\* revoked_at only when it read it set.
LEMMA StepStands == AccessInv /\ [AccessNext]_accessVars => Stands
<1> SUFFICES ASSUME AccessInv, [AccessNext]_accessVars PROVE Stands
  OBVIOUS
<1>1. CASE UNCHANGED <<keys, secret>>
  BY <1>1 DEF Stands
<1>2. ASSUME NEW r \in ApiRequests, FlushUsed(r) PROVE Stands
  BY <1>2 DEF FlushUsed, Stands, AccessInv, KeyRecords
<1>3. ASSUME NEW r \in ApiRequests, CreateApiKey(r) PROVE Stands
  BY <1>3 DEF CreateApiKey, Stands, AccessInv, KeyRecords
<1>4. ASSUME NEW r \in ApiRequests, RevokeKey(r) PROVE Stands
  BY <1>4 DEF RevokeKey, Stands, AccessInv, KeyRecords
<1>5. ASSUME NEW r \in ApiRequests, StoreInsert(r) PROVE Stands
  BY <1>5 DEF StoreInsert, Stands, AccessInv
<1>6. ASSUME NEW r \in ApiRequests, StoreRotate(r) PROVE Stands
  BY <1>6 DEF StoreRotate, Stands, AccessInv, SecretRecords
<1>7. ASSUME NEW r \in ApiRequests, RevokeSecret(r) PROVE Stands
  BY <1>7 DEF RevokeSecret, Stands, AccessInv, SecretRecords
<1> QED
  BY <1>1, <1>2, <1>3, <1>4, <1>5, <1>6, <1>7
  DEF AccessNext, accessVars, Arrive, ReadKey, ReadUser, RequirePermission, AuthorizeAction, CreateUser,
      SetUserDisabled, VaultDisabled, StoreRead, ResolveSecret, AuditVault, AuditFails, Forget

\* A revocation holds against every request in flight, however many: a revoked
\* API key stays revoked, and a revoked secret comes back only by a rotation that
\* had read it revoked.
THEOREM RevocationsStand == AccessSpec => RevocationsHold
<1>1. AccessInv /\ [AccessNext]_accessVars => [Stands]_accessVars
  BY StepStands
<1> QED
  BY <1>1, AccessInvariant, PTL DEF AccessSpec, RevocationsHold, Stands

-----------------------------------------------------------------------------
(* The web provider *)

Operations == {"none", "search", "fetch", "download"}
Phases == {"idle", "request", "open", "answer", "body", "writing", "written", "replaced", "done"}
Verdicts == {"none", "OK", "dead", "UNAVAILABLE", "TIMEOUT", "NOT_FOUND", "FORBIDDEN",
             "VALIDATION", "PROVIDER_ERROR", "NOT_IMPLEMENTED", "AUTH"}
CallRecords == [phase : Phases, op : Operations, url : Hosts, sent : Nat, size : Nat, verdict : Verdicts]

\* What the pinning rests on: no answer with a private address was ever kept,
\* and what is pinned for a URL comes from an answer kept for it.
PinnedInv ==
    /\ vetted \in [Hosts -> SUBSET Addresses]
    /\ targets \in [Hosts -> Addresses \cup {NoAddress}]
    /\ fetch \in CallRecords
    /\ dns \in [Hosts -> SUBSET Addresses]
    /\ \A h \in Hosts : vetted[h] \cap Private = {}
    /\ \A h \in Hosts : targets[h] # NoAddress => targets[h] \in vetted[h]
    /\ \A d \in dialled : d[1] \in Hosts /\ d[2] \in vetted[d[1]]

\* An answer that passed the check (resolve_public_url) adds no private address
\* to the answers kept, and keeps the earlier ones.
LEMMA ResolvedKeeps ==
    ASSUME PinnedInv, NEW h \in Hosts, Refusal(h) = "none", Resolved(h)
    PROVE  /\ vetted' \in [Hosts -> SUBSET Addresses]
           /\ \A g \in Hosts : vetted'[g] \cap Private = {} /\ vetted[g] \subseteq vetted'[g]
           /\ dns[h] \subseteq vetted'[h]
  BY DEF PinnedInv, Refusal, Resolved

\* A call that ends is still a call.
LEMMA EndsKeeps ==
    ASSUME fetch \in CallRecords, NEW v \in Verdicts, Ends(v)
    PROVE  fetch' \in CallRecords
  BY DEF Ends, CallRecords, Phases

\* The refusals of resolve_public_url are verdicts.
LEMMA RefusalIsVerdict == ASSUME NEW h PROVE Refusal(h) \in Verdicts
  BY DEF Refusal, Verdicts

\* Initially nothing is kept, pinned or dialled.
LEMMA PinnedInit == FetchInit => PinnedInv
  <1> SUFFICES ASSUME FetchInit PROVE PinnedInv
    OBVIOUS
  <1>1. fetch \in CallRecords
    BY WebFetchAssumption DEF FetchInit, CallRecords, Phases, Operations, Verdicts
  <1> QED
    BY <1>1 DEF FetchInit, PinnedInv

\* A step that touches only the call, the redirect counts and the files keeps
\* the invariant.
LEMMA PinnedFrame ==
    ASSUME PinnedInv, fetch' \in CallRecords, UNCHANGED <<dns, targets, vetted, dialled>>
    PROVE  PinnedInv'
  BY DEF PinnedInv

\* A kept answer, and a pin taken from it or no new pin, keep the invariant.
LEMMA PinnedAnswer ==
    ASSUME PinnedInv, fetch' \in CallRecords, UNCHANGED <<dns, dialled>>,
           NEW h \in Hosts, Refusal(h) = "none", Resolved(h),
           \/ UNCHANGED targets
           \/ \E a \in dns[h] : targets' = [targets EXCEPT ![h] = a]
    PROVE  PinnedInv'
  <1>1. /\ vetted' \in [Hosts -> SUBSET Addresses]
        /\ \A g \in Hosts : vetted'[g] \cap Private = {} /\ vetted[g] \subseteq vetted'[g]
        /\ dns[h] \subseteq vetted'[h]
    BY ResolvedKeeps
  <1>2. /\ targets' \in [Hosts -> Addresses \cup {NoAddress}]
        /\ \A g \in Hosts : targets'[g] # NoAddress => targets'[g] \in vetted'[g]
    <2>1. CASE UNCHANGED targets
      BY <1>1, <2>1 DEF PinnedInv
    <2>2. ASSUME NEW a \in dns[h], targets' = [targets EXCEPT ![h] = a] PROVE <1>2!:
      BY <1>1, <2>2 DEF PinnedInv
    <2> QED
      BY <2>1, <2>2
  <1> QED
    BY <1>1, <1>2 DEF PinnedInv

\* Every step of a call keeps the invariant.
LEMMA PinnedStep == PinnedInv /\ [FetchNext]_fetchVars => PinnedInv'
  <1> SUFFICES ASSUME PinnedInv, [FetchNext]_fetchVars PROVE PinnedInv'
    OBVIOUS
  <1>0. fetch \in CallRecords /\ fetch.url \in Hosts
    BY DEF PinnedInv, CallRecords
  <1>1. ASSUME NEW h \in Hosts, NEW op \in {"search", "fetch", "download"}, ValidateFetch(op, h) PROVE PinnedInv'
    <2>1. /\ UNCHANGED <<dns, targets, dialled>>
          /\ UNCHANGED vetted \/ (Refusal(h) = "none" /\ Resolved(h))
          /\ (\E v \in Verdicts : Ends(v)) \/ fetch' = [fetch EXCEPT !.phase = "request", !.op = op, !.url = h]
      BY <1>1, RefusalIsVerdict DEF ValidateFetch, Verdicts
    <2>2. fetch' \in CallRecords
      <3>1. CASE \E v \in Verdicts : Ends(v)
        BY <1>0, <3>1, EndsKeeps
      <3>2. CASE fetch' = [fetch EXCEPT !.phase = "request", !.op = op, !.url = h]
        BY <1>0, <3>2 DEF CallRecords, Phases, Operations
      <3> QED
        BY <2>1, <3>1, <3>2
    <2> QED
      BY <2>1, <2>2, PinnedFrame, PinnedAnswer
  <1>2. ASSUME NEW h \in Hosts, RedirectRequest(h) PROVE PinnedInv'
    <2>1. /\ UNCHANGED <<dns, dialled>>
          /\ \/ UNCHANGED <<targets, vetted>>
             \/ Refusal(h) = "none" /\ Resolved(h) /\ \E a \in dns[h] : targets' = [targets EXCEPT ![h] = a]
          /\ (\E v \in Verdicts : Ends(v)) \/ fetch' = [fetch EXCEPT !.phase = "open", !.url = h]
      BY <1>2, RefusalIsVerdict DEF RedirectRequest, Verdicts
    <2>2. fetch' \in CallRecords
      <3>1. CASE \E v \in Verdicts : Ends(v)
        BY <1>0, <3>1, EndsKeeps
      <3>2. CASE fetch' = [fetch EXCEPT !.phase = "open", !.url = h]
        BY <1>0, <3>2 DEF CallRecords, Phases
      <3> QED
        BY <2>1, <3>1, <3>2
    <2> QED
      BY <2>1, <2>2, PinnedFrame, PinnedAnswer
  <1>3. ASSUME NEW h \in Hosts, DnsChanges(h) PROVE PinnedInv'
    BY <1>3 DEF DnsChanges, PinnedInv
  <1>4. CASE FetchRequest
    <2>1. /\ UNCHANGED <<dns, dialled>>
          /\ \/ UNCHANGED <<targets, vetted>>
             \/ /\ Refusal(fetch.url) = "none" /\ Resolved(fetch.url)
                /\ \E a \in dns[fetch.url] : targets' = [targets EXCEPT ![fetch.url] = a]
          /\ (\E v \in Verdicts : Ends(v)) \/ fetch' = [fetch EXCEPT !.phase = "open"]
      BY <1>4, RefusalIsVerdict DEF FetchRequest
    <2>2. fetch' \in CallRecords
      <3>1. CASE \E v \in Verdicts : Ends(v)
        BY <1>0, <3>1, EndsKeeps
      <3>2. CASE fetch' = [fetch EXCEPT !.phase = "open"]
        BY <1>0, <3>2 DEF CallRecords, Phases
      <3> QED
        BY <2>1, <3>1, <3>2
    <2> QED
      BY <1>0, <2>1, <2>2, PinnedFrame, PinnedAnswer
  <1>5. CASE HttpsOpen
    <2>1. fetch' \in CallRecords
      BY <1>0, <1>5 DEF HttpsOpen, CallRecords, Phases
    <2>2. targets[fetch.url] \in vetted[fetch.url]
      BY <1>0, <1>5 DEF HttpsOpen, PinnedInv
    <2>3. UNCHANGED <<dns, targets, vetted>> /\ dialled' = dialled \cup {<<fetch.url, targets[fetch.url]>>}
      BY <1>5 DEF HttpsOpen
    <2>4. \A d \in dialled' : d[1] \in Hosts /\ d[2] \in vetted'[d[1]]
      BY <1>0, <2>2, <2>3 DEF PinnedInv
    <2> QED
      BY <2>1, <2>3, <2>4 DEF PinnedInv
  <1>6. ASSUME NEW sent \in 0..(Cap + 1), NEW size \in 0..(Cap + 1), NEW declared \in BOOLEAN, ReadBody(sent, size, declared)
        PROVE  PinnedInv'
    <2>1. /\ UNCHANGED <<dns, targets, dialled>>
          /\ UNCHANGED vetted \/ (Refusal(fetch.url) = "none" /\ Resolved(fetch.url))
          /\ (\E v \in Verdicts : Ends(v)) \/ fetch' = [fetch EXCEPT !.phase = "body", !.sent = sent, !.size = size]
      BY <1>6, RefusalIsVerdict DEF ReadBody, Verdicts
    <2>2. fetch' \in CallRecords
      <3>1. CASE \E v \in Verdicts : Ends(v)
        BY <1>0, <3>1, EndsKeeps
      <3>2. CASE fetch' = [fetch EXCEPT !.phase = "body", !.sent = sent, !.size = size]
        <4>1. sent \in Nat /\ size \in Nat
          BY <1>6, WebFetchAssumption
        <4> QED
          BY <1>0, <3>2, <4>1 DEF CallRecords, Phases
      <3> QED
        BY <2>1, <3>1, <3>2
    <2> QED
      BY <1>0, <2>1, <2>2, PinnedFrame, PinnedAnswer
  <1>7. ASSUME NEW v \in Verdicts, Ends(v), UNCHANGED <<dns, targets, vetted, dialled>> PROVE PinnedInv'
    BY <1>0, <1>7, EndsKeeps, PinnedFrame
  <1>8. ASSUME NEW code \in {"UNAVAILABLE", "TIMEOUT", "NOT_FOUND", "FORBIDDEN", "VALIDATION", "PROVIDER_ERROR"},
               AnswerFails(code)
        PROVE  PinnedInv'
    BY <1>7, <1>8 DEF AnswerFails, Verdicts
  <1>9. CASE NoCredentials \/ UseResults \/ UseText \/ ReportDownload \/ FetchDies
    BY <1>7, <1>9 DEF NoCredentials, SearchCodes, ResolveKey, UseResults, UseText, ReportDownload, FetchDies, Verdicts
  <1>10. CASE MakeTemp \/ WriteTemp \/ ReplaceFile
    <2>1. /\ UNCHANGED <<dns, targets, vetted, dialled>>
          /\ \/ \E v \in {"PROVIDER_ERROR", "FORBIDDEN"} : Ends(v)
             \/ \E p \in {"writing", "written", "replaced"} : fetch' = [fetch EXCEPT !.phase = p]
      BY <1>10 DEF MakeTemp, WriteTemp, ReplaceFile, WriteFails
    <2>2. ASSUME NEW p \in {"writing", "written", "replaced"}, fetch' = [fetch EXCEPT !.phase = p] PROVE PinnedInv'
      <3>1. fetch' \in CallRecords
        BY <1>0, <2>2 DEF CallRecords, Phases
      <3> QED
        BY <2>1, <3>1, PinnedFrame
    <2> QED
      BY <1>7, <2>1, <2>2 DEF Verdicts
  <1>11. CASE UNCHANGED fetchVars
    BY <1>0, <1>11, PinnedFrame DEF fetchVars
  <1> QED
    BY <1>1, <1>2, <1>3, <1>4, <1>5, <1>6, <1>8, <1>9, <1>10, <1>11 DEF FetchNext

\* For any hosts, however the name service answers and along every chain of
\* redirects, the provider connects only to public addresses it was itself given.
THEOREM ConnectionsArePinned == FetchSpec => []Pinned
  <1>1. PinnedInv => Pinned
    BY DEF PinnedInv, Pinned
  <1> QED
    BY PinnedInit, PinnedStep, <1>1, PTL DEF FetchSpec

\* Where a body is on its way to the path of a download: nothing is written
\* before it was read, within the cap; the temporary file that is put at the path
\* holds all that was read; and the path changes before the verdict OK alone.
FileInv ==
    /\ fetch.phase # "done" => fetch.verdict = "none"
    /\ fetch.phase \notin {"replaced", "done"} => file = "old"
    /\ fetch.phase \notin {"writing", "written", "done"} => temp = "none"
    /\ fetch.phase = "body" /\ fetch.op = "download" => fetch.size <= Cap
    /\ fetch.phase \in {"writing", "written", "replaced"} => fetch.op = "download" /\ fetch.size <= Cap
    /\ fetch.phase = "written" => temp = FetchedBody
    /\ fetch.phase = "replaced" => file = FetchedBody
    /\ ReadOrUntouched

\* What was read within the cap is not cut.
LEMMA BodyWithinCap ==
    ASSUME fetch \in CallRecords, fetch.size <= Cap
    PROVE  FetchedBody \in {"whole", "short"}
  BY WebFetchAssumption DEF CallRecords, FetchedBody

\* A step that leaves the sizes alone leaves the body alone.
LEMMA SameBody ==
    ASSUME fetch'.size = fetch.size, fetch'.sent = fetch.sent
    PROVE  FetchedBody' = FetchedBody
  BY DEF FetchedBody

\* A call that ends before the path has changed keeps what was there, unless it
\* reports a download.
LEMMA EndsUntouched ==
    ASSUME fetch \in CallRecords, FileInv, fetch.phase \notin {"replaced", "done"}, file' = file,
           NEW v \in Verdicts, Ends(v), v = "OK" => fetch.op # "download"
    PROVE  FileInv'
  <1>1. fetch'.phase = "done" /\ fetch'.verdict = v /\ fetch'.op = fetch.op
    BY DEF Ends, CallRecords
  <1>2. file' = "old"
    BY DEF FileInv
  <1> QED
    BY <1>1, <1>2 DEF FileInv, ReadOrUntouched

\* So does one that goes on towards a body.
LEMMA GoesOnUntouched ==
    ASSUME FileInv, fetch.phase \notin {"writing", "written", "replaced", "done"}, UNCHANGED <<file, temp>>,
           fetch'.phase \in {"request", "open", "answer", "body"}, fetch'.verdict = fetch.verdict,
           fetch'.phase = "body" /\ fetch'.op = "download" => fetch'.size <= Cap
    PROVE  FileInv'
  BY DEF FileInv, ReadOrUntouched

\* Every step of a call keeps the invariant.
LEMMA FileStep == ASSUME fetch \in CallRecords, FileInv, [FetchNext]_fetchVars PROVE FileInv'
  <1>1. ASSUME NEW h \in Hosts, NEW op \in {"search", "fetch", "download"}, ValidateFetch(op, h) PROVE FileInv'
    <2>1. /\ fetch.phase = "idle" /\ UNCHANGED <<file, temp>>
          /\ (\E v \in Verdicts \ {"OK"} : Ends(v)) \/ fetch' = [fetch EXCEPT !.phase = "request", !.op = op, !.url = h]
      BY <1>1 DEF ValidateFetch, Verdicts, Refusal
    <2>2. CASE fetch' = [fetch EXCEPT !.phase = "request", !.op = op, !.url = h]
      <3>1. fetch'.phase = "request" /\ fetch'.verdict = fetch.verdict
        BY <2>2 DEF CallRecords
      <3> QED
        BY <2>1, <3>1, GoesOnUntouched
    <2> QED
      BY <2>1, <2>2, EndsUntouched
  <1>2. ASSUME NEW h \in Hosts, RedirectRequest(h) PROVE FileInv'
    <2>1. /\ fetch.phase = "answer" /\ UNCHANGED <<file, temp>>
          /\ (\E v \in Verdicts \ {"OK"} : Ends(v)) \/ fetch' = [fetch EXCEPT !.phase = "open", !.url = h]
      BY <1>2 DEF RedirectRequest, Verdicts, Refusal
    <2>2. CASE fetch' = [fetch EXCEPT !.phase = "open", !.url = h]
      <3>1. fetch'.phase = "open" /\ fetch'.verdict = fetch.verdict
        BY <2>2 DEF CallRecords
      <3> QED
        BY <2>1, <3>1, GoesOnUntouched
    <2> QED
      BY <2>1, <2>2, EndsUntouched
  <1>3. CASE UNCHANGED <<fetch, file, temp>>
    <2>1. FetchedBody' = FetchedBody
      BY <1>3, SameBody
    <2> QED
      BY <1>3, <2>1 DEF FileInv, ReadOrUntouched
  <1>4. CASE FetchRequest \/ HttpsOpen
    <2>1. /\ fetch.phase \in {"request", "open"} /\ UNCHANGED <<file, temp>>
          /\ (\E v \in Verdicts \ {"OK"} : Ends(v)) \/ (\E p \in {"open", "answer"} : fetch' = [fetch EXCEPT !.phase = p])
      BY <1>4 DEF FetchRequest, HttpsOpen, Verdicts, Refusal
    <2>2. ASSUME NEW p \in {"open", "answer"}, fetch' = [fetch EXCEPT !.phase = p] PROVE FileInv'
      <3>1. fetch'.phase = p /\ fetch'.verdict = fetch.verdict
        BY <2>2 DEF CallRecords
      <3> QED
        BY <2>1, <3>1, GoesOnUntouched
    <2> QED
      BY <2>1, <2>2, EndsUntouched
  <1>5. ASSUME NEW code \in {"UNAVAILABLE", "TIMEOUT", "NOT_FOUND", "FORBIDDEN", "VALIDATION", "PROVIDER_ERROR"},
               AnswerFails(code)
        PROVE  FileInv'
    BY <1>5, EndsUntouched DEF AnswerFails, Verdicts
  <1>6. CASE NoCredentials \/ UseResults \/ UseText
    <2>1. /\ fetch.phase \in {"request", "body"} /\ fetch.op # "download" /\ UNCHANGED <<file, temp>>
          /\ \E v \in Verdicts : Ends(v)
      BY <1>6 DEF NoCredentials, SearchCodes, ResolveKey, UseResults, UseText, Verdicts
    <2> QED
      BY <2>1, EndsUntouched
  <1>7. ASSUME NEW sent \in 0..(Cap + 1), NEW size \in 0..(Cap + 1), NEW declared \in BOOLEAN, ReadBody(sent, size, declared)
        PROVE  FileInv'
    <2>1. /\ fetch.phase = "answer" /\ UNCHANGED <<file, temp>>
          /\ \/ \E v \in Verdicts \ {"OK"} : Ends(v)
             \/ /\ ~(fetch.op = "download" /\ size > Cap)
                /\ fetch' = [fetch EXCEPT !.phase = "body", !.sent = sent, !.size = size]
      BY <1>7 DEF ReadBody, Verdicts, Refusal
    <2>2. CASE /\ ~(fetch.op = "download" /\ size > Cap)
               /\ fetch' = [fetch EXCEPT !.phase = "body", !.sent = sent, !.size = size]
      <3>1. /\ fetch'.phase = "body" /\ fetch'.verdict = fetch.verdict /\ fetch'.size = size /\ fetch'.op = fetch.op
        BY <2>2 DEF CallRecords
      <3>2. fetch.op = "download" => size <= Cap
        BY <2>2, WebFetchAssumption
      <3> QED
        BY <2>1, <3>1, <3>2, GoesOnUntouched
    <2> QED
      BY <2>1, <2>2, EndsUntouched
  <1>8. ASSUME NEW p \in {"writing", "written", "replaced"}, fetch' = [fetch EXCEPT !.phase = p]
        PROVE  /\ fetch'.phase = p /\ fetch'.op = fetch.op /\ fetch'.verdict = fetch.verdict
               /\ fetch'.size = fetch.size /\ FetchedBody' = FetchedBody
    <2>1. /\ fetch'.phase = p /\ fetch'.op = fetch.op /\ fetch'.verdict = fetch.verdict
          /\ fetch'.size = fetch.size /\ fetch'.sent = fetch.sent
      BY <1>8 DEF CallRecords
    <2> QED
      BY <2>1, SameBody
  <1>9. ASSUME fetch.phase \in {"body", "writing", "written"}, fetch.op = "download", WriteFails PROVE FileInv'
    BY <1>9, EndsUntouched DEF WriteFails, Verdicts
  <1>10. CASE MakeTemp
    <2>1. fetch.phase = "body" /\ fetch.op = "download"
      BY <1>10 DEF MakeTemp
    <2>2. fetch.size <= Cap /\ file = "old" /\ fetch.verdict = "none"
      BY <2>1 DEF FileInv
    <2>3. CASE temp' = "part" /\ file' = file /\ fetch' = [fetch EXCEPT !.phase = "writing"]
      <3>1. /\ fetch'.phase = "writing" /\ fetch'.op = "download" /\ fetch'.verdict = "none"
            /\ fetch'.size <= Cap /\ file' = "old"
        BY <1>8, <2>1, <2>2, <2>3
      <3> QED
        BY <3>1 DEF FileInv, ReadOrUntouched
    <2>4. CASE Ends("FORBIDDEN") /\ file' = file
      BY <2>1, <2>4, EndsUntouched DEF Verdicts
    <2> QED
      BY <1>9, <1>10, <2>1, <2>3, <2>4 DEF MakeTemp
  <1>11. CASE WriteTemp
    <2>1. fetch.phase = "writing"
      BY <1>11 DEF WriteTemp
    <2>2. fetch.op = "download" /\ fetch.size <= Cap /\ file = "old" /\ fetch.verdict = "none"
      BY <2>1 DEF FileInv
    <2>3. CASE temp' = FetchedBody /\ file' = file /\ fetch' = [fetch EXCEPT !.phase = "written"]
      <3>1. /\ fetch'.phase = "written" /\ fetch'.op = "download" /\ fetch'.verdict = "none"
            /\ fetch'.size <= Cap /\ file' = "old" /\ temp' = FetchedBody'
        BY <1>8, <2>2, <2>3
      <3> QED
        BY <3>1 DEF FileInv, ReadOrUntouched
    <2> QED
      BY <1>9, <1>11, <2>1, <2>2, <2>3 DEF WriteTemp
  <1>12. CASE ReplaceFile
    <2>1. fetch.phase = "written"
      BY <1>12 DEF ReplaceFile
    <2>2. fetch.op = "download" /\ fetch.size <= Cap /\ fetch.verdict = "none" /\ temp = FetchedBody
      BY <2>1 DEF FileInv
    <2>3. CASE file' = temp /\ temp' = "none" /\ fetch' = [fetch EXCEPT !.phase = "replaced"]
      <3>1. /\ fetch'.phase = "replaced" /\ fetch'.op = "download" /\ fetch'.verdict = "none"
            /\ fetch'.size <= Cap /\ file' = FetchedBody' /\ temp' = "none"
        BY <1>8, <2>2, <2>3
      <3>2. file' \in {"whole", "short"}
        BY <2>2, <2>3, BodyWithinCap
      <3> QED
        BY <3>1, <3>2 DEF FileInv, ReadOrUntouched
    <2> QED
      BY <1>9, <1>12, <2>1, <2>2, <2>3 DEF ReplaceFile
  <1>13. CASE ReportDownload \/ FetchDies
    <2>1. PICK v \in {"OK", "dead"} : Ends(v) /\ (v = "OK" => fetch.phase = "replaced")
      BY <1>13 DEF ReportDownload, FetchDies
    <2>2. /\ fetch'.phase = "done" /\ fetch'.verdict = v /\ fetch'.op = fetch.op
          /\ fetch'.size = fetch.size /\ fetch'.sent = fetch.sent
      BY <2>1 DEF Ends, CallRecords
    <2>3. UNCHANGED <<file, temp>> /\ FetchedBody' = FetchedBody
      BY <1>13, <2>2, SameBody DEF ReportDownload, FetchDies
    <2>4. v = "OK" => file # "old" /\ temp = "none"
      <3>1. fetch.phase = "replaced" => FetchedBody \in {"whole", "short"}
        BY BodyWithinCap DEF FileInv
      <3> QED
        BY <2>1, <3>1 DEF FileInv
    <2> QED
      BY <2>2, <2>3, <2>4 DEF FileInv, ReadOrUntouched
  <1>14. ASSUME NEW h \in Hosts, DnsChanges(h) PROVE FileInv'
    BY <1>3, <1>14 DEF DnsChanges
  <1>15. CASE UNCHANGED fetchVars
    BY <1>3, <1>15 DEF fetchVars
  <1> QED
    BY <1>1, <1>2, <1>4, <1>5, <1>6, <1>7, <1>10, <1>11, <1>12, <1>13, <1>14, <1>15 DEF FetchNext

\* For every cap and every failure on the way: a download replaces the file by all
\* that arrived, within the cap, or leaves it, and its verdict says which
\* (_request, _atomic_write).
THEOREM DownloadsAreAtomic == FetchSpec => []ReadOrUntouched
  <1>1. FetchInit => FileInv
    BY DEF FetchInit, FileInv, ReadOrUntouched
  <1>2. PinnedInv => fetch \in CallRecords
    BY DEF PinnedInv
  <1>3. FileInv => ReadOrUntouched
    BY DEF FileInv
  <1>4. PinnedInv /\ FileInv /\ [FetchNext]_fetchVars => FileInv'
    BY <1>2, FileStep
  <1> QED
    BY PinnedInit, PinnedStep, <1>1, <1>3, <1>4, PTL DEF FetchSpec

-----------------------------------------------------------------------------
(* Fill steps *)

\* What the argument rests on: a password field is accepted with a reference
\* alone, a template is rendered from what was stored, and the provider takes
\* the vault's values only.
FillInv ==
    /\ step \in StepShapes /\ secretKey \in BOOLEAN
    /\ fillPhase \in {"defined", "accepted", "started", "rendered", "typed", "refused"}
    /\ fillPhase \in {"accepted", "started", "rendered", "typed"} => FillValid(step)
    /\ fillPhase = "rendered" => filled.text = Render(step.text) /\ filled.ref = Render(step.ref)
    /\ stored \in Arguments \cup {"redacted"}
    /\ SecretsByReference

\* Every step of a fill keeps it.
LEMMA FillStep == ASSUME FillInv, [FillNext]_fillVars PROVE FillInv'
  <1>1. CASE UNCHANGED fillVars
    BY <1>1 DEF fillVars, FillInv, FillValid, ReferenceShaped, Render, Lookup, SecretsByReference
  <1>2. CASE ValidateStep
    BY <1>2 DEF ValidateStep, FillInv, FillValid, ReferenceShaped, SecretsByReference
  <1>3. ASSUME NEW value \in Arguments, StartWith(value) PROVE FillInv'
    <2>1. /\ fillPhase = "accepted" /\ fillPhase' = "started" /\ stored' = RedactRunParams(value)
          /\ UNCHANGED <<step, secretKey, filled, typed>>
      BY <1>3 DEF StartWith
    <2>2. secretKey => stored' \in {"vault", "missing", "redacted"}
      BY <2>1 DEF RedactRunParams
    <2>3. stored' \in Arguments \cup {"redacted"}
      BY <2>1 DEF RedactRunParams
    <2> QED
      BY <2>1, <2>2, <2>3 DEF FillInv, FillValid, ReferenceShaped, SecretsByReference
  <1>4. CASE RenderStep
    <2>1. /\ fillPhase = "started" /\ fillPhase' \in {"refused", "rendered"} /\ UNCHANGED <<step, secretKey, stored, typed>>
          /\ filled'.text = Render(step.text) /\ filled'.ref = Render(step.ref)
      BY <1>4 DEF RenderStep
    <2> QED
      BY <2>1 DEF FillInv, FillValid, ReferenceShaped, SecretsByReference, Render, Lookup
  <1>5. CASE Fill
    <2>1. fillPhase = "rendered" /\ UNCHANGED <<step, secretKey, stored, filled>> /\ fillPhase' \in {"typed", "refused"}
      BY <1>5 DEF Fill
    <2>2. ASSUME fillPhase' = "typed", step.target = "password" PROVE typed' = "secret"
      <3>1. /\ filled.ref \in {"none", "vault"} /\ (filled.text = "none") # (filled.ref = "none")
            /\ typed' = IF filled.ref = "vault" THEN "secret" ELSE filled.text
        BY <1>5, <2>2 DEF Fill
      <3>2. step.ref # "none" /\ ReferenceShaped(step.ref)
        BY <2>1, <2>2 DEF FillInv, FillValid
      <3>3. filled.ref = Render(step.ref)
        BY <2>1 DEF FillInv
      <3>4. stored # "none"
        BY DEF FillInv, Arguments
      <3> QED
        BY <3>1, <3>2, <3>3, <3>4 DEF ReferenceShaped, Render, Lookup
    <2> QED
      BY <2>1, <2>2 DEF FillInv, FillValid, ReferenceShaped, SecretsByReference
  <1> QED
    BY <1>1, <1>2, <1>3, <1>4, <1>5 DEF FillNext

\* For every definition of the step and every parameter of the caller: a password
\* field gets a value of the vault, and no secret is stored with the run.
THEOREM SecretsStayReferences == FillSpec => []SecretsByReference
  <1>1. FillInit => FillInv
    BY DEF FillInit, FillInv, SecretsByReference, Arguments
  <1>2. FillInv /\ [FillNext]_fillVars => FillInv'
    BY FillStep
  <1>3. FillInv => SecretsByReference
    BY DEF FillInv
  <1> QED
    BY <1>1, <1>2, <1>3, PTL DEF FillSpec

-----------------------------------------------------------------------------
(* Workflow schedules *)

RowStates == {"absent", "open", "refused", "ended", "released", "leaked"}

CallerStates == [pc : {"idle", "claim", "create", "refuse", "advance"}, token : Tokens,
                 sched : BOOLEAN, at : Nat]

\* A caller that is about to advance the schedule has seen the run of its token,
\* and no run is ever forgotten.
OpsInv ==
    /\ opsNow \in 0..MaxOpsTime
    /\ runRows \in [Tokens -> RowStates]
    /\ caller \in [Callers -> CallerStates]
    /\ wfSchedule.next \in Nat \cup {NoValue}
    /\ \A c \in Callers : caller[c].pc = "advance" => runRows[caller[c].token] # "absent"

\* Where a caller rests.
LEMMA RestingState == Resting \in CallerStates /\ Resting.pc # "advance"
  BY OpsAssumption DEF Resting, CallerStates, Tokens

\* A step of one caller that forgets no run keeps the invariant.
LEMMA CallerMoves ==
    ASSUME OpsInv, NEW c \in Callers, NEW new \in CallerStates,
           caller' = [caller EXCEPT ![c] = new], UNCHANGED opsNow,
           wfSchedule'.next \in Nat \cup {NoValue},
           runRows' \in [Tokens -> RowStates],
           \A t \in Tokens : runRows[t] # "absent" => runRows'[t] # "absent",
           new.pc = "advance" => runRows'[new.token] # "absent"
    PROVE  OpsInv'
  <1>1. caller' \in [Callers -> CallerStates]
    BY DEF OpsInv
  <1>2. ASSUME NEW d \in Callers, caller'[d].pc = "advance" PROVE runRows'[caller'[d].token] # "absent"
    <2>1. CASE d = c
      BY <1>2, <2>1 DEF OpsInv
    <2>2. CASE d # c
      <3>1. caller'[d] = caller[d] /\ caller[d] \in CallerStates
        BY <2>2 DEF OpsInv
      <3>2. caller[d].token \in Tokens
        BY <3>1 DEF CallerStates
      <3> QED
        BY <1>2, <3>1, <3>2 DEF OpsInv
    <2> QED
      BY <2>1, <2>2
  <1>3. opsNow' \in 0..MaxOpsTime
    BY DEF OpsInv
  <1> QED
    BY <1>1, <1>2, <1>3 DEF OpsInv

\* A step of no caller that forgets no run keeps it.
LEMMA CallersRest ==
    ASSUME OpsInv, UNCHANGED caller, opsNow' \in 0..MaxOpsTime,
           wfSchedule'.next \in Nat \cup {NoValue},
           runRows' \in [Tokens -> RowStates],
           \A t \in Tokens : runRows[t] # "absent" => runRows'[t] # "absent"
    PROVE  OpsInv'
  <1>1. \A c \in Callers : caller[c].token \in Tokens
    BY DEF OpsInv, CallerStates
  <1> QED
    BY <1>1 DEF OpsInv

\* Inserting a run row, or finding it there.
LEMMA InsertKeeps ==
    ASSUME OpsInv, NEW c \in Callers, NEW status \in RowStates \ {"absent"}, NEW claimed,
           InsertRun(c, status, claimed)
    PROVE  OpsInv'
  <1>1. PICK token \in Tokens : token = caller[c].token
    BY DEF OpsInv, CallerStates
  <1>2. UNCHANGED <<opsNow, wfSchedule>>
    BY DEF InsertRun
  <1>3. caller[c] \in CallerStates
    BY DEF OpsInv
  <1>4. wfSchedule'.next \in Nat \cup {NoValue}
    BY <1>2 DEF OpsInv
  <1>5. CASE runRows[token] = "absent"
    <2>1. runRows' = [runRows EXCEPT ![token] = status]
      BY <1>1, <1>5 DEF InsertRun
    <2>2. runRows' \in [Tokens -> RowStates] /\ \A t \in Tokens : runRows[t] # "absent" => runRows'[t] # "absent"
      BY <2>1 DEF OpsInv
    <2>3. CASE caller[c].sched
      <3>1. caller' = [caller EXCEPT ![c] = [@ EXCEPT !.pc = "advance"]]
        BY <1>1, <1>5, <2>3 DEF InsertRun, Return
      <3>2. PICK new : new = [caller[c] EXCEPT !.pc = "advance"]
        OBVIOUS
      <3>3. new \in CallerStates /\ new.token = token
        BY <1>1, <1>3, <3>2 DEF CallerStates
      <3>4. runRows'[new.token] # "absent"
        BY <2>1, <3>3 DEF OpsInv
      <3>5. caller' = [caller EXCEPT ![c] = new]
        BY <3>1, <3>2
      <3> QED
        BY <1>2, <1>4, <2>2, <3>3, <3>4, <3>5, CallerMoves
    <2>4. CASE ~caller[c].sched
      <3>1. caller' = [caller EXCEPT ![c] = Resting]
        BY <1>1, <1>5, <2>4 DEF InsertRun, Return
      <3> QED
        BY <1>2, <1>4, <2>2, <3>1, RestingState, CallerMoves
    <2> QED
      BY <2>3, <2>4
  <1>6. CASE runRows[token] # "absent"
    <2>1. caller' = [caller EXCEPT ![c] = Resting] /\ UNCHANGED runRows
      BY <1>1, <1>6 DEF InsertRun, Return
    <2>2. runRows' \in [Tokens -> RowStates] /\ \A t \in Tokens : runRows[t] # "absent" => runRows'[t] # "absent"
      BY <2>1 DEF OpsInv
    <2> QED
      BY <1>2, <1>4, <2>1, <2>2, RestingState, CallerMoves
  <1> QED
    BY <1>5, <1>6

\* Every step of the operations layer keeps it.
LEMMA OpsStep == ASSUME OpsInv, [OpsNext]_opsVars PROVE OpsInv'
  <1>0. runRows \in [Tokens -> RowStates] /\ opsNow \in 0..MaxOpsTime /\ wfSchedule.next \in Nat \cup {NoValue}
    BY DEF OpsInv
  <1>1. CASE UNCHANGED opsVars
    BY <1>0, <1>1, CallersRest DEF opsVars
  <1>2. ASSUME NEW c \in Callers, ClaimStart(c) PROVE OpsInv'
    <2>1. PICK pc \in {"create", "refuse"} : caller' = [caller EXCEPT ![c].pc = pc]
      BY <1>2 DEF ClaimStart
    <2>2. UNCHANGED <<opsNow, runRows, wfSchedule>>
      BY <1>2 DEF ClaimStart
    <2>3. PICK new : new = [caller[c] EXCEPT !.pc = pc]
      OBVIOUS
    <2>4. caller[c] \in CallerStates
      BY DEF OpsInv
    <2>5. new \in CallerStates /\ new.pc # "advance"
      BY <2>3, <2>4 DEF CallerStates
    <2>6. caller' = [caller EXCEPT ![c] = new]
      BY <2>1, <2>3
    <2> QED
      BY <1>0, <2>2, <2>5, <2>6, CallerMoves
  <1>3. ASSUME NEW c \in Callers, NEW token \in Actors, Start(c, token) PROVE OpsInv'
    <2>1. PICK new : new = [Resting EXCEPT !.pc = "claim", !.token = token]
      OBVIOUS
    <2>2. new \in CallerStates /\ new.pc # "advance"
      BY <2>1, RestingState DEF CallerStates, Tokens
    <2>3. caller' = [caller EXCEPT ![c] = new] /\ UNCHANGED <<opsNow, runRows, wfSchedule>>
      BY <1>3, <2>1 DEF Start
    <2> QED
      BY <1>0, <2>2, <2>3, CallerMoves
  <1>4. ASSUME NEW c \in Callers, CreateRun(c) \/ CreateFailedRun(c) PROVE OpsInv'
    BY <1>4, InsertKeeps DEF CreateRun, CreateFailedRun, RowStates
  <1>5. ASSUME NEW c \in Callers, OpsTick(c) PROVE OpsInv'
    <2>1. PICK due : due = wfSchedule.next
      OBVIOUS
    <2>2. due \in 0..MaxOpsTime
      BY <1>0, <1>5, <2>1, OpsAssumption DEF OpsTick
    <2>3. PICK new : new = [pc |-> IF runRows[due] = "absent" THEN "claim" ELSE "advance",
                            token |-> due, sched |-> TRUE, at |-> opsNow]
      OBVIOUS
    <2>4. new \in CallerStates /\ (new.pc = "advance" => runRows[new.token] # "absent")
      BY <1>0, <2>2, <2>3 DEF CallerStates, Tokens
    <2>5. caller' = [caller EXCEPT ![c] = new] /\ UNCHANGED <<opsNow, runRows, wfSchedule>>
      BY <1>5, <2>1, <2>3 DEF OpsTick
    <2> QED
      BY <1>0, <2>4, <2>5, CallerMoves
  <1>6. ASSUME NEW c \in Callers, AdvanceSchedule(c) PROVE OpsInv'
    <2>1. caller' = [caller EXCEPT ![c] = Resting] /\ UNCHANGED <<opsNow, runRows>>
      BY <1>6 DEF AdvanceSchedule, Return
    <2>2. caller[c].at \in Nat
      BY DEF OpsInv, CallerStates
    <2>3. wfSchedule'.next \in Nat \cup {NoValue}
      <3>1. CASE wfSchedule.row = "there"
        <4>1. PICK next \in {caller[c].at + Every, NoValue} : wfSchedule' = [wfSchedule EXCEPT !.next = next]
          BY <1>6, <3>1 DEF AdvanceSchedule
        <4>2. next \in Nat \cup {NoValue}
          BY <2>2, <4>1, OpsAssumption
        <4> QED
          BY <1>0, <4>1, <4>2
      <3>2. CASE wfSchedule.row # "there"
        BY <1>0, <1>6, <3>2 DEF AdvanceSchedule
      <3> QED
        BY <3>1, <3>2
    <2> QED
      BY <1>0, <2>1, <2>3, RestingState, CallerMoves
  <1>7. ASSUME NEW token \in Tokens, EndRun(token) PROVE OpsInv'
    <2>1. runRows' = [runRows EXCEPT ![token] = "ended"] /\ UNCHANGED <<opsNow, caller, wfSchedule>>
      BY <1>7 DEF EndRun
    <2>2. runRows' \in [Tokens -> RowStates] /\ \A t \in Tokens : runRows[t] # "absent" => runRows'[t] # "absent"
      BY <1>0, <2>1 DEF RowStates
    <2> QED
      BY <1>0, <2>1, <2>2, CallersRest
  <1>8. ASSUME NEW token \in Tokens, NEW times \in 1..2, ReleaseStart(token, times) PROVE OpsInv'
    <2>1. runRows' = [runRows EXCEPT ![token] = "released"] /\ UNCHANGED <<opsNow, caller, wfSchedule>>
      BY <1>8 DEF ReleaseStart
    <2>2. runRows' \in [Tokens -> RowStates] /\ \A t \in Tokens : runRows[t] # "absent" => runRows'[t] # "absent"
      BY <1>0, <2>1 DEF RowStates
    <2> QED
      BY <1>0, <2>1, <2>2, CallersRest
  <1>9. ASSUME NEW enabled \in BOOLEAN, CreateSchedule(enabled) \/ UpdateSchedule(enabled) PROVE OpsInv'
    <2>1. UNCHANGED <<opsNow, runRows, caller>>
      BY <1>9 DEF CreateSchedule, UpdateSchedule
    <2>2. PICK next : next = IF enabled THEN opsNow + Every ELSE NoValue
      OBVIOUS
    <2>3. next \in Nat \cup {NoValue}
      BY <1>0, <2>2, OpsAssumption
    <2>4. CASE CreateSchedule(enabled)
      BY <1>0, <2>1, <2>2, <2>3, <2>4, CallersRest DEF CreateSchedule
    <2>5. CASE UpdateSchedule(enabled)
      <3>1. wfSchedule' = [wfSchedule EXCEPT !.enabled = enabled, !.next = next]
        BY <2>2, <2>5 DEF UpdateSchedule
      <3>2. wfSchedule'.next \in Nat \cup {NoValue}
        BY <1>0, <2>3, <3>1
      <3> QED
        BY <1>0, <2>1, <3>2, CallersRest
    <2> QED
      BY <1>9, <2>4, <2>5
  <1>10. CASE DeleteSchedule
    <2>1. UNCHANGED <<opsNow, runRows, caller>> /\ wfSchedule'.next = NoValue
      BY <1>10 DEF DeleteSchedule, NoSchedule
    <2> QED
      BY <1>0, <2>1, CallersRest
  <1>11. CASE OpsTime
    <2>1. UNCHANGED <<runRows, caller, wfSchedule>> /\ opsNow' \in 0..MaxOpsTime
      BY <1>0, <1>11, OpsAssumption DEF OpsTime
    <2> QED
      BY <1>0, <2>1, CallersRest
  <1>12. CASE OpsCrash
    <2>1. /\ caller' = [c \in Callers |-> Resting] /\ UNCHANGED <<opsNow, wfSchedule>>
          /\ runRows' = [t \in Tokens |-> IF runRows[t] = "ended" THEN "leaked" ELSE runRows[t]]
      BY <1>12 DEF OpsCrash
    <2>2. runRows' \in [Tokens -> RowStates]
      BY <1>0, <2>1 DEF RowStates
    <2>3. caller' \in [Callers -> CallerStates] /\ \A c \in Callers : caller'[c].pc # "advance"
      BY <2>1, RestingState
    <2> QED
      BY <1>0, <2>1, <2>2, <2>3 DEF OpsInv
  <1> QED
    BY <1>1, <1>2, <1>3, <1>4, <1>5, <1>6, <1>7, <1>8, <1>9, <1>10, <1>11, <1>12 DEF OpsNext

\* What a tick that nothing overlapped may count on: no other tick is under way,
\* and the schedule is where it found it, or was edited since and then is due no
\* earlier than the tick will set it.
TickInv ==
    /\ \A c \in Callers : caller[c].pc = "advance" => caller[c].sched
    /\ \A c \in Callers \ overlapped : caller[c].sched =>
         /\ \A d \in Callers : caller[d].sched => d = c
         /\ caller[c].at <= opsNow
         /\ \/ wfSchedule.next = NoValue
            \/ wfSchedule.next = caller[c].token
            \/ wfSchedule.next >= caller[c].at + Every

\* A step that begins no tick, and moves the schedule on under no such tick unless
\* by an edit, keeps this.
LEMMA TickFrame ==
    ASSUME OpsInv, TickInv, overlapped' = overlapped, opsNow' \in Nat, opsNow' >= opsNow,
           \A c \in Callers : caller'[c].sched => /\ caller[c].sched
                                                 /\ caller'[c].token = caller[c].token
                                                 /\ caller'[c].at = caller[c].at,
           \A c \in Callers : caller'[c].pc = "advance" => caller'[c].sched,
           wfSchedule'.next \in Nat \cup {NoValue},
           \A c \in Callers \ overlapped : caller'[c].sched =>
                \/ wfSchedule'.next = wfSchedule.next \/ wfSchedule'.next = NoValue
                \/ wfSchedule'.next >= opsNow + Every
    PROVE  TickInv'
  <1>1. ASSUME NEW c \in Callers \ overlapped', caller'[c].sched
        PROVE  /\ \A d \in Callers : caller'[d].sched => d = c
               /\ caller'[c].at <= opsNow'
               /\ \/ wfSchedule'.next = NoValue
                  \/ wfSchedule'.next = caller'[c].token
                  \/ wfSchedule'.next >= caller'[c].at + Every
    <2>1. c \in Callers \ overlapped /\ caller[c].sched /\ caller'[c].token = caller[c].token /\ caller'[c].at = caller[c].at
      BY <1>1
    <2>2. /\ \A d \in Callers : caller[d].sched => d = c
          /\ caller[c].at <= opsNow
          /\ \/ wfSchedule.next = NoValue
             \/ wfSchedule.next = caller[c].token
             \/ wfSchedule.next >= caller[c].at + Every
      BY <2>1 DEF TickInv
    <2>3. caller[c].at \in Nat /\ opsNow \in Nat /\ Every \in Nat
      BY <2>1, OpsAssumption DEF OpsInv, CallerStates
    <2>4. \A d \in Callers : caller'[d].sched => d = c
      BY <2>2
    <2>5. caller'[c].at <= opsNow'
      BY <2>1, <2>2, <2>3
    <2>6. \/ wfSchedule'.next = wfSchedule.next \/ wfSchedule'.next = NoValue
          \/ wfSchedule'.next >= opsNow + Every
      BY <1>1, <2>1
    <2>7. ASSUME wfSchedule'.next >= opsNow + Every, wfSchedule'.next # NoValue
          PROVE  wfSchedule'.next >= caller'[c].at + Every
      <3>1. wfSchedule'.next \in Nat
        BY <2>7
      <3> QED
        BY <2>1, <2>2, <2>3, <2>7, <3>1
    <2> QED
      BY <2>1, <2>2, <2>4, <2>5, <2>6, <2>7
  <1> QED
    BY <1>1 DEF TickInv

\* A tick begins.
LEMMA TickBegins == ASSUME OpsInv, TickInv, NEW c \in Callers, OpsTick(c) PROVE TickInv'
  <1>1. PICK others \in SUBSET Callers : others = {d \in Callers \ {c} : caller[d].sched}
    OBVIOUS
  <1>2. /\ overlapped' = IF others = {} THEN overlapped \ {c} ELSE overlapped \cup others \cup {c}
        /\ UNCHANGED <<opsNow, wfSchedule>>
    BY <1>1 DEF OpsTick
  <1>3. PICK new : new = [pc |-> IF runRows[wfSchedule.next] = "absent" THEN "claim" ELSE "advance",
                          token |-> wfSchedule.next, sched |-> TRUE, at |-> opsNow]
    OBVIOUS
  <1>4. caller'[c] = new /\ \A d \in Callers \ {c} : caller'[d] = caller[d]
    BY <1>3 DEF OpsInv, OpsTick
  <1>5. ASSUME NEW d \in Callers, caller'[d].pc = "advance" PROVE caller'[d].sched
    BY <1>3, <1>4, <1>5 DEF TickInv
  <1>6. ASSUME NEW d \in Callers \ overlapped', caller'[d].sched
        PROVE  d = c /\ \A e \in Callers : caller'[e].sched => e = c
    <2>1. d = c
      <3>1. SUFFICES ASSUME d # c PROVE FALSE
        OBVIOUS
      <3>2. d \in others
        BY <1>1, <1>4, <1>6, <3>1
      <3> QED
        BY <1>2, <1>6, <3>2
    <2>2. others = {}
      BY <1>2, <1>6, <2>1
    <2> QED
      BY <1>1, <1>4, <2>1, <2>2
  <1>7. caller'[c].at <= opsNow' /\ wfSchedule'.next = caller'[c].token
    <2>1. opsNow \in Int
      BY OpsAssumption DEF OpsInv
    <2> QED
      BY <1>2, <1>3, <1>4, <2>1
  <1> QED
    BY <1>5, <1>6, <1>7 DEF TickInv

\* Every step of the operations layer keeps it.
LEMMA TickStep == ASSUME OpsInv, TickInv, [OpsNext]_opsVars PROVE TickInv'
  <1>0. /\ opsNow \in Nat /\ wfSchedule.next \in Nat \cup {NoValue} /\ Every \in Nat
        /\ caller \in [Callers -> CallerStates]
    BY OpsAssumption DEF OpsInv
  <1>1. ASSUME overlapped' = overlapped, opsNow' \in Nat, opsNow' >= opsNow, UNCHANGED caller,
               wfSchedule'.next \in Nat \cup {NoValue},
               \/ wfSchedule'.next = wfSchedule.next \/ wfSchedule'.next = NoValue
               \/ wfSchedule'.next >= opsNow + Every
        PROVE  TickInv'
    <2>1. \A c \in Callers : caller'[c].pc = "advance" => caller'[c].sched
      BY <1>1 DEF TickInv
    <2> QED
      BY <1>1, <2>1, TickFrame
  <1>2. CASE UNCHANGED opsVars
    BY <1>0, <1>1, <1>2 DEF opsVars
  <1>3. ASSUME NEW c \in Callers, NEW new, caller' = [caller EXCEPT ![c] = new],
               new.sched => caller[c].sched /\ new.token = caller[c].token /\ new.at = caller[c].at,
               new.pc = "advance" => new.sched,
               UNCHANGED <<opsNow, wfSchedule, overlapped>>
        PROVE  TickInv'
    <2>1. caller'[c] = new /\ \A d \in Callers \ {c} : caller'[d] = caller[d]
      BY <1>0, <1>3
    <2>2. \A d \in Callers : caller'[d].sched => /\ caller[d].sched
                                                 /\ caller'[d].token = caller[d].token
                                                 /\ caller'[d].at = caller[d].at
      BY <1>3, <2>1
    <2>3. \A d \in Callers : caller'[d].pc = "advance" => caller'[d].sched
      BY <1>3, <2>1 DEF TickInv
    <2> QED
      BY <1>0, <1>3, <2>2, <2>3, TickFrame
  <1>4. ~Resting.sched /\ Resting.pc # "advance"
    BY DEF Resting
  <1>5. ASSUME NEW c \in Callers, ClaimStart(c) PROVE TickInv'
    <2>1. PICK pc \in {"create", "refuse"} : caller' = [caller EXCEPT ![c].pc = pc]
      BY <1>5 DEF ClaimStart
    <2>2. PICK new : new = [caller[c] EXCEPT !.pc = pc]
      OBVIOUS
    <2>3. new.pc = pc /\ new.sched = caller[c].sched /\ new.token = caller[c].token /\ new.at = caller[c].at
      BY <1>0, <2>2 DEF CallerStates
    <2>4. caller' = [caller EXCEPT ![c] = new] /\ UNCHANGED <<opsNow, wfSchedule, overlapped>>
      BY <1>5, <2>1, <2>2 DEF ClaimStart
    <2> QED
      BY <1>3, <2>1, <2>3, <2>4
  <1>6. ASSUME NEW c \in Callers, NEW token \in Actors, Start(c, token) PROVE TickInv'
    <2>1. PICK new : new = [Resting EXCEPT !.pc = "claim", !.token = token]
      OBVIOUS
    <2>2. ~new.sched /\ new.pc # "advance"
      BY <2>1 DEF Resting
    <2>3. caller' = [caller EXCEPT ![c] = new] /\ UNCHANGED <<opsNow, wfSchedule, overlapped>>
      BY <1>6, <2>1 DEF Start
    <2> QED
      BY <1>3, <2>2, <2>3
  <1>7. ASSUME NEW c \in Callers, CreateRun(c) \/ CreateFailedRun(c) PROVE TickInv'
    <2>1. UNCHANGED <<opsNow, wfSchedule, overlapped>>
      BY <1>7 DEF CreateRun, CreateFailedRun, InsertRun
    <2>2. \/ caller' = [caller EXCEPT ![c] = Resting]
          \/ caller[c].sched /\ caller' = [caller EXCEPT ![c] = [@ EXCEPT !.pc = "advance"]]
      BY <1>7 DEF CreateRun, CreateFailedRun, InsertRun, Return
    <2>3. CASE caller[c].sched /\ caller' = [caller EXCEPT ![c] = [@ EXCEPT !.pc = "advance"]]
      <3>1. PICK new : new = [caller[c] EXCEPT !.pc = "advance"]
        OBVIOUS
      <3>2. new.sched = caller[c].sched /\ new.token = caller[c].token /\ new.at = caller[c].at
        BY <1>0, <3>1 DEF CallerStates
      <3>3. caller' = [caller EXCEPT ![c] = new]
        BY <2>3, <3>1
      <3> QED
        BY <1>3, <2>1, <2>3, <3>2, <3>3
    <2> QED
      BY <1>3, <1>4, <2>1, <2>2, <2>3
  <1>8. ASSUME NEW c \in Callers, AdvanceSchedule(c) PROVE TickInv'
    <2>1. /\ caller' = [caller EXCEPT ![c] = Resting] /\ caller[c].pc = "advance"
          /\ UNCHANGED <<opsNow, overlapped>>
      BY <1>8 DEF AdvanceSchedule, Return
    <2>2. caller'[c] = Resting /\ \A d \in Callers \ {c} : caller'[d] = caller[d]
      BY <1>0, <2>1
    <2>3. caller[c].sched
      BY <2>1 DEF TickInv
    <2>4. \A d \in Callers \ overlapped : ~caller'[d].sched
      BY <1>4, <2>2, <2>3 DEF TickInv
    <2>5. \A d \in Callers : caller'[d].pc = "advance" => caller'[d].sched
      BY <1>4, <2>2 DEF TickInv
    <2> QED
      BY <2>1, <2>4, <2>5 DEF TickInv
  <1>9. ASSUME NEW token \in Tokens, NEW times \in 1..2, ReleaseStart(token, times) PROVE TickInv'
    BY <1>0, <1>1, <1>9 DEF ReleaseStart
  <1>10. ASSUME NEW enabled \in BOOLEAN, CreateSchedule(enabled) \/ UpdateSchedule(enabled) PROVE TickInv'
    <2>1. UNCHANGED <<opsNow, caller, overlapped>>
      BY <1>10 DEF CreateSchedule, UpdateSchedule
    <2>2. wfSchedule'.next \in {opsNow + Every, NoValue, wfSchedule.next}
      <3>1. CASE CreateSchedule(enabled)
        BY <3>1 DEF CreateSchedule
      <3>2. CASE UpdateSchedule(enabled)
        <4>1. PICK next \in {opsNow + Every, NoValue} : next = IF enabled THEN opsNow + Every ELSE NoValue
          OBVIOUS
        <4>2. wfSchedule' = [wfSchedule EXCEPT !.enabled = enabled, !.next = next]
          BY <3>2, <4>1 DEF UpdateSchedule
        <4> QED
          BY <4>2
      <3> QED
        BY <1>10, <3>1, <3>2
    <2>3. opsNow + Every \in Nat
      BY <1>0
    <2> QED
      BY <1>0, <1>1, <2>1, <2>2, <2>3
  <1>11. CASE DeleteSchedule
    <2>1. UNCHANGED <<opsNow, caller, overlapped>> /\ wfSchedule'.next = NoValue
      BY <1>11 DEF DeleteSchedule, NoSchedule
    <2> QED
      BY <1>0, <1>1, <2>1
  <1>12. CASE OpsTime
    <2>1. UNCHANGED <<caller, overlapped, wfSchedule>> /\ opsNow' = opsNow + 1
      BY <1>12 DEF OpsTime
    <2> QED
      BY <1>0, <1>1, <2>1
  <1>13. CASE OpsCrash
    <2>1. \A c \in Callers : caller'[c] = Resting
      BY <1>13 DEF OpsCrash
    <2> QED
      BY <1>4, <2>1 DEF TickInv
  <1>14. ASSUME NEW c \in Callers, OpsTick(c) PROVE TickInv'
    BY <1>14, TickBegins
  <1>15. ASSUME NEW token \in Tokens, EndRun(token) PROVE TickInv'
    BY <1>0, <1>1, <1>15 DEF EndRun
  <1> QED
    BY <1>2, <1>5, <1>6, <1>7, <1>8, <1>9, <1>10, <1>11, <1>12, <1>13, <1>14, <1>15 DEF OpsNext

\* The advance of a tick that nothing overlapped finds its own instant, which has a
\* run, or an edited one that is no earlier than what it writes.
LEMMA DueStep ==
    ASSUME OpsInv, TickInv, [OpsNext]_opsVars, NEW c \in Callers \ overlapped,
           DueWithoutRun, caller'[c] # caller[c]
    PROVE  wfSchedule'.next = NoValue \/ wfSchedule'.next <= opsNow
  <1>0. /\ opsNow \in Nat /\ wfSchedule.next \in Nat /\ wfSchedule.next <= opsNow
        /\ runRows[wfSchedule.next] = "absent" /\ caller \in [Callers -> CallerStates]
    BY OpsAssumption DEF OpsInv, DueWithoutRun
  <1>1. ASSUME NEW d \in Callers, AdvanceSchedule(d) PROVE wfSchedule'.next = NoValue \/ wfSchedule'.next <= opsNow
    <2>1. caller' = [caller EXCEPT ![d] = Resting] /\ caller[d].pc = "advance"
      BY <1>1 DEF AdvanceSchedule, Return
    <2>2. c = d
      BY <1>0, <2>1
    <2>3. caller[c].sched /\ runRows[caller[c].token] # "absent"
      BY <2>1, <2>2 DEF OpsInv, TickInv
    <2>4. wfSchedule.next >= caller[c].at + Every
      <3>1. wfSchedule.next # NoValue
        BY DEF DueWithoutRun
      <3> QED
        BY <1>0, <2>3, <3>1 DEF TickInv
    <2>5. caller[c].at \in Nat /\ Every \in Nat
      BY <1>0, OpsAssumption DEF CallerStates
    <2>6. CASE wfSchedule.row = "there"
      <3>1. PICK next \in {caller[c].at + Every, NoValue} : wfSchedule' = [wfSchedule EXCEPT !.next = next]
        BY <1>1, <2>2, <2>6 DEF AdvanceSchedule
      <3>2. caller[c].at + Every <= opsNow
        BY <1>0, <2>4, <2>5
      <3>3. wfSchedule'.next = next \/ wfSchedule'.next = wfSchedule.next
        BY <3>1
      <3> QED
        BY <1>0, <3>1, <3>2, <3>3
    <2>7. CASE wfSchedule.row # "there"
      BY <1>0, <1>1, <2>7 DEF AdvanceSchedule
    <2> QED
      BY <2>6, <2>7
  <1>2. ASSUME NEW d \in Callers, ClaimStart(d) \/ CreateRun(d) \/ CreateFailedRun(d) \/ OpsTick(d)
        PROVE  wfSchedule' = wfSchedule
    BY <1>2 DEF ClaimStart, CreateRun, CreateFailedRun, InsertRun, OpsTick
  <1>3. ASSUME NEW d \in Callers, NEW token \in Actors, Start(d, token) PROVE wfSchedule' = wfSchedule
    BY <1>3 DEF Start
  <1>4. ASSUME NEW token \in Tokens PROVE EndRun(token) \/ (\E times \in 1..2 : ReleaseStart(token, times)) => FALSE
    BY DEF EndRun, ReleaseStart
  <1>5. ASSUME NEW enabled \in BOOLEAN, CreateSchedule(enabled) \/ UpdateSchedule(enabled) PROVE FALSE
    BY <1>5 DEF CreateSchedule, UpdateSchedule
  <1>6. DeleteSchedule => FALSE
    BY DEF DeleteSchedule
  <1>7. OpsTime \/ OpsCrash \/ UNCHANGED opsVars => wfSchedule' = wfSchedule
    BY DEF OpsTime, OpsCrash, opsVars
  <1> QED
    BY <1>0, <1>1, <1>2, <1>3, <1>4, <1>5, <1>6, <1>7 DEF OpsNext

\* For any number of callers and actors, crashes anywhere and edits at any time: a
\* tick that no other tick overlapped never puts a due schedule off before the
\* instant it is due for has its run (WorkflowScheduleService.tick).
THEOREM DueNeverSkipped == OpsSpec => NoDueSkipped
  <1>1. OpsInit => OpsInv /\ TickInv
    <2> SUFFICES ASSUME OpsInit PROVE OpsInv /\ TickInv
      OBVIOUS
    <2>1. OpsInv
      BY OpsAssumption, RestingState DEF OpsInit, OpsInv, RowStates, NoSchedule
    <2>2. \A c \in Callers : caller[c] = Resting
      BY DEF OpsInit
    <2>3. TickInv
      BY <2>2 DEF Resting, TickInv
    <2> QED
      BY <2>1, <2>3
  <1>2. OpsInv /\ TickInv /\ [OpsNext]_opsVars => OpsInv' /\ TickInv'
    BY OpsStep, TickStep
  <1>3. OpsInv /\ TickInv /\ [OpsNext]_opsVars
        => [\A c \in Callers \ overlapped : DueWithoutRun /\ caller'[c] # caller[c]
              => wfSchedule'.next = NoValue \/ wfSchedule'.next <= opsNow]_opsVars
    BY DueStep
  <1> QED
    BY <1>1, <1>2, <1>3, PTL DEF OpsSpec, NoDueSkipped

-----------------------------------------------------------------------------
(* Element references *)

\* The tabs a session has open.
OpenTabs(s) == IF pages[s] = NoPage THEN {} ELSE DOMAIN pages[s].tabs

\* Contexts are records, and their tabs have tokens that were given out.
PagesShape ==
    /\ tabCount \in Nat
    /\ DOMAIN pages = PageSessions
    /\ \A s \in PageSessions :
         /\ pages[s] # NoPage => pages[s] = [tabs |-> pages[s].tabs, active |-> pages[s].active]
         /\ OpenTabs(s) \subseteq 1..tabCount

\* The registry: what it holds was issued to its session; no reference is newer
\* than the generation of its open tab; and one of the current generation has
\* not been spoiled.
Registry ==
    /\ DOMAIN generations = PageSessions /\ DOMAIN refs = PageSessions
    /\ \A s \in PageSessions : generations[s] \in [1..MaxTabs -> Nat]
    /\ spoiled \subseteq issued
    /\ \A r \in issued : r.tab \in 1..tabCount
    /\ \A s \in PageSessions : \A r \in refs[s] : r \in issued /\ r.session = s
    /\ \A r \in issued : r.session \in PageSessions /\ r.generation \in Nat
    /\ \A r \in issued : r.tab \in OpenTabs(r.session) => r.generation <= generations[r.session][r.tab]
    /\ \A s \in PageSessions : \A r \in refs[s] :
         r.tab \in OpenTabs(s) /\ r.generation = generations[s][r.tab] => r \notin spoiled

RefsInv == PagesShape /\ tabCount <= MaxTabs /\ Registry /\ RefsDie

\* A reference that resolves is the session's own and good.
LEMMA ResolvedIsGood ==
    ASSUME RefsInv, NEW s \in PageSessions, NEW r \in issued, Live(s), r \in refs[s], CheckScope(s, r)
    PROVE  r.session = s /\ r \notin (spoiled \cup expired)
  <1>1. r.tab \in OpenTabs(s) /\ r.generation = generations[s][r.tab] /\ r \notin expired
    BY DEF Live, CheckScope, Active, OpenTabs
  <1> QED
    BY <1>1 DEF RefsInv, Registry

\* A step that changes nothing but pages keeps the registry, when the tabs it
\* opens have new tokens.
LEMMA PagesMove ==
    ASSUME RefsInv, UNCHANGED <<generations, refs, issued, spoiled>>,
           tabCount' \in Nat, tabCount <= tabCount',
           \A s \in PageSessions : OpenTabs(s)' \subseteq OpenTabs(s) \cup ((tabCount + 1)..tabCount')
    PROVE  Registry'
  <1>0. Registry /\ tabCount \in Nat
    BY DEF RefsInv, PagesShape
  <1>1. \A r \in issued : r.tab \in 1..tabCount /\ r.tab \in 1..tabCount'
    BY <1>0 DEF Registry
  <1>2. \A s \in PageSessions : \A r \in issued : r.tab \in OpenTabs(s)' => r.tab \in OpenTabs(s)
    BY <1>0, <1>1
  <1>3. \A s \in PageSessions : \A r \in refs[s] : r \in issued
    BY <1>0 DEF Registry
  <1>4. \A r \in issued' : r.tab \in OpenTabs(r.session)' => r.generation <= generations'[r.session][r.tab]
    BY <1>0, <1>2 DEF Registry
  <1>5. \A s \in PageSessions : \A r \in refs'[s] :
          r.tab \in OpenTabs(s)' /\ r.generation = generations'[s][r.tab] => r \notin spoiled'
    BY <1>0, <1>2, <1>3 DEF Registry
  <1> QED
    BY <1>0, <1>1, <1>4, <1>5 DEF Registry

\* One context changes; the tabs it opens have new tokens.
LEMMA ShapeKept ==
    ASSUME PagesShape, NEW s \in PageSessions, NEW p, pages' = [pages EXCEPT ![s] = p],
           tabCount' \in Nat, tabCount <= tabCount',
           \/ p = NoPage
           \/ /\ p = [tabs |-> p.tabs, active |-> p.active]
              /\ DOMAIN p.tabs \subseteq OpenTabs(s) \cup ((tabCount + 1)..tabCount')
    PROVE  /\ PagesShape'
           /\ \A x \in PageSessions : OpenTabs(x)' \subseteq OpenTabs(x) \cup ((tabCount + 1)..tabCount')
  <1>1. /\ tabCount \in Nat /\ DOMAIN pages = PageSessions /\ pages'[s] = p
        /\ DOMAIN pages' = PageSessions /\ \A x \in PageSessions \ {s} : pages'[x] = pages[x]
    BY DEF PagesShape
  <1>2. ASSUME NEW x \in PageSessions
        PROVE  /\ pages'[x] # NoPage => pages'[x] = [tabs |-> pages'[x].tabs, active |-> pages'[x].active]
               /\ OpenTabs(x)' \subseteq OpenTabs(x) \cup ((tabCount + 1)..tabCount')
    BY <1>1 DEF PagesShape, OpenTabs
  <1>3. ASSUME NEW x \in PageSessions PROVE OpenTabs(x)' \subseteq 1..tabCount'
    <2>1. OpenTabs(x) \subseteq 1..tabCount
      BY DEF PagesShape
    <2>2. ASSUME NEW k \in OpenTabs(x)' PROVE k \in 1..tabCount'
      <3>1. k \in 1..tabCount \/ k \in (tabCount + 1)..tabCount'
        BY <1>2, <2>1
      <3> QED
        BY <1>1, <3>1
    <2> QED
      BY <2>2
  <1> QED
    BY <1>1, <1>2, <1>3 DEF PagesShape

\* The same for a change of its tabs or of the active one.
LEMMA TabsChange ==
    ASSUME PagesShape, NEW s \in PageSessions, pages[s] # NoPage, NEW tabs,
           pages' = [pages EXCEPT ![s].tabs = tabs],
           tabCount' \in Nat, tabCount <= tabCount',
           DOMAIN tabs \subseteq OpenTabs(s) \cup ((tabCount + 1)..tabCount')
    PROVE  /\ PagesShape'
           /\ \A x \in PageSessions : OpenTabs(x)' \subseteq OpenTabs(x) \cup ((tabCount + 1)..tabCount')
  <1>1. PICK p : p = [tabs |-> tabs, active |-> pages[s].active]
    OBVIOUS
  <1>2. pages[s] = [tabs |-> pages[s].tabs, active |-> pages[s].active]
    BY DEF PagesShape
  <1>3. [pages[s] EXCEPT !.tabs = tabs] = p
    BY <1>1, <1>2
  <1>4. pages' = [pages EXCEPT ![s] = p]
    BY <1>3
  <1> QED
    BY <1>1, <1>4, ShapeKept

\* A tab goes to another address.
LEMMA GoesToKeeps ==
    ASSUME RefsInv, NEW s \in PageSessions, NEW u, Live(s), GoesTo(s, u), UNCHANGED <<issued, tabCount>>
    PROVE  PagesShape' /\ Registry'
  <1>0. PagesShape /\ Registry /\ tabCount \in Nat /\ tabCount <= MaxTabs /\ MaxTabs \in Nat
    BY RefsAssumption DEF RefsInv, PagesShape
  <1>1. PICK t : t = Active(s)
    OBVIOUS
  <1>2. t \in OpenTabs(s) /\ pages[s] # NoPage /\ t \in 1..tabCount /\ t \in 1..MaxTabs
    BY <1>0, <1>1 DEF Live, OpenTabs, PagesShape
  <1>3. pages' = Moved(s, t, u) /\ InvalidateTab(s, t)
    BY <1>1 DEF GoesTo
  <1>4. PagesShape' /\ \A x \in PageSessions : OpenTabs(x)' \subseteq OpenTabs(x)
    <2>1. PICK tabs : tabs = [pages[s].tabs EXCEPT ![t] = u]
      OBVIOUS
    <2>2. pages' = [pages EXCEPT ![s].tabs = tabs]
      BY <1>3, <2>1 DEF Moved
    <2>3. DOMAIN tabs \subseteq OpenTabs(s)
      BY <1>2, <2>1 DEF OpenTabs
    <2>4. tabCount' \in Nat /\ tabCount <= tabCount' /\ (tabCount + 1)..tabCount' = {}
      BY <1>0
    <2>5. DOMAIN tabs \subseteq OpenTabs(s) \cup ((tabCount + 1)..tabCount')
      BY <2>3
    <2>6. PagesShape' /\ \A x \in PageSessions : OpenTabs(x)' \subseteq OpenTabs(x) \cup ((tabCount + 1)..tabCount')
      BY <1>0, <1>2, <2>2, <2>4, <2>5, TabsChange
    <2> QED
      BY <2>4, <2>6
  <1>5. /\ refs' = [refs EXCEPT ![s] = {r \in refs[s] : r.tab # t}]
        /\ generations' = [generations EXCEPT ![s][t] = @ + 1]
        /\ spoiled' = spoiled \cup Of(s, t)
    BY <1>3 DEF InvalidateTab
  <1>7. /\ generations'[s] = [generations[s] EXCEPT ![t] = @ + 1] /\ DOMAIN generations' = PageSessions
        /\ \A x \in PageSessions \ {s} : generations'[x] = generations[x] /\ refs'[x] = refs[x]
        /\ refs'[s] = {r \in refs[s] : r.tab # t} /\ DOMAIN refs' = PageSessions
    BY <1>0, <1>5 DEF Registry
  <1>8. /\ generations'[s] \in [1..MaxTabs -> Nat]
        /\ generations'[s][t] = generations[s][t] + 1 /\ generations[s][t] \in Nat
        /\ \A x \in 1..MaxTabs : x # t => generations'[s][x] = generations[s][x]
    BY <1>0, <1>2, <1>7 DEF Registry
  <1>9. spoiled' \subseteq issued' /\ \A r \in issued' : r.tab \in 1..tabCount'
    BY <1>0, <1>5 DEF Registry, Of
  <1>10. \A x \in PageSessions : \A r \in refs'[x] : r \in refs[x] /\ r \in issued' /\ r.session = x
    BY <1>0, <1>7 DEF Registry
  <1>11. \A r \in issued : r.tab \in 1..MaxTabs
    BY <1>0 DEF Registry
  <1>12. ASSUME NEW r \in issued', r.tab \in OpenTabs(r.session)'
         PROVE  r.generation <= generations'[r.session][r.tab]
    <2>1. r.session \in PageSessions /\ r.tab \in OpenTabs(r.session) /\ r.generation \in Nat
          /\ r.generation <= generations[r.session][r.tab]
      BY <1>0, <1>4, <1>12 DEF Registry
    <2>2. CASE r.session = s /\ r.tab = t
      BY <1>8, <2>1, <2>2
    <2>3. CASE r.session # s \/ r.tab # t
      <3>1. generations'[r.session][r.tab] = generations[r.session][r.tab]
        BY <1>7, <1>8, <1>11, <2>1, <2>3
      <3> QED
        BY <2>1, <3>1
    <2> QED
      BY <2>2, <2>3
  <1>13. ASSUME NEW x \in PageSessions, NEW r \in refs'[x], r.tab \in OpenTabs(x)',
                r.generation = generations'[x][r.tab]
         PROVE  r \notin spoiled'
    <2>1. r \in refs[x] /\ r \in issued /\ r.session = x /\ r.tab \in OpenTabs(x) /\ r.tab \in 1..MaxTabs
      BY <1>4, <1>10, <1>11, <1>13
    <2>2. r.session # s \/ r.tab # t
      BY <1>7, <1>13, <2>1
    <2>3. generations'[x][r.tab] = generations[x][r.tab]
      BY <1>7, <1>8, <2>1, <2>2
    <2>4. r \notin spoiled
      BY <1>0, <1>13, <2>1, <2>3 DEF Registry
    <2> QED
      BY <1>5, <2>2, <2>4 DEF Of
  <1>14. Registry'
    <2>1. \A x \in PageSessions : generations'[x] \in [1..MaxTabs -> Nat]
      BY <1>0, <1>7, <1>8 DEF Registry
    <2>2. \A r \in issued' : r.session \in PageSessions /\ r.generation \in Nat
      BY <1>0 DEF Registry
    <2> QED
      BY <1>7, <1>9, <1>10, <1>12, <1>13, <2>1, <2>2 DEF Registry
  <1> QED
    BY <1>4, <1>14

\* A snapshot issues one reference, in a generation of its own.
LEMMA SnapshotKeeps ==
    ASSUME RefsInv, NEW s \in PageSessions, Snapshot(s)
    PROVE  PagesShape' /\ Registry'
  <1>0. PagesShape /\ Registry /\ tabCount \in Nat /\ tabCount <= MaxTabs /\ MaxTabs \in Nat
    BY RefsAssumption DEF RefsInv, PagesShape
  <1>1. PICK t : t = Active(s)
    OBVIOUS
  <1>2. t \in OpenTabs(s) /\ t \in 1..tabCount /\ t \in 1..MaxTabs
    BY <1>0, <1>1 DEF Snapshot, Live, OpenTabs, PagesShape
  <1>3. PICK g : g = generations[s][t] + 1
    OBVIOUS
  <1>4. generations[s][t] \in Nat /\ g \in Nat /\ g > generations[s][t]
    BY <1>0, <1>2, <1>3 DEF Registry
  <1>5. PICK new : new = [session |-> s, tab |-> t, generation |-> g, url |-> Address(s)]
    OBVIOUS
  <1>6. /\ generations' = [generations EXCEPT ![s][t] = g]
        /\ refs' = [refs EXCEPT ![s] = {r \in @ : r.tab # t \/ r \notin expired} \cup {new}]
        /\ spoiled' = spoiled \cup Of(s, t)
        /\ issued' = issued \cup {new}
        /\ UNCHANGED <<pages, tabCount>>
    BY <1>1, <1>3, <1>5 DEF Snapshot
  <1>7. PagesShape' /\ \A x \in PageSessions : OpenTabs(x)' = OpenTabs(x)
    BY <1>0, <1>6 DEF PagesShape, OpenTabs
  <1>8. new.session = s /\ new.tab = t /\ new.generation = g
    BY <1>5
  <1>9. ASSUME new \in issued PROVE FALSE
    <2>1. new.tab \in OpenTabs(new.session) => new.generation <= generations[new.session][new.tab]
      BY <1>0, <1>9 DEF Registry
    <2>2. g <= generations[s][t]
      BY <1>2, <1>8, <2>1
    <2> QED
      BY <1>4, <2>2
  <1>10. /\ DOMAIN generations' = PageSessions /\ DOMAIN refs' = PageSessions
         /\ generations'[s] = [generations[s] EXCEPT ![t] = g]
         /\ \A x \in PageSessions \ {s} : generations'[x] = generations[x] /\ refs'[x] = refs[x]
         /\ refs'[s] \subseteq refs[s] \cup {new}
    BY <1>0, <1>6 DEF Registry
  <1>11. /\ generations'[s] \in [1..MaxTabs -> Nat] /\ generations'[s][t] = g
         /\ \A x \in 1..MaxTabs : x # t => generations'[s][x] = generations[s][x]
    BY <1>0, <1>2, <1>4, <1>10 DEF Registry
  <1>12. \A r \in issued : r.tab \in 1..MaxTabs /\ r.session \in PageSessions /\ r.generation \in Nat
    BY <1>0 DEF Registry
  <1>13. ASSUME NEW r \in issued', r.tab \in OpenTabs(r.session)'
         PROVE  r.generation <= generations'[r.session][r.tab]
    <2>1. CASE r = new
      BY <1>4, <1>8, <1>11, <2>1
    <2>2. CASE r # new
      <3>1. r \in issued /\ r.generation <= generations[r.session][r.tab] /\ r.generation \in Nat
        BY <1>0, <1>6, <1>7, <1>12, <1>13, <2>2 DEF Registry
      <3>2. CASE r.session = s /\ r.tab = t
        BY <1>4, <1>11, <3>1, <3>2
      <3>3. CASE r.session # s \/ r.tab # t
        <4>1. generations'[r.session][r.tab] = generations[r.session][r.tab]
          BY <1>10, <1>11, <1>12, <3>1, <3>3
        <4> QED
          BY <3>1, <4>1
      <3> QED
        BY <3>2, <3>3
    <2> QED
      BY <2>1, <2>2
  <1>14. ASSUME NEW x \in PageSessions, NEW r \in refs'[x], r.tab \in OpenTabs(x)',
                r.generation = generations'[x][r.tab]
         PROVE  r \notin spoiled'
    <2>1. CASE r = new
      BY <1>0, <1>6, <1>9, <2>1 DEF Registry, Of
    <2>2. CASE r # new
      <3>1. r \in refs[x]
        BY <1>10, <1>14, <2>2
      <3>2. r \in issued /\ r.session = x /\ r.tab \in OpenTabs(x)
        BY <1>0, <1>7, <1>14, <3>1 DEF Registry
      <3>3. r.session # s \/ r.tab # t
        <4>1. SUFFICES ASSUME r.session = s, r.tab = t PROVE FALSE
          OBVIOUS
        <4>2. r.generation <= generations[s][t]
          BY <1>0, <3>2, <4>1 DEF Registry
        <4>3. r.generation = g
          BY <1>11, <1>14, <3>2, <4>1
        <4> QED
          BY <1>4, <4>2, <4>3
      <3>4. generations'[x][r.tab] = generations[x][r.tab]
        BY <1>10, <1>11, <1>12, <3>2, <3>3
      <3>5. r \notin spoiled
        BY <1>0, <1>14, <3>1, <3>2, <3>4 DEF Registry
      <3> QED
        BY <1>6, <3>3, <3>5 DEF Of
    <2> QED
      BY <2>1, <2>2
  <1>15. Registry'
    <2>1. \A x \in PageSessions : generations'[x] \in [1..MaxTabs -> Nat]
      BY <1>0, <1>10, <1>11 DEF Registry
    <2>2. \A r \in issued' : r.session \in PageSessions /\ r.generation \in Nat
      BY <1>4, <1>6, <1>8, <1>12
    <2>3. spoiled' \subseteq issued'
      BY <1>0, <1>6 DEF Registry, Of
    <2>4. \A r \in issued' : r.tab \in 1..tabCount'
      BY <1>0, <1>2, <1>6, <1>8 DEF Registry
    <2>5. \A x \in PageSessions : \A r \in refs'[x] : r \in issued' /\ r.session = x
      BY <1>0, <1>6, <1>8, <1>10 DEF Registry
    <2> QED
      BY <1>10, <1>13, <1>14, <2>1, <2>2, <2>3, <2>4, <2>5 DEF Registry
  <1> QED
    BY <1>7, <1>15

\* The end of a context.
LEMMA CloseKeeps ==
    ASSUME RefsInv, NEW s \in PageSessions, CloseContext(s)
    PROVE  PagesShape' /\ Registry'
  <1>0. PagesShape /\ Registry /\ tabCount \in Nat
    BY DEF RefsInv, PagesShape
  <1>1. /\ pages' = [pages EXCEPT ![s] = NoPage]
        /\ refs' = [refs EXCEPT ![s] = {}]
        /\ generations' = [generations EXCEPT ![s] = [t \in 1..MaxTabs |-> 0]]
        /\ spoiled' = spoiled \cup {r \in issued : r.session = s}
        /\ UNCHANGED <<issued, tabCount>>
    BY DEF CloseContext
  <1>2. PagesShape'
    <2>1. tabCount' \in Nat /\ tabCount <= tabCount'
      BY <1>0, <1>1
    <2> QED
      BY <1>0, <1>1, <2>1, ShapeKept
  <1>3. /\ DOMAIN generations' = PageSessions /\ DOMAIN refs' = PageSessions
        /\ refs'[s] = {} /\ generations'[s] = [t \in 1..MaxTabs |-> 0] /\ OpenTabs(s)' = {}
        /\ \A x \in PageSessions \ {s} : /\ refs'[x] = refs[x] /\ generations'[x] = generations[x]
                                         /\ OpenTabs(x)' = OpenTabs(x)
    BY <1>0, <1>1 DEF Registry, PagesShape, OpenTabs
  <1>4. \A x \in PageSessions : generations'[x] \in [1..MaxTabs -> Nat]
    BY <1>0, <1>3 DEF Registry
  <1>5. spoiled' \subseteq issued' /\ \A r \in issued' : r.tab \in 1..tabCount'
    BY <1>0, <1>1 DEF Registry
  <1>6. \A x \in PageSessions : \A r \in refs'[x] : r \in issued' /\ r.session = x /\ r \in refs[x] /\ x # s
    BY <1>0, <1>1, <1>3 DEF Registry
  <1>7. \A r \in issued' : r.session \in PageSessions /\ r.generation \in Nat
    BY <1>0, <1>1 DEF Registry
  <1>8. \A r \in issued' : r.tab \in OpenTabs(r.session)' => r.generation <= generations'[r.session][r.tab]
    BY <1>0, <1>1, <1>3, <1>7 DEF Registry
  <1>9. ASSUME NEW x \in PageSessions, NEW r \in refs'[x], r.tab \in OpenTabs(x)',
               r.generation = generations'[x][r.tab]
        PROVE  r \notin spoiled'
    <2>1. x # s /\ r \in refs[x] /\ r.session = x
      BY <1>6
    <2>2. r \notin spoiled
      BY <1>0, <1>3, <1>9, <2>1 DEF Registry
    <2> QED
      BY <1>1, <2>1, <2>2
  <1>10. Registry'
    BY <1>3, <1>4, <1>5, <1>6, <1>7, <1>8, <1>9 DEF Registry
  <1> QED
    BY <1>2, <1>10

\* A tab that closes itself leaves its references in the registry, and never
\* comes back under its token.
LEMMA TabClosesKeeps ==
    ASSUME RefsInv, NEW s \in PageSessions, NEW t, TabCloses(s, t)
    PROVE  PagesShape' /\ Registry'
  <1>0. PagesShape /\ Registry /\ tabCount \in Nat
    BY DEF RefsInv, PagesShape
  <1>1. /\ pages[s] # NoPage /\ spoiled' = spoiled \cup Of(s, t)
        /\ UNCHANGED <<generations, refs, issued, tabCount>>
    BY DEF TabCloses
  <1>2. PICK tabs : tabs = [x \in DOMAIN pages[s].tabs \ {t} |-> pages[s].tabs[x]]
    OBVIOUS
  <1>3. pages' = [pages EXCEPT ![s].tabs = tabs]
    BY <1>2 DEF TabCloses
  <1>4. tabCount' \in Nat /\ tabCount <= tabCount' /\ (tabCount + 1)..tabCount' = {}
    BY <1>0, <1>1
  <1>5. DOMAIN tabs = OpenTabs(s) \ {t}
    BY <1>1, <1>2 DEF OpenTabs
  <1>6. PagesShape' /\ \A x \in PageSessions : OpenTabs(x)' \subseteq OpenTabs(x)
    BY <1>0, <1>1, <1>3, <1>4, <1>5, TabsChange
  <1>7. t \notin OpenTabs(s)'
    <2>1. pages[s] = [tabs |-> pages[s].tabs, active |-> pages[s].active] /\ DOMAIN pages = PageSessions
      BY <1>0, <1>1 DEF PagesShape
    <2>2. [pages[s] EXCEPT !.tabs = tabs].tabs = tabs
      BY <2>1
    <2>3. pages'[s].tabs = tabs
      BY <1>3, <2>1, <2>2
    <2> QED
      BY <1>5, <2>3 DEF OpenTabs
  <1>8. ASSUME NEW x \in PageSessions, NEW r \in refs'[x], r.tab \in OpenTabs(x)',
               r.generation = generations'[x][r.tab]
        PROVE  r \notin spoiled'
    <2>1. r \in refs[x] /\ r.session = x /\ r \notin spoiled
      BY <1>0, <1>1, <1>6, <1>8 DEF Registry
    <2> QED
      BY <1>1, <1>7, <1>8, <2>1 DEF Of
  <1>9. spoiled' \subseteq issued'
    BY <1>0, <1>1 DEF Registry, Of
  <1>10. \A r \in issued' : r.tab \in OpenTabs(r.session)' => r.generation <= generations'[r.session][r.tab]
    BY <1>0, <1>1, <1>6 DEF Registry
  <1>11. Registry'
    BY <1>0, <1>1, <1>8, <1>9, <1>10 DEF Registry
  <1> QED
    BY <1>6, <1>11

\* A context opens.
LEMMA OpenTabKeeps ==
    ASSUME RefsInv, NEW s \in PageSessions, NEW u, OpenTab(s, u)
    PROVE  RefsInv'
  <1>0. PagesShape /\ tabCount \in Nat
    BY DEF RefsInv, PagesShape
  <1>1. PICK p : p = [tabs |-> [t \in {tabCount + 1} |-> u], active |-> tabCount + 1]
    OBVIOUS
  <1>2. /\ pages' = [pages EXCEPT ![s] = p] /\ tabCount' = tabCount + 1 /\ tabCount < MaxTabs
        /\ UNCHANGED <<generations, refs, issued, spoiled, lastUse>>
    BY <1>1 DEF OpenTab
  <1>3. tabCount' \in Nat /\ tabCount <= tabCount' /\ tabCount' <= MaxTabs
    BY <1>0, <1>2, RefsAssumption
  <1>4. p = [tabs |-> p.tabs, active |-> p.active] /\ DOMAIN p.tabs \subseteq (tabCount + 1)..tabCount'
    BY <1>0, <1>1, <1>2
  <1>5. PagesShape' /\ \A x \in PageSessions : OpenTabs(x)' \subseteq OpenTabs(x) \cup ((tabCount + 1)..tabCount')
    BY <1>0, <1>2, <1>3, <1>4, ShapeKept
  <1>6. Registry'
    BY <1>2, <1>3, <1>5, PagesMove
  <1> QED
    BY <1>2, <1>3, <1>5, <1>6 DEF RefsInv, RefsDie

\* A tab opens in the background.
LEMMA PopsUpKeeps ==
    ASSUME RefsInv, NEW s \in PageSessions, NEW r, NEW u, pages[s] # NoPage, PopsUp(s, r, u)
    PROVE  PagesShape' /\ Registry' /\ tabCount' <= MaxTabs
  <1>0. PagesShape /\ tabCount \in Nat
    BY DEF RefsInv, PagesShape
  <1>1. PICK tabs : tabs = [t \in DOMAIN pages[s].tabs \cup {tabCount + 1} |->
                              IF t = tabCount + 1 THEN u ELSE pages[s].tabs[t]]
    OBVIOUS
  <1>2. /\ pages' = [pages EXCEPT ![s].tabs = tabs] /\ tabCount' = tabCount + 1 /\ tabCount < MaxTabs
        /\ UNCHANGED <<generations, refs, issued, spoiled>>
    BY <1>1 DEF PopsUp
  <1>3. tabCount' \in Nat /\ tabCount <= tabCount' /\ tabCount' <= MaxTabs
    BY <1>0, <1>2, RefsAssumption
  <1>4. DOMAIN tabs \subseteq OpenTabs(s) \cup ((tabCount + 1)..tabCount')
    BY <1>0, <1>1, <1>2 DEF OpenTabs
  <1>5. PagesShape' /\ \A x \in PageSessions : OpenTabs(x)' \subseteq OpenTabs(x) \cup ((tabCount + 1)..tabCount')
    BY <1>0, <1>2, <1>3, <1>4, TabsChange
  <1>6. Registry'
    BY <1>2, <1>3, <1>5, PagesMove
  <1> QED
    BY <1>3, <1>5, <1>6

\* Another tab becomes active, or a page moves by itself.
LEMMA ActiveOrUnseenKeeps ==
    ASSUME RefsInv, NEW s \in PageSessions, NEW t, NEW u, Activate(s, t) \/ MovesUnseen(s, t, u)
    PROVE  RefsInv'
  <1>0. PagesShape /\ tabCount \in Nat
    BY DEF RefsInv, PagesShape
  <1>1. pages[s] # NoPage /\ t \in DOMAIN pages[s].tabs /\ UNCHANGED <<generations, refs, issued, spoiled, lastUse, tabCount>>
    BY DEF Activate, MovesUnseen
  <1>2. tabCount' \in Nat /\ tabCount <= tabCount'
    BY <1>0, <1>1
  <1>3. PagesShape' /\ \A x \in PageSessions : OpenTabs(x)' \subseteq OpenTabs(x) \cup ((tabCount + 1)..tabCount')
    <2>1. CASE Activate(s, t)
      <3>1. PICK p : p = [tabs |-> pages[s].tabs, active |-> t]
        OBVIOUS
      <3>2. pages[s] = [tabs |-> pages[s].tabs, active |-> pages[s].active]
        BY <1>0, <1>1 DEF PagesShape
      <3>3. [pages[s] EXCEPT !.active = t] = p
        BY <3>1, <3>2
      <3>4. pages' = [pages EXCEPT ![s] = p]
        BY <2>1, <3>3 DEF Activate
      <3>5. p = [tabs |-> p.tabs, active |-> p.active] /\ DOMAIN p.tabs \subseteq OpenTabs(s)
        BY <1>1, <3>1 DEF OpenTabs
      <3> QED
        BY <1>0, <1>2, <3>4, <3>5, ShapeKept
    <2>2. CASE MovesUnseen(s, t, u)
      <3>1. PICK tabs : tabs = [pages[s].tabs EXCEPT ![t] = u]
        OBVIOUS
      <3>2. pages' = [pages EXCEPT ![s].tabs = tabs]
        BY <2>2, <3>1 DEF MovesUnseen, Moved
      <3>3. DOMAIN tabs \subseteq OpenTabs(s)
        BY <1>1, <3>1 DEF OpenTabs
      <3> QED
        BY <1>0, <1>1, <1>2, <3>2, <3>3, TabsChange
    <2> QED
      BY <2>1, <2>2
  <1>4. Registry'
    BY <1>1, <1>2, <1>3, PagesMove
  <1> QED
    BY <1>1, <1>3, <1>4 DEF RefsInv, RefsDie

\* Nothing moves.
LEMMA StillKeeps ==
    ASSUME RefsInv, UNCHANGED <<pages, generations, refs, issued, spoiled, tabCount>>
    PROVE  PagesShape' /\ Registry' /\ tabCount' <= MaxTabs
  <1>1. \A s \in PageSessions : OpenTabs(s)' = OpenTabs(s)
    BY DEF OpenTabs
  <1>2. PagesShape'
    BY <1>1 DEF RefsInv, PagesShape
  <1>3. tabCount' \in Nat /\ tabCount <= tabCount'
    BY DEF RefsInv, PagesShape
  <1>4. Registry'
    BY <1>1, <1>3, PagesMove
  <1> QED
    BY <1>2, <1>4 DEF RefsInv

\* An element is acted on with a reference that resolved.
LEMMA ByReferenceKeeps ==
    ASSUME RefsInv, NEW s \in PageSessions, NEW r \in issued, ByReference(s, r)
    PROVE  RefsInv'
  <1>1. Live(s) /\ r \in refs[s] /\ CheckScope(s, r)
    BY DEF ByReference, PageDownload, PageUpload, SimFill, SimDownload, SimUpload, PageClick, PageFill,
           PageSubmit, SimClick, SimSubmit, ResolveRef, ResolveRefHandle
  <1>2. Stays(s, r) \/ \E u \in Urls : Leaves(s, r, u) \/ PopsUp(s, r, u)
    BY DEF ByReference, PageDownload, PageUpload, SimFill, SimDownload, SimUpload, PageClick, PageFill,
           PageSubmit, SimClick, SimSubmit, PostData
  <1>3. ASSUME Acted(s, r) PROVE RefsDie'
    BY <1>1, <1>3, ResolvedIsGood DEF Acted, RefsDie
  <1>4. CASE Stays(s, r)
    BY <1>3, <1>4, StillKeeps DEF Stays, RefsInv
  <1>5. ASSUME NEW u \in Urls, Leaves(s, r, u) PROVE RefsInv'
    BY <1>1, <1>3, <1>5, GoesToKeeps DEF Leaves, RefsInv
  <1>6. ASSUME NEW u \in Urls, PopsUp(s, r, u) PROVE RefsInv'
    <2>1. Acted(s, r) /\ pages[s] # NoPage
      BY <1>1, <1>6 DEF PopsUp, Live
    <2> QED
      BY <1>3, <1>6, <2>1, PopsUpKeeps DEF RefsInv
  <1> QED
    BY <1>2, <1>4, <1>5, <1>6

\* Every step of either transport keeps the invariant.
LEMMA RefsStep == ASSUME RefsInv, [RefsNext]_refVars PROVE RefsInv'
  <1>1. CASE UNCHANGED refVars
    BY <1>1, StillKeeps DEF refVars, RefsInv, RefsDie
  <1>2. ASSUME NEW s \in PageSessions, NEW u, OpenTab(s, u) PROVE RefsInv'
    BY <1>2, OpenTabKeeps
  <1>3. ASSUME NEW s \in PageSessions, Snapshot(s) PROVE RefsInv'
    <2>1. UNCHANGED <<lastUse, tabCount>>
      BY <1>3 DEF Snapshot
    <2> QED
      BY <1>3, <2>1, SnapshotKeeps DEF RefsInv, RefsDie
  <1>4. ASSUME NEW s \in PageSessions, CloseContext(s) PROVE RefsInv'
    <2>1. UNCHANGED <<lastUse, tabCount>>
      BY <1>4 DEF CloseContext
    <2> QED
      BY <1>4, <2>1, CloseKeeps DEF RefsInv, RefsDie
  <1>5. ASSUME NEW s \in PageSessions, NEW u, Live(s), GoesTo(s, u), UNCHANGED <<issued, lastUse, tabCount>> PROVE RefsInv'
    BY <1>5, GoesToKeeps DEF RefsInv, RefsDie
  <1>6. ASSUME NEW s \in PageSessions, NEW t, NEW u, Activate(s, t) \/ MovesUnseen(s, t, u) PROVE RefsInv'
    BY <1>6, ActiveOrUnseenKeeps
  <1>7. ASSUME NEW s \in PageSessions, NEW t, TabCloses(s, t) PROVE RefsInv'
    <2>1. UNCHANGED <<lastUse, tabCount>>
      BY <1>7 DEF TabCloses
    <2> QED
      BY <1>7, <2>1, TabClosesKeeps DEF RefsInv, RefsDie
  <1>8. ASSUME NEW r \in issued, Expires(r) PROVE RefsInv'
    BY <1>8, StillKeeps DEF Expires, RefsInv, RefsDie
  <1>9. ASSUME NEW s \in PageSessions, NEW r \in issued, ByReference(s, r) PROVE RefsInv'
    BY <1>9, ByReferenceKeeps
  <1>10. ASSUME NEW s \in PageSessions,
                ContextPage(s) \/ PageInspect(s) \/ PageClose(s) \/ SimInspect(s) \/ SimClose(s)
         PROVE  RefsInv'
    BY <1>2, <1>3, <1>4, <1>10 DEF ContextPage, PageInspect, PageClose, SimInspect, SimClose
  <1>11. ASSUME NEW s \in PageSessions, NEW u \in Urls, PageGoto(s, u) \/ SimNavigate(s, u) \/ SimClickText(s, u)
         PROVE  RefsInv'
    BY <1>2, <1>5, <1>11 DEF PageGoto, SimNavigate, SimClickText
  <1>12. ASSUME NEW s \in PageSessions, NEW t \in 1..MaxTabs, PageActivate(s, t) \/ SimActivate(s, t)
         PROVE  RefsInv'
    BY <1>6, <1>12 DEF PageActivate, SimActivate
  <1> QED
    BY <1>1, <1>6, <1>7, <1>8, <1>9, <1>10, <1>11, <1>12 DEF RefsNext

\* For any number of sessions, tabs and snapshots, in both transports: no element
\* is acted on with a reference that is not the caller's, has expired, or was
\* made invalid.
THEOREM ReferencesDie == RefsSpec => []RefsDie
  <1>1. RefsInit => RefsInv
    BY RefsAssumption DEF RefsInit, RefsInv, PagesShape, OpenTabs, Registry, RefsDie
  <1>2. RefsInv /\ [RefsNext]_refVars => RefsInv'
    BY RefsStep
  <1>3. RefsInv => RefsDie
    BY DEF RefsInv
  <1> QED
    BY <1>1, <1>2, <1>3, PTL DEF RefsSpec

-----------------------------------------------------------------------------
(* Sums over the actors *)

\* A set of numbers that is not empty has a least one.
LEMMA LeastOf == ASSUME NEW S \in SUBSET Nat, S # {} PROVE \E x \in S : \A y \in S : ~(y < x)
  <1>1. \E x \in S : \A y \in S : ~ (<<y, x>> \in OpToRel(<, Nat))
    BY NatLessThanWellFounded, WFMin
  <1>2. PICK x \in S : \A y \in S : ~ (<<y, x>> \in OpToRel(<, Nat))
    BY <1>1
  <1>3. ASSUME NEW y \in S PROVE ~(y < x)
    <2>1. <<y, x>> \in Nat \X Nat
      OBVIOUS
    <2>2. y < x => <<y, x>> \in OpToRel(<, Nat)
      BY <2>1 DEF OpToRel
    <2> QED
      BY <1>2, <2>2
  <1> QED
    BY <1>3

One(S) == CHOOSE x \in S : TRUE

\* f adds up h over the sets of U.
Adds(f, h, U) == f = [S \in U |-> IF S = {} THEN 0 ELSE h[One(S)] + f[S \ {One(S)}]]

\* Taking the chosen element away.
LEMMA LessOne ==
    ASSUME NEW S \in SUBSET Actors, S # {}
    PROVE  /\ One(S) \in S /\ S \ {One(S)} \in SUBSET Actors
           /\ Cardinality(S) \in Nat \ {0} /\ Cardinality(S \ {One(S)}) = Cardinality(S) - 1
  <1>1. One(S) \in S
    BY DEF One
  <1>2. IsFiniteSet(S)
    BY OpsAssumption, FS_Subset
  <1>3. Cardinality(S) \in Nat /\ Cardinality(S) # 0
    BY <1>2, FS_CardinalityType, FS_EmptySet
  <1>4. Cardinality(S \ {One(S)}) = Cardinality(S) - 1
    BY <1>1, <1>2, FS_RemoveElement
  <1> QED
    BY <1>1, <1>3, <1>4

\* The recursion has a solution.
LEMMA SumExists == ASSUME NEW h \in [Actors -> Int] PROVE \E f : Adds(f, h, SUBSET Actors)
  <1> DEFINE Small(n) == {S \in SUBSET Actors : Cardinality(S) <= n}
             Bad == {n \in Nat : ~ \E f : Adds(f, h, Small(n))}
  <1>1. Bad = {}
    <2>1. SUFFICES ASSUME Bad # {} PROVE FALSE
      OBVIOUS
    <2>2. PICK m \in Bad : \A y \in Bad : ~(y < m)
      <3>1. Bad \in SUBSET Nat
        OBVIOUS
      <3> HIDE DEF Bad
      <3> QED
        BY <2>1, <3>1, LeastOf
    <2>3. m \in Nat /\ ~ \E f : Adds(f, h, Small(m))
      OBVIOUS
    <2>4. CASE m = 0
      <3>1. \A S \in Small(0) : S = {}
        <4>1. SUFFICES ASSUME NEW S \in Small(0), S # {} PROVE FALSE
          OBVIOUS
        <4>2. S \in SUBSET Actors /\ Cardinality(S) <= 0
          BY <4>1
        <4>3. Cardinality(S) \in Nat \ {0}
          BY <4>1, <4>2, LessOne
        <4> QED
          BY <4>2, <4>3
      <3>2. PICK f : f = [S \in Small(0) |-> 0]
        OBVIOUS
      <3>3. Adds(f, h, Small(0))
        BY <3>1, <3>2 DEF Adds
      <3> QED
        BY <2>3, <2>4, <3>3
    <2>5. CASE m # 0
      <3>1. m - 1 \in Nat /\ m - 1 < m
        BY <2>3, <2>5
      <3>2. PICK f : Adds(f, h, Small(m - 1))
        BY <2>2, <3>1
      <3>3. PICK g : g = [S \in Small(m) |-> IF S = {} THEN 0 ELSE h[One(S)] + f[S \ {One(S)}]]
        OBVIOUS
      <3>4. ASSUME NEW S \in Small(m), S # {} PROVE g[S \ {One(S)}] = f[S \ {One(S)}]
        <4>1. PICK T : T = S \ {One(S)}
          OBVIOUS
        <4>2. T \in SUBSET Actors /\ Cardinality(T) <= m - 1 /\ Cardinality(T) <= m
          BY <2>3, <3>4, <4>1, LessOne
        <4>3. T \in Small(m - 1) /\ T \in Small(m)
          BY <4>2
        <4>4. f[T] = IF T = {} THEN 0 ELSE h[One(T)] + f[T \ {One(T)}]
          BY <3>2, <4>3 DEF Adds
        <4>5. g[T] = IF T = {} THEN 0 ELSE h[One(T)] + f[T \ {One(T)}]
          BY <3>3, <4>3
        <4> QED
          BY <4>1, <4>4, <4>5
      <3> HIDE DEF Small
      <3>5. Adds(g, h, Small(m))
        BY <3>3, <3>4 DEF Adds
      <3> QED
        BY <2>3, <3>5
    <2> QED
      BY <2>4, <2>5
  <1>2. PICK n \in Nat : n = Cardinality(Actors)
    BY OpsAssumption, FS_CardinalityType
  <1>3. Small(n) = SUBSET Actors
    BY <1>2, OpsAssumption, FS_Subset
  <1>4. \E f : Adds(f, h, Small(n))
    BY <1>1
  <1> QED
    BY <1>3, <1>4

\* The sum is what such a function says of all actors.
LEMMA SumIs ==
    ASSUME NEW h \in [Actors -> Int]
    PROVE  \E f : Adds(f, h, SUBSET Actors) /\ SumOverActors(h) = f[Actors]
  <1>1. PICK t : t = CHOOSE f : f = [S \in SUBSET Actors |-> IF S = {} THEN 0
                                       ELSE LET a == CHOOSE x \in S : TRUE IN h[a] + f[S \ {a}]]
    OBVIOUS
  <1>2. \E f : Adds(f, h, SUBSET Actors)
    BY SumExists
  <1>3. Adds(t, h, SUBSET Actors)
    BY <1>1, <1>2 DEF Adds, One
  <1>4. SumOverActors(h) = t[Actors]
    BY <1>1 DEF SumOverActors
  <1> QED
    BY <1>3, <1>4

\* It is a number.
LEMMA SumIsInt ==
    ASSUME NEW h \in [Actors -> Int], NEW f, Adds(f, h, SUBSET Actors), NEW S \in SUBSET Actors
    PROVE  f[S] \in Int
  <1> DEFINE Bad == {n \in Nat : \E T \in SUBSET Actors : Cardinality(T) = n /\ f[T] \notin Int}
  <1>1. Bad = {}
    <2>1. SUFFICES ASSUME Bad # {} PROVE FALSE
      OBVIOUS
    <2>2. PICK m \in Bad : \A y \in Bad : ~(y < m)
      <3>1. Bad \in SUBSET Nat
        OBVIOUS
      <3> HIDE DEF Bad
      <3> QED
        BY <2>1, <3>1, LeastOf
    <2>3. PICK T \in SUBSET Actors : Cardinality(T) = m /\ f[T] \notin Int
      BY <2>2
    <2>4. f[T] = IF T = {} THEN 0 ELSE h[One(T)] + f[T \ {One(T)}]
      BY DEF Adds
    <2>5. T # {}
      BY <2>3, <2>4
    <2>6. PICK R : R = T \ {One(T)}
      OBVIOUS
    <2>7. R \in SUBSET Actors /\ Cardinality(R) \in Nat /\ Cardinality(R) < m /\ h[One(T)] \in Int
      BY <2>3, <2>5, <2>6, LessOne
    <2>8. f[R] \in Int
      BY <2>2, <2>7
    <2> QED
      BY <2>3, <2>4, <2>5, <2>6, <2>7, <2>8
  <1>2. Cardinality(S) \in Nat
    BY OpsAssumption, FS_Subset, FS_CardinalityType
  <1> QED
    BY <1>1, <1>2

\* One more at one actor is one more in all.
LEMMA SumMoves ==
    ASSUME NEW h \in [Actors -> Int], NEW a \in Actors, NEW d \in Int, NEW g \in [Actors -> Int],
           g[a] = h[a] + d, \A x \in Actors \ {a} : g[x] = h[x]
    PROVE  SumOverActors(g) = SumOverActors(h) + d
  <1>1. PICK f : Adds(f, h, SUBSET Actors) /\ SumOverActors(h) = f[Actors]
    BY SumIs
  <1>2. PICK e : Adds(e, g, SUBSET Actors) /\ SumOverActors(g) = e[Actors]
    BY SumIs
  <1>3. \A S \in SUBSET Actors : f[S] \in Int /\ e[S] \in Int
    BY <1>1, <1>2, SumIsInt
  <1> DEFINE More(S) == IF a \in S THEN d ELSE 0
             Bad == {n \in Nat : \E T \in SUBSET Actors : Cardinality(T) = n /\ e[T] # f[T] + More(T)}
  <1>4. Bad = {}
    <2>1. SUFFICES ASSUME Bad # {} PROVE FALSE
      OBVIOUS
    <2>2. PICK m \in Bad : \A y \in Bad : ~(y < m)
      <3>1. Bad \in SUBSET Nat
        OBVIOUS
      <3> HIDE DEF Bad
      <3> QED
        BY <2>1, <3>1, LeastOf
    <2>3. PICK T \in SUBSET Actors : Cardinality(T) = m /\ e[T] # f[T] + More(T)
      BY <2>2
    <2>4. /\ f[T] = IF T = {} THEN 0 ELSE h[One(T)] + f[T \ {One(T)}]
          /\ e[T] = IF T = {} THEN 0 ELSE g[One(T)] + e[T \ {One(T)}]
      BY <1>1, <1>2 DEF Adds
    <2>5. T # {}
      BY <2>3, <2>4
    <2>6. PICK x : x = One(T)
      OBVIOUS
    <2>7. PICK R : R = T \ {x}
      OBVIOUS
    <2>8. R \in SUBSET Actors /\ Cardinality(R) \in Nat /\ Cardinality(R) < m /\ x \in T /\ x \in Actors
      BY <2>3, <2>5, <2>6, <2>7, LessOne
    <2>9. e[R] = f[R] + More(R)
      BY <2>2, <2>8
    <2>10. f[T] = h[x] + f[R] /\ e[T] = g[x] + e[R]
      BY <2>4, <2>5, <2>6, <2>7
    <2>11. f[R] \in Int /\ e[R] \in Int /\ h[x] \in Int /\ g[x] \in Int
      BY <1>3, <2>8
    <2>12. CASE x = a
      <3>1. More(T) = d /\ More(R) = 0 /\ g[x] = h[x] + d
        BY <2>7, <2>8, <2>12
      <3> HIDE DEF More
      <3> QED
        BY <2>3, <2>9, <2>10, <2>11, <3>1
    <2>13. CASE x # a
      <3>1. More(T) = More(R) /\ g[x] = h[x] /\ More(R) \in Int
        BY <2>7, <2>8, <2>13
      <3> HIDE DEF More
      <3> QED
        BY <2>3, <2>9, <2>10, <2>11, <3>1
    <2> QED
      BY <2>12, <2>13
  <1>5. Cardinality(Actors) \in Nat
    BY OpsAssumption, FS_CardinalityType
  <1>6. e[Actors] = f[Actors] + More(Actors)
    BY <1>4, <1>5
  <1> QED
    BY <1>1, <1>2, <1>6

\* Nothing adds up to nothing.
LEMMA SumOfNothing == SumOverActors([a \in Actors |-> 0]) = 0
  <1>1. PICK h : h = [a \in Actors |-> 0]
    OBVIOUS
  <1>2. h \in [Actors -> Int]
    BY <1>1
  <1>3. PICK f : Adds(f, h, SUBSET Actors) /\ SumOverActors(h) = f[Actors]
    BY <1>2, SumIs
  <1> DEFINE Bad == {n \in Nat : \E T \in SUBSET Actors : Cardinality(T) = n /\ f[T] # 0}
  <1>4. Bad = {}
    <2>1. SUFFICES ASSUME Bad # {} PROVE FALSE
      OBVIOUS
    <2>2. PICK m \in Bad : \A y \in Bad : ~(y < m)
      <3>1. Bad \in SUBSET Nat
        OBVIOUS
      <3> HIDE DEF Bad
      <3> QED
        BY <2>1, <3>1, LeastOf
    <2>3. PICK T \in SUBSET Actors : Cardinality(T) = m /\ f[T] # 0
      BY <2>2
    <2>4. f[T] = IF T = {} THEN 0 ELSE h[One(T)] + f[T \ {One(T)}]
      BY <1>3 DEF Adds
    <2>5. T # {}
      BY <2>3, <2>4
    <2>6. PICK R : R = T \ {One(T)}
      OBVIOUS
    <2>7. R \in SUBSET Actors /\ Cardinality(R) \in Nat /\ Cardinality(R) < m /\ h[One(T)] = 0
      BY <1>1, <2>3, <2>5, <2>6, LessOne
    <2>8. f[R] = 0
      BY <2>2, <2>7
    <2> QED
      BY <2>3, <2>4, <2>5, <2>6, <2>7, <2>8
  <1>5. Cardinality(Actors) \in Nat
    BY OpsAssumption, FS_CardinalityType
  <1> QED
    BY <1>1, <1>3, <1>4, <1>5

-----------------------------------------------------------------------------
(* Admission *)

\* The types that the accounts are kept in.
AccountTypes ==
    /\ counters \in [Actors \cup {"workflow", "window"} -> Int \cup {NoValue}]
    /\ leaked \in [Actors -> Int] /\ extra \in [Actors -> Int]

AccountOf(a) == Held(a) = Cardinality(Holding(a)) + Cardinality(Claiming(a)) + leaked[a] - extra[a]

AccountInv == OpsInv /\ AccountTypes /\ AdmissionAccounts

\* Who a run counts for.
LEMMA ActorOfType == ASSUME NEW t \in Tokens PROVE ActorOf(t) \in Actors
  BY OpsAssumption DEF ActorOf

\* What an actor holds and claims is finite.
LEMMA Sizes ==
    ASSUME NEW a
    PROVE  /\ IsFiniteSet(Holding(a)) /\ Cardinality(Holding(a)) \in Nat
           /\ IsFiniteSet(Claiming(a)) /\ Cardinality(Claiming(a)) \in Nat
  <1>1. IsFiniteSet(Tokens)
    <2>1. IsFiniteSet(0..MaxOpsTime) /\ IsFiniteSet(Actors)
      BY OpsAssumption, FS_Interval
    <2> QED
      BY <2>1, FS_Union DEF Tokens
  <1>2. Holding(a) \in SUBSET Tokens /\ Claiming(a) \in SUBSET Callers
    BY DEF Holding, Claiming
  <1>3. IsFiniteSet(Holding(a)) /\ IsFiniteSet(Claiming(a))
    BY <1>1, <1>2, OpsAssumption, FS_Subset
  <1> QED
    BY <1>3, FS_CardinalityType

\* What a counter holds is a number.
LEMMA HeldType ==
    ASSUME AccountTypes, NEW scope \in Actors \cup {"workflow", "window"} PROVE Held(scope) \in Int
  BY DEF AccountTypes, Held

\* A step that leaves the counters and moves one claim of c to what it became.
LEMMA ClaimsMove ==
    ASSUME OpsInv, NEW c \in Callers, NEW new, caller' = [caller EXCEPT ![c] = new], NEW a
    PROVE  /\ new.pc = "create" /\ ActorOf(new.token) = a => Claiming(a)' = Claiming(a) \cup {c}
           /\ ~(new.pc = "create" /\ ActorOf(new.token) = a) => Claiming(a)' = Claiming(a) \ {c}
  <1>1. caller'[c] = new /\ \A x \in Callers \ {c} : caller'[x] = caller[x]
    BY DEF OpsInv
  <1>2. ASSUME NEW x \in Callers \ {c} PROVE x \in Claiming(a)' <=> x \in Claiming(a)
    BY <1>1 DEF Claiming, ActorOf
  <1>3. c \in Claiming(a)' <=> new.pc = "create" /\ ActorOf(new.token) = a
    BY <1>1 DEF Claiming, ActorOf
  <1>4. Claiming(a)' \subseteq Callers /\ Claiming(a) \subseteq Callers
    BY DEF Claiming
  <1> QED
    BY <1>2, <1>3, <1>4

\* Counters that do not change keep the sum.
LEMMA HeldStays ==
    ASSUME AccountInv, UNCHANGED counters
    PROVE  /\ \A a \in Actors : Held(a)' = Held(a)
           /\ Held("workflow")' = SumOverActors([a \in Actors |-> Held(a)])'
  <1>1. \A a \in Actors : Held(a)' = Held(a)
    BY DEF Held
  <1>2. Held("workflow")' = Held("workflow")
    BY DEF Held
  <1>3. [a \in Actors |-> Held(a)]' = [a \in Actors |-> Held(a)]
    BY <1>1
  <1> QED
    BY <1>1, <1>2, <1>3 DEF AccountInv, AdmissionAccounts

\* A claim or a release moves the counter of the actor and of the workflow alike.
LEMMA HeldMoves ==
    ASSUME AccountInv, NEW actor \in Actors, NEW d \in Int,
           \/ counters' = Bump(Bump(counters, actor, d), "workflow", d)
           \/ counters' = Bump(Bump(Bump(counters, actor, d), "workflow", d), "window", d)
    PROVE  /\ counters' \in [Actors \cup {"workflow", "window"} -> Int \cup {NoValue}]
           /\ Held(actor)' = Held(actor) + d
           /\ \A a \in Actors \ {actor} : Held(a)' = Held(a)
           /\ Held("workflow")' = SumOverActors([a \in Actors |-> Held(a)])'
  <1> DEFINE U == Actors \cup {"workflow", "window"}
             V == Int \cup {NoValue}
  <1>0. counters \in [U -> V] /\ "workflow" \notin Actors /\ "window" \notin Actors
    BY OpsAssumption DEF AccountInv, AccountTypes
  <1>1. ASSUME NEW rows \in [U -> V], NEW scope \in U
        PROVE  /\ Bump(rows, scope, d) \in [U -> V]
               /\ Bump(rows, scope, d)[scope] = IF rows[scope] = NoValue THEN d ELSE rows[scope] + d
               /\ \A x \in U \ {scope} : Bump(rows, scope, d)[x] = rows[x]
    BY DEF Bump
  <1>a. actor \in U /\ "workflow" \in U /\ "window" \in U /\ Actors \subseteq U
    OBVIOUS
  <1> HIDE DEF U, V
  <1>2. PICK r1 \in [U -> V] : r1 = Bump(counters, actor, d)
    BY <1>0, <1>1, <1>a
  <1>3. PICK r2 \in [U -> V] : r2 = Bump(r1, "workflow", d)
    BY <1>1, <1>a
  <1>4. counters' \in [U -> V] /\ \A x \in U \ {"window"} : counters'[x] = r2[x]
    <2>1. CASE counters' = Bump(Bump(counters, actor, d), "workflow", d)
      BY <1>2, <1>3, <2>1
    <2>2. CASE counters' = Bump(Bump(Bump(counters, actor, d), "workflow", d), "window", d)
      <3>1. counters' = Bump(r2, "window", d)
        BY <1>2, <1>3, <2>2
      <3> QED
        BY <1>1, <1>3, <1>a, <3>1
    <2> QED
      BY <2>1, <2>2
  <1>5. /\ r1[actor] = IF counters[actor] = NoValue THEN d ELSE counters[actor] + d
        /\ \A x \in U \ {actor} : r1[x] = counters[x]
    BY <1>0, <1>1, <1>2, <1>a
  <1>6. /\ r2["workflow"] = IF r1["workflow"] = NoValue THEN d ELSE r1["workflow"] + d
        /\ \A x \in U \ {"workflow"} : r2[x] = r1[x]
    BY <1>1, <1>3, <1>a
  <1>7. counters'[actor] = IF counters[actor] = NoValue THEN d ELSE counters[actor] + d
    BY <1>0, <1>4, <1>5, <1>6, <1>a
  <1>8. counters'["workflow"] = IF counters["workflow"] = NoValue THEN d ELSE counters["workflow"] + d
    BY <1>0, <1>4, <1>5, <1>6, <1>a
  <1>9. \A a \in Actors \ {actor} : counters'[a] = counters[a]
    BY <1>0, <1>4, <1>5, <1>6, <1>a
  <1>10. Held(actor)' = Held(actor) + d /\ Held("workflow")' = Held("workflow") + d
    BY <1>0, <1>7, <1>8, <1>a, OpsAssumption DEF Held, V
  <1>11. \A a \in Actors \ {actor} : Held(a)' = Held(a)
    BY <1>9 DEF Held
  <1>12. PICK h : h = [a \in Actors |-> Held(a)]
    OBVIOUS
  <1>13. PICK g : g = [a \in Actors |-> Held(a)']
    OBVIOUS
  <1>14. h \in [Actors -> Int]
    BY <1>12, HeldType DEF AccountInv
  <1>15. \A a \in Actors : Held(a)' \in Int
    BY <1>10, <1>11, HeldType DEF AccountInv
  <1>16. g \in [Actors -> Int] /\ g[actor] = h[actor] + d /\ \A x \in Actors \ {actor} : g[x] = h[x]
    BY <1>10, <1>11, <1>12, <1>13, <1>15
  <1>17. SumOverActors(g) = SumOverActors(h) + d
    BY <1>14, <1>16, SumMoves
  <1>18. SumOverActors([a \in Actors |-> Held(a)])' = SumOverActors(g)
    BY <1>13
  <1>19. Held("workflow") = SumOverActors(h)
    BY <1>12 DEF AccountInv, AdmissionAccounts
  <1> QED
    BY <1>4, <1>10, <1>11, <1>17, <1>18, <1>19 DEF U, V

\* A step that changes neither the counters nor what is held and claimed.
LEMMA AccountsRest ==
    ASSUME AccountInv, UNCHANGED <<counters, leaked, extra>>,
           \A a \in Actors : Holding(a)' = Holding(a) /\ Claiming(a)' = Claiming(a)
    PROVE  AccountTypes' /\ AdmissionAccounts'
  BY HeldStays DEF AccountInv, AccountTypes, AdmissionAccounts

\* One run row changes.
LEMMA RowMoves ==
    ASSUME OpsInv, NEW t \in Tokens, NEW status, runRows' = [runRows EXCEPT ![t] = status], NEW a
    PROVE  /\ status \in {"open", "ended"} /\ ActorOf(t) = a => Holding(a)' = Holding(a) \cup {t}
           /\ ~(status \in {"open", "ended"} /\ ActorOf(t) = a) => Holding(a)' = Holding(a) \ {t}
  <1>1. runRows'[t] = status /\ \A x \in Tokens \ {t} : runRows'[x] = runRows[x]
    BY DEF OpsInv
  <1>2. ASSUME NEW x \in Tokens \ {t} PROVE x \in Holding(a)' <=> x \in Holding(a)
    BY <1>1 DEF Holding
  <1>3. t \in Holding(a)' <=> status \in {"open", "ended"} /\ ActorOf(t) = a
    BY <1>1 DEF Holding
  <1>4. Holding(a)' \subseteq Tokens /\ Holding(a) \subseteq Tokens
    BY DEF Holding
  <1> QED
    BY <1>2, <1>3, <1>4

\* Sets that stay, for actors whose sets a step does not touch.
LEMMA HoldingStays == ASSUME UNCHANGED runRows, NEW a PROVE Holding(a)' = Holding(a)
  BY DEF Holding
\* ... and the claims.
LEMMA ClaimingStays == ASSUME UNCHANGED caller, NEW a PROVE Claiming(a)' = Claiming(a)
  BY DEF Claiming

\* A caller moves between places where it has claimed nothing.
LEMMA UnclaimedMoves ==
    ASSUME OpsInv, NEW c \in Callers, NEW new, caller' = [caller EXCEPT ![c] = new],
           caller[c].pc # "create", new.pc # "create", NEW a
    PROVE  Claiming(a)' = Claiming(a)
  <1>1. Claiming(a)' = Claiming(a) \ {c}
    BY ClaimsMove
  <1>2. c \notin Claiming(a)
    BY DEF Claiming
  <1> QED
    BY <1>1, <1>2

\* claim_start.
LEMMA ClaimAccounts ==
    ASSUME AccountInv, NEW c \in Callers, ClaimStart(c) PROVE AccountTypes' /\ AdmissionAccounts'
  <1>0. OpsInv /\ caller[c] \in CallerStates /\ caller[c].token \in Tokens
    BY DEF AccountInv, OpsInv, CallerStates
  <1>1. PICK actor \in Actors : actor = ActorOf(caller[c].token)
    BY <1>0, ActorOfType
  <1>2. caller[c].pc = "claim" /\ UNCHANGED <<runRows, extra, leaked>>
    BY DEF ClaimStart
  <1>3. /\ \/ /\ caller' = [caller EXCEPT ![c].pc = "create"]
              /\ counters' = Bump(Bump(Bump(counters, actor, 1), "workflow", 1), "window", 1)
           \/ caller' = [caller EXCEPT ![c].pc = "refuse"] /\ counters' = counters
    BY <1>1 DEF ClaimStart
  <1>4. CASE caller' = [caller EXCEPT ![c].pc = "refuse"] /\ counters' = counters
    <2>1. PICK new : new = [caller[c] EXCEPT !.pc = "refuse"]
      OBVIOUS
    <2>2. new.pc = "refuse" /\ caller' = [caller EXCEPT ![c] = new]
      BY <1>0, <1>4, <2>1 DEF CallerStates
    <2>3. \A a \in Actors : Claiming(a)' = Claiming(a)
      BY <1>0, <1>2, <2>2, UnclaimedMoves
    <2> QED
      BY <1>2, <1>4, <2>3, AccountsRest, HoldingStays
  <1>5. CASE /\ caller' = [caller EXCEPT ![c].pc = "create"]
             /\ counters' = Bump(Bump(Bump(counters, actor, 1), "workflow", 1), "window", 1)
    <2>1. PICK new : new = [caller[c] EXCEPT !.pc = "create"]
      OBVIOUS
    <2>2. new.pc = "create" /\ ActorOf(new.token) = actor /\ caller' = [caller EXCEPT ![c] = new]
      BY <1>0, <1>1, <1>5, <2>1 DEF CallerStates
    <2>3. /\ counters' \in [Actors \cup {"workflow", "window"} -> Int \cup {NoValue}]
          /\ Held(actor)' = Held(actor) + 1
          /\ \A a \in Actors \ {actor} : Held(a)' = Held(a)
          /\ Held("workflow")' = SumOverActors([a \in Actors |-> Held(a)])'
      BY <1>5, HeldMoves
    <2>4. ASSUME NEW a \in Actors PROVE AccountOf(a)'
      <3>1. c \notin Claiming(a)
        BY <1>2 DEF Claiming
      <3>2. /\ actor = a => Claiming(a)' = Claiming(a) \cup {c}
            /\ actor # a => Claiming(a)' = Claiming(a) \ {c}
        BY <1>0, <2>2, ClaimsMove
      <3>3. Holding(a)' = Holding(a)
        BY <1>2, HoldingStays
      <3>4. Held(a) = Cardinality(Holding(a)) + Cardinality(Claiming(a)) + leaked[a] - extra[a]
        BY DEF AccountInv, AdmissionAccounts
      <3>5. /\ Cardinality(Holding(a)) \in Nat /\ Cardinality(Claiming(a)) \in Nat
            /\ leaked[a] \in Int /\ extra[a] \in Int /\ IsFiniteSet(Claiming(a))
        BY Sizes DEF AccountInv, AccountTypes
      <3>6. CASE actor = a
        <4>1. Cardinality(Claiming(a)') = Cardinality(Claiming(a)) + 1
          BY <3>1, <3>2, <3>5, <3>6, FS_AddElement
        <4> QED
          BY <1>2, <2>3, <3>3, <3>4, <3>5, <3>6, <4>1 DEF AccountOf
      <3>7. CASE actor # a
        <4>1. Claiming(a)' = Claiming(a)
          BY <3>1, <3>2, <3>7
        <4> QED
          BY <1>2, <2>3, <3>3, <3>4, <3>7, <4>1 DEF AccountOf
      <3> QED
        BY <3>6, <3>7
    <2> QED
      BY <1>2, <2>3, <2>4 DEF AccountInv, AccountTypes, AdmissionAccounts, AccountOf
  <1> QED
    BY <1>3, <1>4, <1>5

\* The run row: a claim becomes a run, or is lost with the exception.
LEMMA InsertAccounts ==
    ASSUME AccountInv, NEW c \in Callers, CreateRun(c) PROVE AccountTypes' /\ AdmissionAccounts'
  <1>0. OpsInv /\ AccountTypes /\ caller[c] \in CallerStates
    BY DEF AccountInv, OpsInv
  <1>1. PICK token \in Tokens : token = caller[c].token
    BY <1>0 DEF CallerStates
  <1>2. PICK actor \in Actors : actor = ActorOf(token)
    BY ActorOfType
  <1>3. caller[c].pc = "create" /\ UNCHANGED <<counters, extra>>
    BY DEF CreateRun, InsertRun
  <1>4. PICK new : caller' = [caller EXCEPT ![c] = new] /\ new.pc # "create"
    <2>1. PICK new : new = [caller[c] EXCEPT !.pc = "advance"]
      OBVIOUS
    <2>2. new.pc # "create"
      BY <1>0, <2>1 DEF CallerStates
    <2>3. Resting.pc # "create"
      BY DEF Resting
    <2>4. caller' = [caller EXCEPT ![c] = new] \/ caller' = [caller EXCEPT ![c] = Resting]
      BY <2>1 DEF CreateRun, InsertRun, Return
    <2> QED
      BY <2>2, <2>3, <2>4
  <1>5. \A a \in Actors : Claiming(a)' = Claiming(a) \ {c}
    BY <1>0, <1>4, ClaimsMove
  <1>6. ASSUME NEW a \in Actors
        PROVE  /\ Cardinality(Holding(a)) \in Nat /\ Cardinality(Claiming(a)) \in Nat
               /\ leaked[a] \in Int /\ extra[a] \in Int
               /\ Cardinality(Claiming(a)') = Cardinality(Claiming(a)) - IF a = actor THEN 1 ELSE 0
    <2>1. IsFiniteSet(Claiming(a)) /\ Cardinality(Claiming(a)) \in Nat
      BY Sizes
    <2>2. c \in Claiming(a) <=> a = actor
      BY <1>1, <1>2, <1>3 DEF Claiming
    <2>3. Cardinality(Claiming(a)') = Cardinality(Claiming(a)) - IF a = actor THEN 1 ELSE 0
      BY <1>5, <2>1, <2>2, FS_RemoveElement
    <2> QED
      BY <1>0, <2>1, <2>3, Sizes DEF AccountTypes
  <1>7. ASSUME NEW a \in Actors
        PROVE  /\ Held(a)' = Held(a)
               /\ Held(a) = Cardinality(Holding(a)) + Cardinality(Claiming(a)) + leaked[a] - extra[a]
    BY <1>3, HeldStays DEF AccountInv, AdmissionAccounts
  <1>8. CASE runRows[token] = "absent"
    <2>1. runRows' = [runRows EXCEPT ![token] = "open"] /\ UNCHANGED leaked
      BY <1>1, <1>8 DEF CreateRun, InsertRun
    <2>2. ASSUME NEW a \in Actors PROVE AccountOf(a)'
      <3>1. token \notin Holding(a)
        BY <1>8 DEF Holding
      <3>2. /\ actor = a => Holding(a)' = Holding(a) \cup {token}
            /\ actor # a => Holding(a)' = Holding(a)
        <4>1. /\ ActorOf(token) = a => Holding(a)' = Holding(a) \cup {token}
              /\ ActorOf(token) # a => Holding(a)' = Holding(a) \ {token}
          BY <1>0, <2>1, RowMoves
        <4> QED
          BY <1>2, <3>1, <4>1
      <3>3. CASE actor = a
        <4>1. Cardinality(Holding(a)') = Cardinality(Holding(a)) + 1
          BY <3>1, <3>2, <3>3, Sizes, FS_AddElement
        <4> QED
          BY <1>3, <1>6, <1>7, <2>1, <3>3, <4>1 DEF AccountOf
      <3>4. CASE actor # a
        BY <1>3, <1>6, <1>7, <2>1, <3>2, <3>4 DEF AccountOf
      <3> QED
        BY <3>3, <3>4
    <2> QED
      BY <1>3, <2>1, <2>2, HeldStays DEF AccountInv, AccountTypes, AdmissionAccounts, AccountOf
  <1>9. CASE runRows[token] # "absent"
    <2>1. UNCHANGED runRows /\ leaked' = [leaked EXCEPT ![actor] = @ + 1]
      BY <1>1, <1>2, <1>9 DEF CreateRun, InsertRun
    <2>2. /\ leaked' \in [Actors -> Int] /\ leaked'[actor] = leaked[actor] + 1
          /\ \A a \in Actors \ {actor} : leaked'[a] = leaked[a]
      BY <1>0, <2>1 DEF AccountTypes
    <2>3. ASSUME NEW a \in Actors PROVE AccountOf(a)'
      <3>1. Holding(a)' = Holding(a)
        BY <2>1, HoldingStays
      <3>2. CASE actor = a
        <4>1. /\ Cardinality(Claiming(a)') = Cardinality(Claiming(a)) - 1 /\ leaked'[a] = leaked[a] + 1
              /\ Cardinality(Holding(a)) \in Nat /\ Cardinality(Claiming(a)) \in Nat
              /\ leaked[a] \in Int /\ extra[a] \in Int /\ extra' = extra
          BY <1>3, <1>6, <2>2, <3>2
        <4> QED
          BY <1>7, <3>1, <4>1 DEF AccountOf
      <3>3. CASE actor # a
        BY <1>3, <1>6, <1>7, <2>2, <3>1, <3>3 DEF AccountOf
      <3> QED
        BY <3>2, <3>3
    <2> QED
      BY <1>3, <2>2, <2>3, HeldStays DEF AccountInv, AccountTypes, AdmissionAccounts, AccountOf
  <1> QED
    BY <1>8, <1>9

\* A run ends: it is held until it is released.
LEMMA EndAccounts ==
    ASSUME AccountInv, NEW token \in Tokens, EndRun(token) PROVE AccountTypes' /\ AdmissionAccounts'
  <1>1. /\ runRows' = [runRows EXCEPT ![token] = "ended"] /\ runRows[token] = "open"
        /\ UNCHANGED <<counters, caller, extra, leaked>>
    BY DEF EndRun
  <1>2. ASSUME NEW a \in Actors PROVE Holding(a)' = Holding(a)
    <2>1. /\ ActorOf(token) = a => Holding(a)' = Holding(a) \cup {token}
          /\ ActorOf(token) # a => Holding(a)' = Holding(a) \ {token}
      BY <1>1, RowMoves DEF AccountInv
    <2>2. token \in Holding(a) <=> ActorOf(token) = a
      BY <1>1 DEF Holding
    <2> QED
      BY <2>1, <2>2
  <1>3. \A a \in Actors : Claiming(a)' = Claiming(a)
    BY <1>1, ClaimingStays
  <1> QED
    BY <1>1, <1>2, <1>3, AccountsRest

\* release_start.
LEMMA ReleaseAccounts ==
    ASSUME AccountInv, NEW token \in Tokens, NEW times \in 1..2, ReleaseStart(token, times)
    PROVE  AccountTypes' /\ AdmissionAccounts'
  <1>1. PICK actor \in Actors : actor = ActorOf(token)
    BY ActorOfType
  <1>2. /\ runRows' = [runRows EXCEPT ![token] = "released"] /\ runRows[token] = "ended"
        /\ counters' = Bump(Bump(counters, actor, -times), "workflow", -times)
        /\ extra' = [extra EXCEPT ![actor] = @ + times - 1]
        /\ UNCHANGED <<caller, leaked>>
    BY <1>1 DEF ReleaseStart
  <1>3. -times \in Int /\ times \in Int
    OBVIOUS
  <1>4. /\ counters' \in [Actors \cup {"workflow", "window"} -> Int \cup {NoValue}]
        /\ Held(actor)' = Held(actor) + (-times)
        /\ \A a \in Actors \ {actor} : Held(a)' = Held(a)
        /\ Held("workflow")' = SumOverActors([a \in Actors |-> Held(a)])'
    BY <1>2, <1>3, HeldMoves
  <1>5. /\ extra' \in [Actors -> Int] /\ extra'[actor] = extra[actor] + times - 1
        /\ \A a \in Actors \ {actor} : extra'[a] = extra[a]
    BY <1>2, <1>3 DEF AccountInv, AccountTypes
  <1>6. ASSUME NEW a \in Actors PROVE AccountOf(a)'
    <2>1. Holding(a)' = Holding(a) \ {token}
      <3>1. OpsInv /\ ~("released" \in {"open", "ended"} /\ ActorOf(token) = a)
        BY DEF AccountInv
      <3> QED
        BY <1>2, <3>1, RowMoves
    <2>2. token \in Holding(a) <=> actor = a
      BY <1>1, <1>2 DEF Holding
    <2>3. Claiming(a)' = Claiming(a)
      BY <1>2, ClaimingStays
    <2>4. Held(a) = Cardinality(Holding(a)) + Cardinality(Claiming(a)) + leaked[a] - extra[a]
      BY DEF AccountInv, AdmissionAccounts
    <2>5. /\ Cardinality(Holding(a)) \in Nat /\ Cardinality(Claiming(a)) \in Nat
          /\ leaked[a] \in Int /\ extra[a] \in Int /\ IsFiniteSet(Holding(a)) /\ leaked' = leaked
      BY <1>2, Sizes DEF AccountInv, AccountTypes
    <2>6. CASE actor = a
      <3>1. Cardinality(Holding(a)') = Cardinality(Holding(a)) - 1
        BY <2>1, <2>2, <2>5, <2>6, FS_RemoveElement
      <3>2. Held(a)' = Held(a) + (-times) /\ extra'[a] = extra[a] + times - 1
        BY <1>4, <1>5, <2>6
      <3> QED
        BY <1>3, <2>3, <2>4, <2>5, <3>1, <3>2 DEF AccountOf
    <2>7. CASE actor # a
      <3>1. Holding(a)' = Holding(a)
        BY <2>1, <2>2, <2>7
      <3>2. Held(a)' = Held(a) /\ extra'[a] = extra[a]
        BY <1>4, <1>5, <2>7
      <3> QED
        BY <2>3, <2>4, <2>5, <3>1, <3>2 DEF AccountOf
    <2> QED
      BY <2>6, <2>7
  <1> QED
    BY <1>2, <1>4, <1>5, <1>6 DEF AccountInv, AccountTypes, AdmissionAccounts, AccountOf

\* A crash: claims in hand and runs that ended unreleased are never given back.
LEMMA CrashAccounts ==
    ASSUME AccountInv, OpsCrash PROVE AccountTypes' /\ AdmissionAccounts'
  <1> DEFINE Lost(a) == {t \in Tokens : runRows[t] = "ended" /\ ActorOf(t) = a}
  <1>1. /\ caller' = [c \in Callers |-> Resting]
        /\ runRows' = [t \in Tokens |-> IF runRows[t] = "ended" THEN "leaked" ELSE runRows[t]]
        /\ UNCHANGED <<counters, extra>>
    BY DEF OpsCrash
  <1>2. leaked' = [a \in Actors |-> leaked[a] + Cardinality(Claiming(a)) + Cardinality(Lost(a))]
    BY DEF OpsCrash, Claiming
  <1>3. ASSUME NEW a \in Actors
        PROVE  /\ Cardinality(Holding(a)) = Cardinality(Holding(a)') + Cardinality(Lost(a))
               /\ Cardinality(Holding(a)') \in Nat /\ Cardinality(Lost(a)) \in Nat
               /\ Cardinality(Claiming(a)') = 0
    <2>1. Holding(a)' = Holding(a) \ Lost(a)
      BY <1>1 DEF Holding
    <2>2. Lost(a) \in SUBSET Holding(a)
      BY DEF Holding
    <2>3. Claiming(a)' = {}
      BY <1>1 DEF Claiming, Resting
    <2> HIDE DEF Lost
    <2>4. PICK H : H = Holding(a)
      OBVIOUS
    <2>5. PICK L : L = Lost(a)
      OBVIOUS
    <2>6. IsFiniteSet(H) /\ L \in SUBSET H
      BY <2>2, <2>4, <2>5, Sizes
    <2>7. PICK K : K = H \ L
      OBVIOUS
    <2>8. IsFiniteSet(L) /\ IsFiniteSet(K) /\ L \cup K = H /\ L \cap K = {}
      BY <2>6, <2>7, FS_Subset
    <2>9. Cardinality(L \cup K) = Cardinality(L) + Cardinality(K) - Cardinality(L \cap K)
      BY <2>8, FS_Union
    <2>10. Cardinality(L) \in Nat /\ Cardinality(K) \in Nat /\ Cardinality({}) = 0
      BY <2>8, FS_CardinalityType, FS_EmptySet
    <2>a. Cardinality(L \cup K) = Cardinality(H) /\ Cardinality(L \cap K) = 0
      BY <2>8, <2>10, Zenon
    <2>11. Cardinality(H) = Cardinality(K) + Cardinality(L)
      <3>1. PICK n : n = Cardinality(L \cup K)
        OBVIOUS
      <3>2. n = Cardinality(H) /\ n = Cardinality(L) + Cardinality(K) - 0
        BY <2>9, <2>a, <3>1, Zenon
      <3> QED
        BY <2>10, <3>2
    <2> QED
      BY <2>1, <2>3, <2>4, <2>5, <2>7, <2>10, <2>11
  <1> HIDE DEF Lost
  <1>4. leaked' \in [Actors -> Int]
    <2>1. \A a \in Actors : leaked[a] + Cardinality(Claiming(a)) + Cardinality(Lost(a)) \in Int
      BY <1>3, Sizes DEF AccountInv, AccountTypes
    <2> QED
      BY <1>2, <2>1
  <1>5. ASSUME NEW a \in Actors PROVE AccountOf(a)'
    <2>1. /\ Held(a)' = Held(a)
          /\ Held(a) = Cardinality(Holding(a)) + Cardinality(Claiming(a)) + leaked[a] - extra[a]
      BY <1>1, HeldStays DEF AccountInv, AdmissionAccounts
    <2>2. /\ Cardinality(Claiming(a)) \in Nat /\ leaked[a] \in Int /\ extra[a] \in Int /\ extra' = extra
      BY <1>1, Sizes DEF AccountInv, AccountTypes
    <2>3. leaked'[a] = leaked[a] + Cardinality(Claiming(a)) + Cardinality(Lost(a))
      BY <1>2
    <2> QED
      BY <1>3, <2>1, <2>2, <2>3 DEF AccountOf
  <1> QED
    BY <1>1, <1>4, <1>5, HeldStays DEF AccountInv, AccountTypes, AdmissionAccounts, AccountOf

\* Every step keeps the accounts.
LEMMA AccountStep == ASSUME AccountInv, [OpsNext]_opsVars PROVE AccountInv'
  <1>0. OpsInv /\ OpsInv' /\ Resting.pc # "create"
    BY OpsStep DEF AccountInv, Resting
  <1>1. SUFFICES AccountTypes' /\ AdmissionAccounts'
    BY <1>0 DEF AccountInv
  <1>2. ASSUME UNCHANGED <<counters, runRows, caller, extra, leaked>> PROVE AccountTypes' /\ AdmissionAccounts'
    BY <1>2, AccountsRest, HoldingStays, ClaimingStays
  <1>3. ASSUME NEW c \in Callers, NEW new, caller' = [caller EXCEPT ![c] = new], caller[c].pc # "create",
               new.pc # "create", UNCHANGED <<counters, runRows, extra, leaked>>
        PROVE  AccountTypes' /\ AdmissionAccounts'
    <2>1. \A a \in Actors : Claiming(a)' = Claiming(a)
      BY <1>0, <1>3, UnclaimedMoves
    <2> QED
      BY <1>3, <2>1, AccountsRest, HoldingStays
  <1>4. ASSUME NEW c \in Callers, NEW token \in Actors, Start(c, token) PROVE AccountTypes' /\ AdmissionAccounts'
    <2>1. PICK new : new = [Resting EXCEPT !.pc = "claim", !.token = token]
      OBVIOUS
    <2>2. new.pc # "create"
      BY <2>1 DEF Resting
    <2>3. /\ caller' = [caller EXCEPT ![c] = new] /\ caller[c].pc # "create"
          /\ UNCHANGED <<counters, runRows, extra, leaked>>
      BY <1>4, <2>1 DEF Start
    <2> QED
      BY <1>3, <2>2, <2>3
  <1>5. ASSUME NEW c \in Callers, CreateFailedRun(c) PROVE AccountTypes' /\ AdmissionAccounts'
    <2>1. caller[c].pc = "refuse" /\ UNCHANGED <<counters, extra>> /\ caller[c] \in CallerStates
      BY <1>0, <1>5 DEF CreateFailedRun, InsertRun, OpsInv
    <2>2. PICK token \in Tokens : token = caller[c].token
      BY <2>1 DEF CallerStates
    <2>3. PICK new : new = [caller[c] EXCEPT !.pc = "advance"]
      OBVIOUS
    <2>4. new.pc # "create"
      BY <2>1, <2>3 DEF CallerStates
    <2>5. caller' = [caller EXCEPT ![c] = new] \/ caller' = [caller EXCEPT ![c] = Resting]
      BY <1>5, <2>3 DEF CreateFailedRun, InsertRun, Return
    <2>6. \A a \in Actors : Claiming(a)' = Claiming(a)
      BY <1>0, <2>1, <2>4, <2>5, UnclaimedMoves
    <2>7. UNCHANGED leaked
      <3>1. ActorOf(token) \in Actors /\ leaked \in [Actors -> Int]
        BY ActorOfType DEF AccountInv, AccountTypes
      <3>2. leaked' = leaked \/ leaked' = [leaked EXCEPT ![ActorOf(token)] = @ + 0]
        BY <1>5, <2>2 DEF CreateFailedRun, InsertRun
      <3> QED
        BY <3>1, <3>2
    <2>8. \A a \in Actors : Holding(a)' = Holding(a)
      <3>1. CASE runRows[token] = "absent"
        <4>1. runRows' = [runRows EXCEPT ![token] = "refused"]
          BY <1>5, <2>2, <3>1 DEF CreateFailedRun, InsertRun
        <4>2. \A a \in Actors : Holding(a)' = Holding(a) \ {token} /\ token \notin Holding(a)
          BY <1>0, <3>1, <4>1, RowMoves DEF Holding
        <4> QED
          BY <4>2
      <3>2. CASE runRows[token] # "absent"
        BY <1>5, <2>2, <3>2, HoldingStays DEF CreateFailedRun, InsertRun
      <3> QED
        BY <3>1, <3>2
    <2> QED
      BY <2>1, <2>6, <2>7, <2>8, AccountsRest
  <1>6. ASSUME NEW c \in Callers, OpsTick(c) PROVE AccountTypes' /\ AdmissionAccounts'
    <2>1. PICK new : new = [pc |-> IF runRows[wfSchedule.next] = "absent" THEN "claim" ELSE "advance",
                            token |-> wfSchedule.next, sched |-> TRUE, at |-> opsNow]
      OBVIOUS
    <2>2. new.pc # "create"
      BY <2>1
    <2>3. /\ caller' = [caller EXCEPT ![c] = new] /\ caller[c].pc # "create"
          /\ UNCHANGED <<counters, runRows, extra, leaked>>
      BY <1>6, <2>1 DEF OpsTick
    <2> QED
      BY <1>3, <2>2, <2>3
  <1>7. ASSUME NEW c \in Callers, AdvanceSchedule(c) PROVE AccountTypes' /\ AdmissionAccounts'
    <2>1. /\ caller' = [caller EXCEPT ![c] = Resting] /\ caller[c].pc # "create"
          /\ UNCHANGED <<counters, runRows, extra, leaked>>
      BY <1>7 DEF AdvanceSchedule, Return
    <2> QED
      BY <1>0, <1>3, <2>1
  <1>8. ASSUME NEW enabled \in BOOLEAN, CreateSchedule(enabled) \/ UpdateSchedule(enabled)
        PROVE  AccountTypes' /\ AdmissionAccounts'
    BY <1>2, <1>8 DEF CreateSchedule, UpdateSchedule
  <1>9. CASE DeleteSchedule \/ OpsTime \/ UNCHANGED opsVars
    BY <1>2, <1>9 DEF DeleteSchedule, OpsTime, opsVars
  <1> QED
    BY <1>4, <1>5, <1>6, <1>7, <1>8, <1>9, ClaimAccounts, InsertAccounts, EndAccounts, ReleaseAccounts,
       CrashAccounts DEF OpsNext

\* For any number of callers, actors and starts, and crashes anywhere: each
\* counter says what is held, claimed and leaked, less what was released too
\* often, and the counter of the workflow is the sum of the actors'.
THEOREM AdmissionAlwaysAccounts == OpsSpec => []AdmissionAccounts
  <1>1. ASSUME OpsInit PROVE AccountInv
    <2>1. OpsInv
      BY <1>1, OpsAssumption, RestingState DEF OpsInit, OpsInv, RowStates, NoSchedule
    <2>2. AccountTypes
      BY <1>1 DEF OpsInit, AccountTypes
    <2>3. /\ Held("workflow") = 0 /\ \A a \in Actors : Held(a) = 0 /\ Holding(a) = {} /\ Claiming(a) = {}
      BY <1>1 DEF OpsInit, Held, Holding, Claiming, Resting
    <2>4. \A a \in Actors : leaked[a] = 0 /\ extra[a] = 0
      BY <1>1 DEF OpsInit
    <2>5. SumOverActors([a \in Actors |-> Held(a)]) = 0
      <3>1. PICK h : h = [a \in Actors |-> Held(a)]
        OBVIOUS
      <3>2. h = [a \in Actors |-> 0]
        BY <2>3, <3>1
      <3> QED
        BY <3>1, <3>2, SumOfNothing
    <2>6. \A a \in Actors : Held(a) = Cardinality(Holding(a)) + Cardinality(Claiming(a)) + leaked[a] - extra[a]
      BY <2>3, <2>4, FS_EmptySet
    <2> QED
      BY <2>1, <2>2, <2>3, <2>5, <2>6 DEF AccountInv, AdmissionAccounts
  <1>2. AccountInv /\ [OpsNext]_opsVars => AccountInv'
    BY AccountStep
  <1>3. AccountInv => AdmissionAccounts
    BY DEF AccountInv
  <1> QED
    BY <1>1, <1>2, <1>3, PTL DEF OpsSpec

-----------------------------------------------------------------------------
(* The rate limiters *)

LastTick == MaxRateTime + 1

\* A ledger l at time r: what was let through never shrinks, and the ticks to
\* come have seen nothing yet.
LedgerOK(l, r) ==
    /\ l \in [0..LastTick -> Nat]
    /\ \A j, k \in 0..LastTick : j <= k => l[j] <= l[k]
    /\ \A k \in 0..LastTick : k > r => l[k] = l[r + 1]

\* No n ticks saw more than lim.
Bounded(l, n, lim) ==
    \A from \in 0..MaxRateTime :
        l[IF from + n <= MaxRateTime THEN from + n ELSE LastTick] - l[from] <= lim

More(l, r, n) == [k \in 0..LastTick |-> IF k > r THEN l[k] + n ELSE l[k]]

\* The window w counts what its identity was let through since it started; it
\* lets nothing through once it is over; the window before it let through no
\* more than lim.
Counts(l, r, w, lim) ==
    /\ w.started \in 0..r /\ w.count \in 0..lim
    /\ l[r + 1] - l[w.started] = w.count
    /\ \A k \in 0..(r + 1) : k >= w.started + WindowLength => l[k] = l[r + 1]
    /\ \A k \in 0..w.started : k >= w.started - WindowLength => l[w.started] - l[k] <= lim

\* An identity without a window was let through no more than lim lately, and
\* nothing in this tick.
Idle(l, r, lim) ==
    /\ l[r + 1] = l[r]
    /\ \A k \in 0..r : k >= r - WindowLength => l[r] - l[k] <= lim

\* Letting n more through in this tick.
LEMMA MoreKeeps ==
    ASSUME NEW l, NEW r \in 0..MaxRateTime, NEW n \in Nat, LedgerOK(l, r)
    PROVE  /\ LedgerOK(More(l, r, n), r)
           /\ \A k \in 0..LastTick : More(l, r, n)[k] = IF k > r THEN l[k] + n ELSE l[k]
<1>1. MaxRateTime \in Nat /\ LastTick \in Nat /\ r + 1 \in 0..LastTick /\ r \in Nat
  BY RateAssumption DEF LastTick
<1>2. \A k \in 0..LastTick : More(l, r, n)[k] = IF k > r THEN l[k] + n ELSE l[k]
  BY DEF More
<1>3. l \in [0..LastTick -> Nat] /\ (\A j, k \in 0..LastTick : j <= k => l[j] <= l[k])
      /\ \A k \in 0..LastTick : k > r => l[k] = l[r + 1]
  BY DEF LedgerOK
<1>4. More(l, r, n) \in [0..LastTick -> Nat]
  BY <1>3 DEF More
<1>5. ASSUME NEW j \in 0..LastTick, NEW k \in 0..LastTick, j <= k PROVE More(l, r, n)[j] <= More(l, r, n)[k]
  <2>1. l[j] \in Nat /\ l[k] \in Nat /\ l[j] <= l[k]
    BY <1>3, <1>5
  <2> QED BY <1>1, <1>2, <1>5, <2>1
<1>6. ASSUME NEW k \in 0..LastTick, k > r PROVE More(l, r, n)[k] = More(l, r, n)[r + 1]
  <2>1. More(l, r, n)[k] = l[k] + n /\ More(l, r, n)[r + 1] = l[r + 1] + n
    BY <1>1, <1>2, <1>6
  <2> QED BY <1>3, <1>6, <2>1
<1>7. LedgerOK(More(l, r, n), r)
  BY <1>4, <1>5, <1>6 DEF LedgerOK
<1> QED BY <1>2, <1>7

\* The ledger as the clock moves on.
LEMMA TickLedger ==
    ASSUME NEW l, NEW r \in 0..MaxRateTime, r < MaxRateTime, LedgerOK(l, r)
    PROVE  LedgerOK(l, r + 1) /\ l[r + 2] = l[r + 1] /\ r + 2 \in 0..LastTick /\ r + 1 \in 0..LastTick
<1>1. MaxRateTime \in Nat /\ r + 2 \in 0..LastTick /\ r + 1 \in 0..LastTick /\ r + 2 > r /\ r \in Nat
  BY RateAssumption DEF LastTick
<1>2. l[r + 2] = l[r + 1]
  BY <1>1 DEF LedgerOK
<1>3. ASSUME NEW k \in 0..LastTick, k > r + 1 PROVE l[k] = l[r + 2]
  <2>1. k > r
    BY <1>1, <1>3
  <2> QED BY <1>2, <2>1 DEF LedgerOK
<1>4. (r + 1) + 1 = r + 2
  BY <1>1
<1> QED BY <1>1, <1>2, <1>3, <1>4 DEF LedgerOK

\* The clock.
LEMMA CountsTick ==
    ASSUME NEW l, NEW r \in 0..MaxRateTime, r < MaxRateTime, LedgerOK(l, r), NEW w, NEW lim \in Nat,
           Counts(l, r, w, lim)
    PROVE  Counts(l, r + 1, w, lim)
<1>1. /\ r \in Nat /\ l[r + 2] = l[r + 1] /\ (r + 1) + 1 = r + 2 /\ w.started \in 0..(r + 1)
      /\ w.count \in 0..lim
  BY TickLedger DEF Counts
<1>2. ASSUME NEW k \in 0..(r + 2), k >= w.started + WindowLength PROVE l[k] = l[r + 2]
  <2>1. CASE k = r + 2
    BY <2>1
  <2>2. CASE k \in 0..(r + 1)
    BY <1>1, <1>2, <2>2 DEF Counts
  <2> QED BY <1>1, <2>1, <2>2
<1> QED BY <1>1, <1>2 DEF Counts

\* ... and whoever has no window stays idle.
LEMMA IdleTick ==
    ASSUME NEW l, NEW r \in 0..MaxRateTime, r < MaxRateTime, LedgerOK(l, r), NEW lim \in Nat, Idle(l, r, lim)
    PROVE  Idle(l, r + 1, lim)
<1>0. l[r + 2] = l[r + 1] /\ r + 1 \in 0..LastTick
  BY TickLedger
<1>1. r \in Nat /\ l[r + 2] = l[r + 1] /\ (r + 1) + 1 = r + 2 /\ l[r + 1] = l[r] /\ l[r + 1] \in Nat
      /\ WindowLength \in Nat
  BY <1>0, RateAssumption DEF Idle, LedgerOK
<1>2. ASSUME NEW k \in 0..(r + 1), k >= r + 1 - WindowLength PROVE l[r + 1] - l[k] <= lim
  <2>1. CASE k = r + 1
    BY <1>1, <2>1
  <2>2. CASE k \in 0..r
    <3>1. k >= r - WindowLength
      BY <1>1, <1>2, <2>2
    <3> QED BY <1>1, <2>2, <3>1 DEF Idle
  <2> QED BY <1>1, <2>1, <2>2
<1> QED BY <1>1, <1>2 DEF Idle

\* A window that is over counts for nothing any more,
LEMMA OverIsIdle ==
    ASSUME NEW l, NEW r \in 0..MaxRateTime, LedgerOK(l, r), NEW w, NEW lim \in Nat, Counts(l, r, w, lim),
           r - w.started >= WindowLength
    PROVE  Idle(l, r, lim)
<1>1. /\ r \in Nat /\ WindowLength \in Nat /\ w.started \in 0..r /\ r \in 0..LastTick /\ r + 1 \in 0..LastTick
      /\ w.count \in Nat /\ w.count <= lim /\ l[r + 1] - l[w.started] = w.count /\ l \in [0..LastTick -> Nat]
      /\ w.started \in 0..LastTick
  BY RateAssumption DEF Counts, LastTick, LedgerOK
<1>2. r >= w.started + WindowLength /\ r \in 0..(r + 1)
  BY <1>1
<1>3. l[r + 1] = l[r]
  BY <1>2 DEF Counts
<1>4. ASSUME NEW k \in 0..r, k >= r - WindowLength PROVE l[r] - l[k] <= lim
  <2>1. k >= w.started /\ k \in 0..LastTick
    <3>1. PICK s : s = w.started
      OBVIOUS
    <3>2. s \in 0..r /\ r >= s + WindowLength /\ WindowLength \in Nat /\ r \in 0..LastTick /\ LastTick \in Nat
      BY <1>1, <1>2, <3>1, RateAssumption DEF LastTick
    <3>3. k >= s /\ k \in 0..LastTick
      BY <1>4, <3>2
    <3> QED BY <3>1, <3>3
  <2>2. l[w.started] <= l[k]
    BY <1>1, <2>1 DEF LedgerOK
  <2>3. l[k] \in Nat /\ l[w.started] \in Nat /\ l[r] \in Nat
    BY <1>1, <2>1
  <2> QED BY <1>1, <1>3, <2>2, <2>3
<1> QED BY <1>3, <1>4 DEF Idle

\* ... and whoever has none gets a new one.
LEMMA IdleStarts ==
    ASSUME NEW l, NEW r \in 0..MaxRateTime, LedgerOK(l, r), NEW lim \in Nat, Idle(l, r, lim)
    PROVE  Counts(l, r, [started |-> r, count |-> 0], lim)
<1>1. PICK w : w = [started |-> r, count |-> 0]
  OBVIOUS
<1>2. w.started = r /\ w.count = 0
  BY <1>1
<1>3. r \in Nat /\ WindowLength \in Nat \ {0} /\ l[r + 1] = l[r] /\ r \in 0..LastTick /\ l[r] \in Nat
  BY RateAssumption DEF Idle, LastTick, LedgerOK
<1>4. ASSUME NEW k \in 0..(r + 1), k >= r + WindowLength PROVE l[k] = l[r + 1]
  <2>1. k = r + 1
    BY <1>3, <1>4
  <2> QED BY <2>1
<1>5. l[r + 1] - l[r] = 0 /\ r \in 0..r /\ 0 \in 0..lim
  BY <1>3
<1>6. \A k \in 0..r : k >= r - WindowLength => l[r] - l[k] <= lim
  BY DEF Idle
<1>7. Counts(l, r, w, lim)
  BY <1>2, <1>4, <1>5, <1>6 DEF Counts
<1> QED BY <1>1, <1>7

\* One more in a window that has room.
LEMMA CountsMore ==
    ASSUME NEW l, NEW r \in 0..MaxRateTime, LedgerOK(l, r), NEW w, NEW lim \in Nat, Counts(l, r, w, lim),
           r - w.started < WindowLength, w.count < lim, Bounded(l, WindowLength, 2 * lim),
           NEW v, v.started = w.started, v.count = w.count + 1
    PROVE  Counts(More(l, r, 1), r, v, lim) /\ Bounded(More(l, r, 1), WindowLength, 2 * lim)
<1>1. PICK m : m = More(l, r, 1)
  OBVIOUS
<1>2. LedgerOK(m, r) /\ \A k \in 0..LastTick : m[k] = IF k > r THEN l[k] + 1 ELSE l[k]
  <2>1. LedgerOK(m, r)
    BY <1>1, MoreKeeps
  <2>2. \A k \in 0..LastTick : m[k] = IF k > r THEN l[k] + 1 ELSE l[k]
    BY <1>1 DEF More
  <2> QED BY <2>1, <2>2
<1>3. PICK s : s = w.started
  OBVIOUS
<1>4. PICK c : c = w.count
  OBVIOUS
<1>5. /\ r \in Nat /\ MaxRateTime \in Nat /\ r <= MaxRateTime /\ LastTick = MaxRateTime + 1
      /\ WindowLength \in Nat \ {0} /\ s \in 0..r /\ c \in Nat /\ c < lim
      /\ l \in [0..LastTick -> Nat] /\ m \in [0..LastTick -> Nat] /\ r - s < WindowLength
  <2>1. l \in [0..LastTick -> Nat] /\ m \in [0..LastTick -> Nat]
    BY <1>2 DEF LedgerOK
  <2>2. s \in 0..r /\ c \in 0..lim /\ c < lim /\ r - s < WindowLength
    BY <1>3, <1>4 DEF Counts
  <2> QED BY <2>1, <2>2, RateAssumption DEF LastTick
<1>6. m[r + 1] = l[r + 1] + 1 /\ m[s] = l[s] /\ m[s] \in Nat /\ m[r + 1] \in Nat /\ l[r + 1] \in Nat
  BY <1>2, <1>5
<1>7. m[r + 1] - m[s] = c + 1
  <2>1. l[r + 1] - l[s] = c
    BY <1>3, <1>4 DEF Counts
  <2>2. PICK x \in Nat : x = l[r + 1]
    BY <1>6
  <2>3. PICK y \in Nat : y = l[s]
    BY <1>6
  <2>4. x - y = c /\ m[r + 1] = x + 1 /\ m[s] = y
    BY <1>6, <2>1, <2>2, <2>3
  <2>5. (x + 1) - y = c + 1
    BY <1>5, <2>4
  <2> QED BY <2>4, <2>5
<1>8. ASSUME NEW k \in 0..(r + 1), k >= s + WindowLength PROVE m[k] = m[r + 1]
  <2>1. k = r + 1
    BY <1>5, <1>8
  <2> QED BY <2>1
<1>9. ASSUME NEW k \in 0..s, k >= s - WindowLength PROVE m[s] - m[k] <= lim
  <2>1. m[k] = l[k] /\ l[k] \in Nat
    BY <1>2, <1>5
  <2>2. l[s] - l[k] <= lim
    BY <1>3, <1>9 DEF Counts
  <2> QED BY <1>6, <2>1, <2>2
<1>10. Counts(m, r, v, lim)
  <2>0. c + 1 \in 0..lim /\ s \in 0..r
    BY <1>5
  <2>1. v.started = s /\ v.count = c + 1
    BY <1>3, <1>4
  <2> QED BY <1>7, <1>8, <1>9, <2>0, <2>1 DEF Counts
<1>11. ASSUME NEW from \in 0..MaxRateTime
       PROVE  m[IF from + WindowLength <= MaxRateTime THEN from + WindowLength ELSE LastTick] - m[from] <= 2 * lim
  <2>1. PICK to : to = IF from + WindowLength <= MaxRateTime THEN from + WindowLength ELSE LastTick
    OBVIOUS
  <2>2. to \in 0..LastTick /\ from < to /\ to <= from + WindowLength /\ from \in 0..LastTick
    BY <1>5, <2>1
  <2>3. l[to] - l[from] <= 2 * lim
    BY <2>1 DEF Bounded
  <2>4. l[to] \in Nat /\ l[from] \in Nat /\ m[to] \in Nat /\ m[from] \in Nat
    BY <1>5, <2>2
  <2> SUFFICES m[to] - m[from] <= 2 * lim
    BY <2>1
  <2>5. CASE to <= r
    <3>1. m[to] = l[to] /\ m[from] = l[from]
      BY <1>2, <1>5, <2>2, <2>5
    <3> QED BY <2>3, <3>1
  <2>6. CASE from > r
    <3>1. m[to] = l[to] + 1 /\ m[from] = l[from] + 1
      BY <1>2, <1>5, <2>2, <2>6
    <3>2. ASSUME NEW x \in Nat, NEW y \in Nat, x - y <= 2 * lim PROVE (x + 1) - (y + 1) <= 2 * lim
      BY <3>2
    <3> QED BY <2>3, <2>4, <3>1, <3>2
  <2>7. CASE from <= r /\ r < to
    <3>1. m[to] = m[r + 1]
      BY <1>2, <2>2, <2>7, <1>5 DEF LedgerOK
    <3>2. PICK x \in Nat : x = m[r + 1]
      BY <1>6
    <3>3. PICK y \in Nat : y = m[s]
      BY <1>6
    <3>4. PICK z \in Nat : z = m[from]
      BY <2>4
    <3>5. x - y = c + 1 /\ c < lim /\ c \in Nat
      BY <1>5, <1>7, <3>2, <3>3
    <3>6. y <= z \/ y - z <= lim
      <4>1. CASE from >= s
        <5>1. s \in 0..LastTick /\ s <= from
          BY <1>5, <2>2, <4>1
        <5>2. m[s] <= m[from]
          BY <1>2, <2>2, <5>1 DEF LedgerOK
        <5> QED BY <3>3, <3>4, <5>2
      <4>2. CASE from < s
        <5>1. from \in 0..s /\ from >= s - WindowLength
          BY <1>5, <2>2, <2>7, <4>2
        <5> QED BY <1>9, <3>3, <3>4, <5>1
      <4> QED BY <1>5, <2>2, <4>1, <4>2
    <3>7. x - z <= 2 * lim
      BY <3>5, <3>6
    <3> QED BY <3>1, <3>2, <3>4, <3>7
  <2> QED BY <1>5, <2>2, <2>5, <2>6, <2>7
<1>12. Bounded(m, WindowLength, 2 * lim)
  BY <1>11 DEF Bounded
<1> QED BY <1>1, <1>10, <1>12

Everyone == Identities \cup RateActors
Window == [started: Nat, count: Nat]

\* The windows ws fit the ledgers led.
WindowsFit(ws, led) ==
    /\ ws = [i \in DOMAIN ws |-> ws[i]] /\ DOMAIN ws \subseteq Identities
    /\ \A i \in DOMAIN ws : ws[i] \in Window /\ Counts(led[i], rateTime, ws[i], LimitOf(i))
    /\ \A i \in Identities \ DOMAIN ws : Idle(led[i], rateTime, LimitOf(i))

LedgersOK(led) ==
    /\ rateTime \in 0..MaxRateTime
    /\ led = [i \in Everyone |-> led[i]]
    /\ \A i \in Everyone : LedgerOK(led[i], rateTime)

EdgeBounded(led) == \A i \in Identities : Bounded(led[i], WindowLength, 2 * LimitOf(i))

\* Every limit is a number.
LEMMA LimitsAre == \A i \in Everyone : LimitOf(i) \in Nat
BY RateAssumption DEF LimitOf

\* A window is opened where there is no current one.
LEMMA WithWindowFits ==
    ASSUME NEW led, LedgersOK(led), NEW ws, WindowsFit(ws, led), NEW i \in Identities
    PROVE  /\ WindowsFit(WithWindow(ws, i), led)
           /\ i \in DOMAIN WithWindow(ws, i)
           /\ rateTime - WithWindow(ws, i)[i].started < WindowLength
           /\ \A j \in DOMAIN ws : j # i => j \in DOMAIN WithWindow(ws, i) /\ WithWindow(ws, i)[j] = ws[j]
<1>0. rateTime \in 0..MaxRateTime /\ LimitOf(i) \in Nat /\ LedgerOK(led[i], rateTime)
  BY LimitsAre DEF LedgersOK, Everyone
<1>1. CASE i \in DOMAIN ws /\ rateTime - ws[i].started < WindowLength
  BY <1>1 DEF WithWindow
<1>2. CASE ~(i \in DOMAIN ws /\ rateTime - ws[i].started < WindowLength)
  <2>1. PICK new : new = [started |-> rateTime, count |-> 0]
    OBVIOUS
  <2>2. PICK vs : vs = WithWindow(ws, i)
    OBVIOUS
  <2>3. vs = [j \in DOMAIN ws \cup {i} |-> IF j = i THEN new ELSE ws[j]]
    BY <1>2, <2>1, <2>2 DEF WithWindow
  <2>4. /\ DOMAIN vs = DOMAIN ws \cup {i} /\ vs[i] = new /\ \A j \in DOMAIN ws : j # i => vs[j] = ws[j]
        /\ vs = [j \in DOMAIN vs |-> vs[j]]
    BY <2>3
  <2>5. Idle(led[i], rateTime, LimitOf(i))
    <3>1. CASE i \in DOMAIN ws
      <4>1. Counts(led[i], rateTime, ws[i], LimitOf(i)) /\ ws[i] \in Window
        BY <3>1 DEF WindowsFit
      <4>2. rateTime - ws[i].started >= WindowLength
        BY <1>0, <1>2, <3>1, <4>1, RateAssumption DEF Window
      <4> QED BY <1>0, <4>1, <4>2, OverIsIdle
    <3>2. CASE i \notin DOMAIN ws
      BY <3>2 DEF WindowsFit
    <3> QED BY <3>1, <3>2
  <2>6. Counts(led[i], rateTime, new, LimitOf(i))
    BY <1>0, <2>1, <2>5, IdleStarts
  <2>7. new \in Window /\ rateTime - new.started < WindowLength
    BY <1>0, <2>1, RateAssumption DEF Window
  <2>8. \A j \in DOMAIN vs : vs[j] \in Window /\ Counts(led[j], rateTime, vs[j], LimitOf(j))
    BY <2>4, <2>6, <2>7 DEF WindowsFit
  <2>9. DOMAIN vs \subseteq Identities /\ \A j \in Identities \ DOMAIN vs : Idle(led[j], rateTime, LimitOf(j))
    BY <2>4 DEF WindowsFit
  <2>10. WindowsFit(vs, led)
    BY <2>4, <2>8, <2>9 DEF WindowsFit
  <2> QED BY <2>2, <2>4, <2>7, <2>10
<1> QED BY <1>1, <1>2

\* _remove_stale.
LEMMA RemoveStaleFits ==
    ASSUME NEW led, LedgersOK(led), NEW ws, WindowsFit(ws, led)
    PROVE  WindowsFit(RemoveStale(ws), led)
<1>0. rateTime \in 0..MaxRateTime /\ \A i \in Identities : LimitOf(i) \in Nat /\ LedgerOK(led[i], rateTime)
  BY LimitsAre DEF LedgersOK, Everyone
<1>1. PICK vs : vs = RemoveStale(ws)
  OBVIOUS
<1>2. /\ DOMAIN vs = {j \in DOMAIN ws : ws[j].started > rateTime - WindowLength}
      /\ vs = [j \in DOMAIN vs |-> vs[j]] /\ \A j \in DOMAIN vs : vs[j] = ws[j]
  BY <1>1 DEF RemoveStale
<1>3. ASSUME NEW i \in Identities, i \notin DOMAIN vs PROVE Idle(led[i], rateTime, LimitOf(i))
  <2>1. CASE i \in DOMAIN ws
    <3>1. Counts(led[i], rateTime, ws[i], LimitOf(i)) /\ ws[i] \in Window
      BY <2>1 DEF WindowsFit
    <3>2. ~(ws[i].started > rateTime - WindowLength)
      BY <1>2, <1>3, <2>1
    <3>3. rateTime - ws[i].started >= WindowLength
      BY <1>0, <3>1, <3>2, RateAssumption DEF Window
    <3> QED BY <1>0, <3>1, <3>3, OverIsIdle
  <2>2. CASE i \notin DOMAIN ws
    BY <2>2 DEF WindowsFit
  <2> QED BY <2>1, <2>2
<1> QED BY <1>1, <1>2, <1>3 DEF WindowsFit

\* Granted, spelled out over all ticks.
LEMMA GrantedIsMore ==
    ASSUME LedgersOK(ledger), NEW i \in Everyone, NEW n
    PROVE  Granted(ledger[i], n) = More(ledger[i], rateTime, n)
<1>1. DOMAIN ledger[i] = 0..LastTick
  BY DEF LedgersOK, LedgerOK
<1> QED BY <1>1 DEF Granted, More

\* check() keeps the windows in step with what it lets through.
LEMMA CheckFits ==
    ASSUME LedgersOK(ledger), WindowsFit(windows, ledger), EdgeBounded(ledger),
           NEW ip \in Ips, NEW key \in ApiKeys \cup {NoKey}, CheckRate(ip, key)
    PROVE  /\ LedgersOK(ledger') /\ WindowsFit(windows', ledger') /\ EdgeBounded(ledger')
           /\ UNCHANGED <<rateTime, stamps, buckets>>
           /\ \A a \in RateActors : ledger'[a] = ledger[a]
<1> DEFINE first == WithWindow(windows, ip)
           both == IF key = NoKey THEN first ELSE WithWindow(first, key)
           asked == {ip} \cup ({key} \ {NoKey})
           counted == [i \in DOMAIN both |-> IF i \in asked THEN [both[i] EXCEPT !.count = @ + 1] ELSE both[i]]
           more == [i \in DOMAIN ledger |-> IF i \in asked THEN Granted(ledger[i], 1) ELSE ledger[i]]
<1>1. /\ UNCHANGED <<rateTime, stamps, buckets>>
      /\ \/ windows' = first /\ ledger' = ledger
         \/ windows' = both /\ ledger' = ledger
         \/ /\ ~(first[ip].count >= IpLimit)
            /\ ~(key # NoKey /\ both[key].count >= KeyLimit)
            /\ windows' = counted \/ windows' = RemoveStale(counted)
            /\ ledger' = more
  BY DEF CheckRate
<1>2. /\ ip \in Identities /\ (key # NoKey => key \in Identities /\ key \notin Ips /\ key # ip)
      /\ asked \subseteq Identities /\ asked \subseteq {ip, key} /\ (key = NoKey => asked = {ip})
      /\ LimitOf(ip) = IpLimit /\ (key # NoKey => LimitOf(key) = KeyLimit)
  BY RateAssumption DEF Identities, LimitOf
<1>3. /\ WindowsFit(first, ledger) /\ ip \in DOMAIN first /\ rateTime - first[ip].started < WindowLength
  BY <1>2, WithWindowFits
<1>4. /\ WindowsFit(both, ledger) /\ ip \in DOMAIN both /\ both[ip] = first[ip]
      /\ (key # NoKey => key \in DOMAIN both /\ rateTime - both[key].started < WindowLength)
  <2>1. CASE key = NoKey
    BY <1>3, <2>1
  <2>2. CASE key # NoKey
    BY <1>2, <1>3, <2>2, WithWindowFits
  <2> QED BY <2>1, <2>2
<1> HIDE DEF first, both, asked
<1>5. CASE (windows' = first \/ windows' = both) /\ ledger' = ledger
  BY <1>1, <1>3, <1>4, <1>5
<1>6. CASE /\ ~(first[ip].count >= IpLimit) /\ ~(key # NoKey /\ both[key].count >= KeyLimit)
           /\ windows' = counted \/ windows' = RemoveStale(counted)
           /\ ledger' = more
  <2>1. ASSUME NEW i \in asked
        PROVE  /\ i \in DOMAIN both /\ both[i] \in Window /\ rateTime - both[i].started < WindowLength
               /\ both[i].count < LimitOf(i) /\ Counts(ledger[i], rateTime, both[i], LimitOf(i))
               /\ i \in Identities /\ LimitOf(i) \in Nat
    <3>1. i = ip \/ (i = key /\ key # NoKey)
      BY <1>2
    <3>2. i \in DOMAIN both /\ rateTime - both[i].started < WindowLength /\ i \in Identities
      BY <1>2, <1>3, <1>4, <3>1
    <3>3. both[i] \in Window /\ Counts(ledger[i], rateTime, both[i], LimitOf(i))
      BY <1>4, <3>2 DEF WindowsFit
    <3>4. LimitOf(i) \in Nat
      BY <3>2, LimitsAre DEF Everyone
    <3>5. ~(both[i].count >= LimitOf(i))
      BY <1>2, <1>4, <1>6, <3>1
    <3>6. both[i].count < LimitOf(i)
      BY <3>3, <3>4, <3>5 DEF Window
    <3> QED BY <3>2, <3>3, <3>4, <3>6
  <2>2. DOMAIN ledger = Everyone /\ asked \subseteq Everyone /\ DOMAIN both \subseteq Identities
    BY <1>2, <1>4 DEF LedgersOK, Everyone, WindowsFit
  <2>3. /\ DOMAIN more = Everyone /\ more = [i \in Everyone |-> more[i]]
        /\ \A i \in Everyone \ asked : more[i] = ledger[i]
        /\ \A i \in asked : more[i] = More(ledger[i], rateTime, 1)
    BY <2>2, GrantedIsMore
  <2>4. /\ DOMAIN counted = DOMAIN both /\ counted = [i \in DOMAIN counted |-> counted[i]]
        /\ \A i \in DOMAIN both : i \notin asked => counted[i] = both[i]
    OBVIOUS
  <2>5. ASSUME NEW i \in asked
        PROVE  counted[i] \in Window /\ counted[i].started = both[i].started /\ counted[i].count = both[i].count + 1
    <3>1. counted[i] = [both[i] EXCEPT !.count = both[i].count + 1]
      BY <2>1, <2>5
    <3> HIDE DEF counted
    <3> QED BY <2>1, <2>5, <3>1 DEF Window
  <2> HIDE DEF counted, more
  <2>6. ASSUME NEW i \in asked
        PROVE  /\ LedgerOK(more[i], rateTime) /\ Counts(more[i], rateTime, counted[i], LimitOf(i))
               /\ Bounded(more[i], WindowLength, 2 * LimitOf(i))
    <3>1. rateTime \in 0..MaxRateTime /\ LedgerOK(ledger[i], rateTime) /\ Bounded(ledger[i], WindowLength, 2 * LimitOf(i))
      BY <2>1, <2>2 DEF LedgersOK, EdgeBounded
    <3>2. LedgerOK(More(ledger[i], rateTime, 1), rateTime)
      BY <3>1, MoreKeeps
    <3>3. /\ Counts(More(ledger[i], rateTime, 1), rateTime, counted[i], LimitOf(i))
          /\ Bounded(More(ledger[i], rateTime, 1), WindowLength, 2 * LimitOf(i))
      BY <2>1, <2>5, <3>1, CountsMore
    <3> QED BY <2>3, <3>2, <3>3
  <2>7. LedgersOK(more)
    BY <2>3, <2>6 DEF LedgersOK
  <2>8. EdgeBounded(more)
    BY <2>2, <2>3, <2>6 DEF EdgeBounded, Everyone
  <2>9. WindowsFit(counted, more)
    <3>1. ASSUME NEW i \in DOMAIN counted
          PROVE  counted[i] \in Window /\ Counts(more[i], rateTime, counted[i], LimitOf(i))
      <4>1. CASE i \in asked
        BY <2>5, <2>6, <4>1
      <4>2. CASE i \notin asked
        <5>1. counted[i] = both[i] /\ more[i] = ledger[i] /\ i \in DOMAIN both
          BY <2>2, <2>3, <2>4, <4>2 DEF Everyone
        <5> QED BY <1>4, <5>1 DEF WindowsFit
      <4> QED BY <4>1, <4>2
    <3>2. ASSUME NEW i \in Identities \ DOMAIN counted PROVE Idle(more[i], rateTime, LimitOf(i))
      <4>1. i \notin asked /\ i \in Everyone /\ i \notin DOMAIN both
        BY <2>1, <2>4 DEF Everyone
      <4> QED BY <1>4, <2>3, <4>1 DEF WindowsFit
    <3> QED BY <2>2, <2>4, <3>1, <3>2 DEF WindowsFit
  <2>10. WindowsFit(windows', more)
    BY <1>6, <2>7, <2>9, RemoveStaleFits
  <2>11. \A a \in RateActors : more[a] = ledger[a]
    BY <1>2, <2>3, RateAssumption DEF Everyone, Identities
  <2> QED BY <1>1, <1>6, <2>7, <2>8, <2>10, <2>11
<1> HIDE DEF counted, more
<1> QED BY <1>1, <1>5, <1>6

-----------------------------------------------------------------------------
(* The rolling window of an actor *)

\* The bucket b still holds everything granted within a window less the wait
\* for the lock, and the entries of what was granted from tick k on are its
\* last ones, none of them read from the clock much before k.
Holds(l, r, b) ==
    /\ b \in Seq(Nat)
    /\ \A k \in 0..(r + 1) : r - k < WindowLength - Lag => l[r + 1] - l[k] <= Len(b)
    /\ \A k \in 0..r : \A j \in 1..Len(b) : j > Len(b) - (l[r + 1] - l[k]) => b[j] >= k - Lag

\* The bucket as the clock moves on.
LEMMA HoldsTick ==
    ASSUME NEW l, NEW r \in 0..MaxRateTime, r < MaxRateTime, LedgerOK(l, r), NEW b, Holds(l, r, b)
    PROVE  Holds(l, r + 1, b)
<1>0. r \in Nat /\ (r + 1) + 1 = r + 2 /\ WindowLength \in Nat /\ Lag \in Nat /\ b \in Seq(Nat) /\ Len(b) \in Nat
  BY RateAssumption DEF Holds
<1>1. l[r + 2] = l[r + 1] /\ r + 1 \in 0..LastTick /\ r + 2 \in 0..LastTick
  BY TickLedger
<1>2. l[r + 1] \in Nat /\ l[r + 2] \in Nat
  BY <1>1 DEF LedgerOK
<1>3. ASSUME NEW k \in 0..(r + 2), (r + 1) - k < WindowLength - Lag PROVE l[r + 2] - l[k] <= Len(b)
  <2>1. CASE k = r + 2
    BY <1>0, <1>2, <2>1
  <2>2. CASE k \in 0..(r + 1)
    <3>1. r - k < WindowLength - Lag
      BY <1>0, <1>3, <2>2
    <3> QED BY <1>1, <2>2, <3>1 DEF Holds
  <2> QED BY <1>0, <2>1, <2>2
<1>4. ASSUME NEW k \in 0..(r + 1), NEW j \in 1..Len(b), j > Len(b) - (l[r + 2] - l[k]) PROVE b[j] >= k - Lag
  <2>1. CASE k = r + 1
    <3>1. l[r + 2] - l[k] = 0
      BY <1>1, <1>2, <2>1
    <3>2. j > Len(b) - 0
      BY <1>4, <3>1
    <3> QED BY <1>0, <3>2
  <2>2. CASE k \in 0..r
    BY <1>1, <1>4, <2>2 DEF Holds
  <2> QED BY <1>0, <2>1, <2>2
<1> QED BY <1>0, <1>3, <1>4 DEF Holds

\* Dropping the head of the bucket drops nothing that still matters.
LEMMA TrimmedHolds ==
    ASSUME NEW l, NEW r \in 0..MaxRateTime, LedgerOK(l, r), NEW b, Holds(l, r, b), NEW at \in 0..r
    PROVE  Holds(l, r, Trimmed(b, at))
<1> DEFINE live == {k \in 1..Len(b) : b[k] > at - WindowLength}
           head == CHOOSE k \in live : \A j \in live : k <= j
<1>0. /\ r \in Nat /\ at \in Nat /\ at <= r /\ WindowLength \in Nat /\ Lag \in Nat
      /\ b \in Seq(Nat) /\ Len(b) \in Nat /\ l \in [0..LastTick -> Nat] /\ LastTick = MaxRateTime + 1
      /\ MaxRateTime \in Nat
  BY RateAssumption DEF Holds, LedgerOK, LastTick
<1>1. \A k \in 0..(r + 1) : l[k] \in Nat /\ l[k] <= l[r + 1] /\ l[r + 1] - l[k] \in Nat
  <2>1. ASSUME NEW k \in 0..(r + 1) PROVE l[k] \in Nat /\ l[r + 1] \in Nat /\ l[k] <= l[r + 1]
    <3>1. k \in 0..LastTick /\ r + 1 \in 0..LastTick /\ k <= r + 1
      BY <1>0
    <3> QED BY <1>0, <3>1 DEF LedgerOK
  <2> QED BY <2>1
<1>2. ASSUME NEW k \in 0..(r + 1), r - k < WindowLength - Lag, l[r + 1] - l[k] > 0
      PROVE  Len(b) - (l[r + 1] - l[k]) + 1 \in live
  <2>1. PICK g \in Nat : g = l[r + 1] - l[k]
    BY <1>1
  <2>2. g > 0 /\ g <= Len(b)
    BY <1>2, <2>1 DEF Holds
  <2>3. k # r + 1
    <3>1. ASSUME k = r + 1 PROVE FALSE
      <4>1. l[r + 1] - l[k] = 0
        BY <1>1, <3>1
      <4> QED BY <1>2, <4>1
    <3> QED BY <3>1
  <2>4. k \in 0..r
    BY <1>0, <2>3
  <2>5. PICK j \in 1..Len(b) : j = Len(b) - g + 1
    <3>1. PICK n \in Nat : n = Len(b)
      BY <1>0
    <3>2. n - g + 1 \in 1..n
      BY <2>2, <3>1
    <3> QED BY <3>1, <3>2
  <2>6. j > Len(b) - g
    BY <1>0, <2>5
  <2>7. b[j] >= k - Lag
    BY <2>1, <2>4, <2>6 DEF Holds
  <2>8. b[j] \in Nat
    BY <1>0
  <2>9. b[j] > at - WindowLength
    BY <1>0, <1>2, <2>4, <2>7, <2>8
  <2> QED BY <2>1, <2>5, <2>9
<1>3. CASE live = {}
  <2>1. Trimmed(b, at) = <<>>
    BY <1>3 DEF Trimmed
  <2>2. ASSUME NEW k \in 0..(r + 1), r - k < WindowLength - Lag PROVE l[r + 1] - l[k] <= 0
    <3>1. PICK g \in Nat : g = l[r + 1] - l[k]
      BY <1>1
    <3>2. ~(g > 0)
      BY <1>2, <1>3, <2>2, <3>1
    <3> QED BY <3>1, <3>2
  <2> QED BY <2>1, <2>2 DEF Holds
<1>4. CASE live # {}
  <2>1. head \in live /\ \A j \in live : head <= j
    <3>1. live \in SUBSET Nat
      BY <1>0
    <3>2. \E x \in live : \A y \in live : ~(y < x)
      BY <1>4, <3>1, LeastOf
    <3>3. PICK x \in live : \A y \in live : ~(y < x)
      BY <3>2
    <3>4. \A y \in live : x <= y
      BY <3>1, <3>3
    <3> QED BY <3>4
  <2>2. PICK h \in 1..Len(b) : h = head
    BY <2>1
  <2>3. PICK left : left = SubSeq(b, h, Len(b))
    OBVIOUS
  <2>4. Trimmed(b, at) = left
    BY <1>4, <2>2, <2>3 DEF Trimmed
  <2>5. /\ left \in Seq(Nat) /\ Len(left) = Len(b) - h + 1
        /\ \A j \in 1..Len(left) : left[j] = b[j + h - 1]
    <3>1. Len(b) \in Nat /\ b = [i \in 1..Len(b) |-> b[i]] /\ \A i \in 1..Len(b) : b[i] \in Nat
      BY <1>0
    <3>2. h \in Nat \ {0} /\ h <= Len(b)
      <4>1. PICK n \in Nat : n = Len(b)
        BY <3>1
      <4>2. h \in 1..n
        BY <2>2, <4>1
      <4> QED BY <4>1, <4>2
    <3>3. left = [j \in 1..(Len(b) - h + 1) |-> b[h + j - 1]]
      BY <2>3, <3>1, <3>2
    <3>4. \A j \in 1..(Len(b) - h + 1) : h + j - 1 \in 1..Len(b) /\ h + j - 1 = j + h - 1
      BY <3>1, <3>2
    <3>5. \A j \in 1..(Len(b) - h + 1) : b[h + j - 1] \in Nat /\ b[h + j - 1] = b[j + h - 1]
      BY <3>1, <3>4
    <3>6. Len(b) - h + 1 \in Nat
      BY <3>1, <3>2
    <3> QED BY <3>3, <3>5, <3>6
  <2>6. \A j \in live : h <= j
    BY <2>1, <2>2
  <2> HIDE DEF live, head
  <2>7. ASSUME NEW k \in 0..(r + 1), r - k < WindowLength - Lag PROVE l[r + 1] - l[k] <= Len(left)
    <3>1. PICK g \in Nat : g = l[r + 1] - l[k]
      BY <1>1
    <3>2. CASE g > 0
      <4>1. Len(b) - g + 1 \in live
        BY <1>2, <2>7, <3>1, <3>2
      <4>2. h <= Len(b) - g + 1
        BY <2>6, <4>1
      <4> QED BY <1>0, <2>5, <3>1, <4>2
    <3>3. CASE g = 0
      BY <1>0, <2>5, <3>1, <3>3
    <3> QED BY <3>1, <3>2, <3>3
  <2>8. ASSUME NEW k \in 0..r, NEW j \in 1..Len(left), j > Len(left) - (l[r + 1] - l[k]) PROVE left[j] >= k - Lag
    <3>0. k \in 0..(r + 1)
      BY <1>0
    <3>1. PICK g \in Nat : g = l[r + 1] - l[k]
      BY <1>1, <3>0
    <3>2. PICK i \in 1..Len(b) : i = j + h - 1
      BY <1>0, <2>5, <2>8
    <3>3. i > Len(b) - g
      BY <1>0, <2>5, <2>8, <3>1, <3>2
    <3>4. b[i] >= k - Lag
      BY <3>1, <3>3 DEF Holds
    <3> QED BY <2>5, <3>2, <3>4
  <2>9. Holds(l, r, left)
    BY <2>5, <2>7, <2>8 DEF Holds
  <2> QED BY <2>4, <2>9
<1> QED BY <1>3, <1>4

\* What appending to a sequence does.
LEMMA Joined ==
    ASSUME NEW s \in Seq(Nat), NEW u \in Seq(Nat)
    PROVE  /\ s \o u \in Seq(Nat) /\ Len(s \o u) = Len(s) + Len(u)
           /\ \A j \in 1..(Len(s) + Len(u)) : (s \o u)[j] = IF j <= Len(s) THEN s[j] ELSE u[j - Len(s)]
<1>1. s \o u \in Seq(Nat)
  OBVIOUS
<1>2. Len(s \o u) = Len(s) + Len(u)
  OBVIOUS
<1>3. \A j \in 1..(Len(s) + Len(u)) : (s \o u)[j] = IF j <= Len(s) THEN s[j] ELSE u[j - Len(s)]
  OBVIOUS
<1> QED BY <1>1, <1>2, <1>3

\* Granting c slots that fit keeps every shortened window within the limit.
LEMMA GrantHolds ==
    ASSUME NEW l, NEW r \in 0..MaxRateTime, LedgerOK(l, r), NEW b, Holds(l, r, b),
           NEW at \in 0..r, r - at <= Lag, NEW c \in Nat, Len(b) + c <= ActorLimit,
           Bounded(l, WindowLength - Lag, ActorLimit)
    PROVE  /\ Holds(More(l, r, c), r, b \o [k \in 1..c |-> at])
           /\ Bounded(More(l, r, c), WindowLength - Lag, ActorLimit)
<1>1. PICK m : m = More(l, r, c)
  OBVIOUS
<1>2. LedgerOK(m, r) /\ \A k \in 0..LastTick : m[k] = IF k > r THEN l[k] + c ELSE l[k]
  <2>1. LedgerOK(m, r)
    BY <1>1, MoreKeeps
  <2>2. \A k \in 0..LastTick : m[k] = IF k > r THEN l[k] + c ELSE l[k]
    BY <1>1 DEF More
  <2> QED BY <2>1, <2>2
<1>3. PICK new : new = [k \in 1..c |-> at]
  OBVIOUS
<1>4. PICK d : d = b \o new
  OBVIOUS
<1>5. /\ r \in Nat /\ MaxRateTime \in Nat /\ r <= MaxRateTime /\ LastTick = MaxRateTime + 1
      /\ WindowLength \in Nat /\ Lag \in Nat /\ Lag <= WindowLength /\ ActorLimit \in Nat
      /\ at \in Nat /\ at >= r - Lag
      /\ b \in Seq(Nat) /\ Len(b) \in Nat /\ l \in [0..LastTick -> Nat] /\ m \in [0..LastTick -> Nat]
  BY <1>2, RateAssumption DEF Holds, LedgerOK, LastTick
<1>6. new \in Seq(Nat) /\ Len(new) = c /\ \A k \in 1..c : new[k] = at
  BY <1>3, <1>5
<1>7. /\ d \in Seq(Nat) /\ Len(d) = Len(b) + c
      /\ \A j \in 1..Len(d) : d[j] = IF j <= Len(b) THEN b[j] ELSE new[j - Len(b)]
  <2>1. /\ b \o new \in Seq(Nat) /\ Len(b \o new) = Len(b) + Len(new)
        /\ \A j \in 1..(Len(b) + Len(new)) : (b \o new)[j] = IF j <= Len(b) THEN b[j] ELSE new[j - Len(b)]
    BY <1>5, <1>6, Joined
  <2> QED BY <1>4, <1>6, <2>1
<1>8. ASSUME NEW k \in 0..r
      PROVE  /\ l[r + 1] \in Nat /\ l[k] \in Nat /\ m[r + 1] - m[k] = (l[r + 1] - l[k]) + c
             /\ l[r + 1] - l[k] \in Nat
  <2>1. k \in 0..LastTick /\ r + 1 \in 0..LastTick /\ k <= r + 1
    BY <1>5
  <2>2. PICK x \in Nat : x = l[r + 1]
    BY <1>5, <2>1
  <2>3. PICK y \in Nat : y = l[k]
    BY <1>5, <2>1
  <2>4. m[r + 1] = x + c /\ m[k] = y /\ y <= x
    BY <1>2, <1>5, <2>1, <2>2, <2>3 DEF LedgerOK
  <2>5. (x + c) - y = (x - y) + c /\ x - y \in Nat
    BY <2>4
  <2> QED BY <2>2, <2>3, <2>4, <2>5
<1>9. ASSUME NEW k \in 0..r, r - k < WindowLength - Lag PROVE m[r + 1] - m[k] <= Len(d)
  <2>1. PICK g \in Nat : g = l[r + 1] - l[k]
    BY <1>8
  <2>2. g <= Len(b)
    <3>1. k \in 0..(r + 1)
      BY <1>5
    <3>2. \A j \in 0..(r + 1) : r - j < WindowLength - Lag => l[r + 1] - l[j] <= Len(b)
      BY DEF Holds
    <3> QED BY <1>9, <2>1, <3>1, <3>2
  <2>3. m[r + 1] - m[k] = g + c
    BY <1>8, <2>1
  <2> QED BY <1>5, <1>7, <2>2, <2>3
<1>10. m[r + 1] - m[r + 1] <= Len(d)
  <2>1. m[r + 1] \in Nat /\ Len(d) \in Nat
    BY <1>5, <1>7
  <2> QED BY <2>1
<1>11. ASSUME NEW k \in 0..r, NEW j \in 1..Len(d), j > Len(d) - (m[r + 1] - m[k]) PROVE d[j] >= k - Lag
  <2>1. PICK g \in Nat : g = l[r + 1] - l[k]
    BY <1>8
  <2>2. j > Len(b) - g
    <3>1. PICK n \in Nat : n = Len(b)
      BY <1>5
    <3>2. j > (n + c) - (g + c)
      BY <1>7, <1>8, <1>11, <2>1, <3>1
    <3>3. j \in Int
      BY <1>11
    <3>4. j > n - g
      BY <3>2, <3>3
    <3> QED BY <3>1, <3>4
  <2>3. CASE j <= Len(b)
    <3>1. j \in 1..Len(b)
      BY <1>5, <1>7, <2>3
    <3>2. b[j] >= k - Lag
      BY <2>1, <2>2, <3>1 DEF Holds
    <3> QED BY <1>7, <2>3, <3>2
  <2>4. CASE j > Len(b)
    <3>1. PICK i \in 1..c : i = j - Len(b)
      <4>1. PICK n \in Nat : n = Len(b)
        BY <1>5
      <4>2. j \in 1..(n + c) /\ j > n
        BY <1>7, <2>4, <4>1
      <4>3. j - n \in 1..c
        BY <4>2
      <4> QED BY <4>1, <4>3
    <3>2. d[j] = new[i]
      BY <1>5, <1>7, <2>4, <3>1
    <3>3. d[j] = at
      BY <1>6, <3>2
    <3> QED BY <1>5, <3>3
  <2> QED BY <1>5, <1>7, <2>3, <2>4
<1>12. Holds(m, r, d)
  <2>1. \A k \in 0..(r + 1) : k \in 0..r \/ k = r + 1
    BY <1>5
  <2>2. \A k \in 0..(r + 1) : r - k < WindowLength - Lag => m[r + 1] - m[k] <= Len(d)
    BY <1>9, <1>10, <2>1
  <2> QED BY <1>7, <1>11, <2>2 DEF Holds
<1>13. ASSUME NEW from \in 0..MaxRateTime
       PROVE  m[IF from + (WindowLength - Lag) <= MaxRateTime THEN from + (WindowLength - Lag) ELSE LastTick]
                - m[from] <= ActorLimit
  <2>1. PICK to : to = IF from + (WindowLength - Lag) <= MaxRateTime THEN from + (WindowLength - Lag) ELSE LastTick
    OBVIOUS
  <2>2. to \in 0..LastTick /\ from <= to /\ to <= from + (WindowLength - Lag) /\ from \in 0..LastTick
    BY <1>5, <2>1
  <2> SUFFICES m[to] - m[from] <= ActorLimit
    BY <2>1
  <2>3. l[to] - l[from] <= ActorLimit
    BY <2>1 DEF Bounded
  <2>4. l[to] \in Nat /\ l[from] \in Nat /\ m[to] \in Nat /\ m[from] \in Nat
    BY <1>5, <2>2
  <2>5. CASE to <= r
    <3>1. m[to] = l[to] /\ m[from] = l[from]
      BY <1>2, <1>5, <2>2, <2>5
    <3> QED BY <2>3, <3>1
  <2>6. CASE from > r
    <3>1. m[to] = l[to] + c /\ m[from] = l[from] + c
      BY <1>2, <1>5, <2>2, <2>6
    <3>2. ASSUME NEW x \in Nat, NEW y \in Nat, x - y <= ActorLimit PROVE (x + c) - (y + c) <= ActorLimit
      BY <1>5, <3>2
    <3> QED BY <2>3, <2>4, <3>1, <3>2
  <2>7. CASE from <= r /\ r < to
    <3>1. m[to] = m[r + 1]
      BY <1>2, <1>5, <2>2, <2>7 DEF LedgerOK
    <3>2. from \in 0..r /\ r - from < WindowLength - Lag
      BY <1>5, <2>2, <2>7
    <3>3. m[r + 1] - m[from] <= Len(d)
      BY <1>9, <3>2
    <3>4. PICK x \in Int : x = m[r + 1] - m[from]
      BY <2>4, <3>1
    <3> QED BY <1>5, <1>7, <3>1, <3>3, <3>4
  <2> QED BY <1>5, <2>2, <2>5, <2>6, <2>7
<1>14. Bounded(m, WindowLength - Lag, ActorLimit)
  BY <1>13 DEF Bounded
<1> QED BY <1>1, <1>3, <1>4, <1>12, <1>14


RateStamp == [at: Nat, actor: RateActors, count: Nat]

\* A thread inside allow_many read the clock at most Lag ago.
StampsFit(r) ==
    /\ stamps \in [RateThreads -> RateStamp \cup {NoStamp}]
    /\ \A t \in RateThreads : stamps[t] # NoStamp => stamps[t].at <= r /\ r - stamps[t].at <= Lag

BucketsFit ==
    /\ buckets = [a \in RateActors |-> buckets[a]]
    /\ \A a \in RateActors : /\ Holds(ledger[a], rateTime, buckets[a])
                             /\ Bounded(ledger[a], WindowLength - Lag, ActorLimit)

\* The inductive invariant: windows and buckets account for the ledger.
RateInv ==
    /\ LedgersOK(ledger) /\ WindowsFit(windows, ledger) /\ EdgeBounded(ledger)
    /\ StampsFit(rateTime) /\ BucketsFit

\* The initial state.
LEMMA InitRate == RateInit => RateInv
<1> SUFFICES ASSUME RateInit PROVE RateInv
  OBVIOUS
<1> DEFINE zero == [k \in 0..LastTick |-> 0]
<1>1. /\ rateTime = 0 /\ windows = <<>> /\ stamps = [t \in RateThreads |-> NoStamp]
      /\ buckets = [a \in RateActors |-> <<>>] /\ ledger = [i \in Everyone |-> zero]
  BY DEF RateInit, Everyone, LastTick
<1>2. /\ MaxRateTime \in Nat /\ LastTick = MaxRateTime + 1 /\ WindowLength \in Nat \ {0}
      /\ Lag \in 0..WindowLength /\ ActorLimit \in Nat
  BY RateAssumption DEF LastTick
<1>3. zero \in [0..LastTick -> Nat] /\ \A k \in 0..LastTick : zero[k] = 0
  OBVIOUS
<1> HIDE DEF zero
<1>4. \A i \in Everyone : ledger[i] = zero
  BY <1>1
<1>5. LedgerOK(zero, 0)
  BY <1>2, <1>3 DEF LedgerOK
<1>6. ASSUME NEW n \in Nat, NEW lim \in Nat PROVE Bounded(zero, n, lim)
  <2>1. ASSUME NEW from \in 0..MaxRateTime
        PROVE  zero[IF from + n <= MaxRateTime THEN from + n ELSE LastTick] - zero[from] <= lim
    <3>1. PICK to : to = IF from + n <= MaxRateTime THEN from + n ELSE LastTick
      OBVIOUS
    <3>2. to \in 0..LastTick /\ from \in 0..LastTick
      BY <1>2, <1>6, <3>1
    <3>3. zero[to] = 0 /\ zero[from] = 0
      BY <1>3, <3>2
    <3>4. zero[to] - zero[from] <= lim
      BY <1>6, <3>3
    <3> QED BY <3>1, <3>4
  <2> QED BY <2>1 DEF Bounded
<1>7. ASSUME NEW lim \in Nat PROVE Idle(zero, 0, lim)
  <2>1. zero[0] = 0 /\ zero[0 + 1] = 0
    BY <1>2, <1>3
  <2>2. ASSUME NEW k \in 0..0 PROVE zero[0] - zero[k] <= lim
    <3>1. k = 0
      BY <2>2
    <3> QED BY <1>7, <2>1, <3>1
  <2> QED BY <2>1, <2>2 DEF Idle
<1>8. LedgersOK(ledger)
  <2>1. ledger = [i \in Everyone |-> ledger[i]]
    BY <1>1
  <2> QED BY <1>1, <1>2, <1>4, <1>5, <2>1 DEF LedgersOK
<1>9. WindowsFit(windows, ledger)
  <2>1. windows = [i \in DOMAIN windows |-> windows[i]] /\ DOMAIN windows = {}
    BY <1>1
  <2>2. \A i \in Identities : Idle(ledger[i], rateTime, LimitOf(i))
    BY <1>1, <1>4, <1>7, LimitsAre DEF Everyone
  <2> QED BY <2>1, <2>2 DEF WindowsFit
<1>10. EdgeBounded(ledger)
  <2>1. ASSUME NEW i \in Identities PROVE Bounded(ledger[i], WindowLength, 2 * LimitOf(i))
    <3>1. i \in Everyone /\ LimitOf(i) \in Nat
      BY LimitsAre DEF Everyone
    <3>2. 2 * LimitOf(i) \in Nat
      BY <3>1
    <3> QED BY <1>2, <1>4, <1>6, <3>1, <3>2
  <2> QED BY <2>1 DEF EdgeBounded
<1>11. StampsFit(rateTime)
  BY <1>1 DEF StampsFit
<1>12. BucketsFit
  <2>1. WindowLength - Lag \in Nat
    BY <1>2
  <2>2. Holds(zero, 0, <<>>)
    <3>1. zero[0] = 0 /\ zero[0 + 1] = 0
      BY <1>2, <1>3
    <3>2. ASSUME NEW k \in 0..(0 + 1) PROVE zero[0 + 1] - zero[k] <= Len(<<>>)
      <4>1. k = 0 \/ k = 0 + 1
        BY <3>2
      <4> QED BY <3>1, <4>1
    <3>3. <<>> \in Seq(Nat) /\ 1..Len(<<>>) = {}
      OBVIOUS
    <3> QED BY <3>2, <3>3 DEF Holds
  <2>3. buckets = [a \in RateActors |-> buckets[a]] /\ \A a \in RateActors : buckets[a] = <<>>
    BY <1>1
  <2>4. ASSUME NEW a \in RateActors
        PROVE  Holds(ledger[a], rateTime, buckets[a]) /\ Bounded(ledger[a], WindowLength - Lag, ActorLimit)
    <3>1. ledger[a] = zero
      BY <1>4 DEF Everyone
    <3> QED BY <1>1, <1>2, <1>6, <2>1, <2>2, <2>3, <3>1
  <2> QED BY <2>3, <2>4 DEF BucketsFit
<1> QED BY <1>8, <1>9, <1>10, <1>11, <1>12 DEF RateInv

\* check().
LEMMA CheckKeepsRate ==
    ASSUME RateInv, NEW ip \in Ips, NEW key \in ApiKeys \cup {NoKey}, CheckRate(ip, key)
    PROVE  RateInv'
<1>1. /\ LedgersOK(ledger') /\ WindowsFit(windows', ledger') /\ EdgeBounded(ledger')
      /\ rateTime' = rateTime /\ stamps' = stamps /\ buckets' = buckets
      /\ \A a \in RateActors : ledger'[a] = ledger[a]
  BY CheckFits DEF RateInv
<1>2. LedgersOK(ledger)' /\ WindowsFit(windows, ledger)' /\ EdgeBounded(ledger)'
  BY <1>1 DEF LedgersOK, WindowsFit, EdgeBounded
<1>3. StampsFit(rateTime)' /\ BucketsFit'
  BY <1>1 DEF RateInv, StampsFit, BucketsFit
<1> QED BY <1>2, <1>3 DEF RateInv

\* The clock is read.
LEMMA ReadKeepsRate ==
    ASSUME RateInv, NEW t \in RateThreads, NEW a \in RateActors, NEW n \in 1..ActorLimit, ReadClock(t, a, n)
    PROVE  RateInv'
<1>1. /\ stamps' = [stamps EXCEPT ![t] = [at |-> rateTime, actor |-> a, count |-> n]]
      /\ rateTime' = rateTime /\ windows' = windows /\ buckets' = buckets /\ ledger' = ledger
  BY DEF ReadClock
<1>2. LedgersOK(ledger)' /\ WindowsFit(windows, ledger)' /\ EdgeBounded(ledger)' /\ BucketsFit'
  BY <1>1 DEF RateInv, LedgersOK, WindowsFit, EdgeBounded, BucketsFit
<1>3. PICK s : s = [at |-> rateTime, actor |-> a, count |-> n]
  OBVIOUS
<1>4. rateTime \in Nat /\ Lag \in Nat
  BY RateAssumption DEF RateInv, LedgersOK
<1>5. s \in RateStamp /\ s.at <= rateTime /\ rateTime - s.at <= Lag
  BY <1>3, <1>4 DEF RateStamp
<1>6. StampsFit(rateTime)'
  BY <1>1, <1>3, <1>5 DEF RateInv, StampsFit
<1> QED BY <1>2, <1>6 DEF RateInv

\* allow_many, under the lock.
LEMMA AllowKeepsRate ==
    ASSUME RateInv, NEW t \in RateThreads, AllowMany(t)
    PROVE  RateInv'
<1>1. PICK s : s = stamps[t]
  OBVIOUS
<1>2. PICK left : left = Trimmed(buckets[s.actor], s.at)
  OBVIOUS
<1>3. /\ s # NoStamp /\ stamps' = [stamps EXCEPT ![t] = NoStamp]
      /\ rateTime' = rateTime /\ windows' = windows
      /\ \/ buckets' = [buckets EXCEPT ![s.actor] = left] /\ ledger' = ledger
         \/ /\ ~(Len(left) + s.count > ActorLimit)
            /\ buckets' = [buckets EXCEPT ![s.actor] = left \o [k \in 1..s.count |-> s.at]]
            /\ ledger' = [ledger EXCEPT ![s.actor] = Granted(ledger[s.actor], s.count)]
  BY <1>1, <1>2 DEF AllowMany, Grant
<1>4. /\ s \in RateStamp /\ s.at <= rateTime /\ rateTime - s.at <= Lag
  BY <1>1, <1>3 DEF RateInv, StampsFit
<1>5. PICK a \in RateActors : a = s.actor
  BY <1>4 DEF RateStamp
<1>6. PICK at \in Nat : at = s.at
  BY <1>4 DEF RateStamp
<1>7. PICK c \in Nat : c = s.count
  BY <1>4 DEF RateStamp
<1>8. /\ rateTime \in 0..MaxRateTime /\ LedgerOK(ledger[a], rateTime) /\ a \in Everyone /\ a \notin Identities
      /\ ledger = [i \in Everyone |-> ledger[i]] /\ ActorLimit \in Nat
      /\ buckets = [b \in RateActors |-> buckets[b]]
      /\ Holds(ledger[a], rateTime, buckets[a]) /\ Bounded(ledger[a], WindowLength - Lag, ActorLimit)
  BY RateAssumption DEF RateInv, LedgersOK, BucketsFit, Everyone, Identities
<1>9. at \in 0..rateTime /\ rateTime - at <= Lag
  BY <1>4, <1>6, <1>8
<1>10. Holds(ledger[a], rateTime, left)
  BY <1>2, <1>5, <1>6, <1>8, <1>9, TrimmedHolds
<1>11. Len(left) \in Nat
  BY <1>10 DEF Holds
<1>12. StampsFit(rateTime)'
  BY <1>3 DEF RateInv, StampsFit
<1>13. CASE buckets' = [buckets EXCEPT ![s.actor] = left] /\ ledger' = ledger
  <2>1. LedgersOK(ledger)' /\ WindowsFit(windows, ledger)' /\ EdgeBounded(ledger)'
    BY <1>3, <1>13 DEF RateInv, LedgersOK, WindowsFit, EdgeBounded
  <2>2. /\ buckets' = [b \in RateActors |-> buckets'[b]] /\ buckets'[a] = left
        /\ \A b \in RateActors : b # a => buckets'[b] = buckets[b]
    BY <1>5, <1>8, <1>13
  <2>3. BucketsFit'
    BY <1>3, <1>10, <1>13, <2>2 DEF RateInv, BucketsFit
  <2> QED BY <1>12, <2>1, <2>3 DEF RateInv
<1>14. CASE /\ ~(Len(left) + s.count > ActorLimit)
            /\ buckets' = [buckets EXCEPT ![s.actor] = left \o [k \in 1..s.count |-> s.at]]
            /\ ledger' = [ledger EXCEPT ![s.actor] = Granted(ledger[s.actor], s.count)]
  <2>1. Len(left) + c <= ActorLimit
    BY <1>7, <1>8, <1>11, <1>14
  <2>2. PICK d : d = left \o [k \in 1..c |-> at]
    OBVIOUS
  <2>3. PICK m : m = More(ledger[a], rateTime, c)
    OBVIOUS
  <2>4. Holds(m, rateTime, d) /\ Bounded(m, WindowLength - Lag, ActorLimit)
    <3>1. /\ Holds(More(ledger[a], rateTime, c), rateTime, left \o [k \in 1..c |-> at])
          /\ Bounded(More(ledger[a], rateTime, c), WindowLength - Lag, ActorLimit)
      BY <1>8, <1>9, <1>10, <2>1, GrantHolds, Zenon
    <3> QED BY <2>2, <2>3, <3>1
  <2>5. LedgerOK(m, rateTime)
    BY <1>8, <2>3, MoreKeeps
  <2>6. Granted(ledger[a], c) = m
    BY <1>8, <2>3, GrantedIsMore DEF RateInv
  <2>7. /\ buckets' = [b \in RateActors |-> buckets'[b]] /\ buckets'[a] = d
        /\ \A b \in RateActors : b # a => buckets'[b] = buckets[b]
    <3>1. buckets' = [buckets EXCEPT ![a] = d]
      BY <1>5, <1>6, <1>7, <1>14, <2>2
    <3> QED BY <1>8, <3>1
  <2>8. /\ ledger' = [i \in Everyone |-> ledger'[i]] /\ ledger'[a] = m
        /\ \A i \in Everyone : i # a => ledger'[i] = ledger[i]
    <3>1. ledger' = [ledger EXCEPT ![a] = m]
      BY <1>5, <1>7, <1>14, <2>6
    <3> QED BY <1>8, <3>1
  <2>9. \A i \in Identities : i # a /\ i \in Everyone /\ ledger'[i] = ledger[i]
    BY <1>8, <2>8 DEF Everyone
  <2>10. LedgersOK(ledger)'
    BY <1>3, <1>8, <2>5, <2>8 DEF RateInv, LedgersOK
  <2>11. WindowsFit(windows, ledger)' /\ EdgeBounded(ledger)'
    BY <1>3, <2>9 DEF RateInv, WindowsFit, EdgeBounded
  <2>12. BucketsFit'
    <3>1. ASSUME NEW b \in RateActors
          PROVE  Holds(ledger'[b], rateTime, buckets'[b]) /\ Bounded(ledger'[b], WindowLength - Lag, ActorLimit)
      <4>1. CASE b = a
        BY <2>4, <2>7, <2>8, <4>1
      <4>2. CASE b # a
        <5>1. ledger'[b] = ledger[b] /\ buckets'[b] = buckets[b]
          BY <2>7, <2>8, <4>2 DEF Everyone
        <5> QED BY <5>1 DEF RateInv, BucketsFit
      <4> QED BY <4>1, <4>2
    <3> QED BY <1>3, <2>7, <3>1 DEF BucketsFit
  <2> QED BY <1>12, <2>10, <2>11, <2>12 DEF RateInv
<1> QED BY <1>3, <1>13, <1>14

\* The clock.
LEMMA TickKeepsRate == RateInv /\ RateTick => RateInv'
<1> SUFFICES ASSUME RateInv, RateTick PROVE RateInv'
  OBVIOUS
<1>1. /\ rateTime < MaxRateTime /\ rateTime' = rateTime + 1 /\ windows' = windows /\ stamps' = stamps
      /\ buckets' = buckets /\ ledger' = ledger
      /\ \A t \in RateThreads : stamps[t] # NoStamp => rateTime - stamps[t].at < Lag
  BY DEF RateTick
<1>2. /\ rateTime \in 0..MaxRateTime /\ ledger = [i \in Everyone |-> ledger[i]]
      /\ \A i \in Everyone : LedgerOK(ledger[i], rateTime)
      /\ MaxRateTime \in Nat /\ Lag \in Nat
  BY RateAssumption DEF RateInv, LedgersOK
<1>3. rateTime + 1 \in 0..MaxRateTime
  BY <1>1, <1>2
<1>4. LedgersOK(ledger)'
  <2>1. \A i \in Everyone : LedgerOK(ledger[i], rateTime + 1)
    BY <1>1, <1>2, TickLedger
  <2> QED BY <1>1, <1>2, <1>3, <2>1 DEF LedgersOK
<1>5. WindowsFit(windows, ledger)'
  <2>1. ASSUME NEW i \in DOMAIN windows
        PROVE  windows[i] \in Window /\ Counts(ledger[i], rateTime + 1, windows[i], LimitOf(i))
    <3>1. i \in Everyone /\ windows[i] \in Window /\ Counts(ledger[i], rateTime, windows[i], LimitOf(i))
      BY DEF RateInv, WindowsFit, Everyone
    <3> QED BY <1>1, <1>2, <3>1, LimitsAre, CountsTick
  <2>2. ASSUME NEW i \in Identities \ DOMAIN windows PROVE Idle(ledger[i], rateTime + 1, LimitOf(i))
    <3>1. i \in Everyone /\ Idle(ledger[i], rateTime, LimitOf(i))
      BY DEF RateInv, WindowsFit, Everyone
    <3> QED BY <1>1, <1>2, <3>1, LimitsAre, IdleTick
  <2> QED BY <1>1, <2>1, <2>2 DEF RateInv, WindowsFit
<1>6. EdgeBounded(ledger)'
  BY <1>1 DEF RateInv, EdgeBounded
<1>7. StampsFit(rateTime)'
  <2>1. ASSUME NEW t \in RateThreads, stamps[t] # NoStamp
        PROVE  stamps[t].at <= rateTime + 1 /\ (rateTime + 1) - stamps[t].at <= Lag
    <3>1. stamps[t] \in RateStamp /\ stamps[t].at <= rateTime /\ rateTime - stamps[t].at < Lag
      BY <1>1, <2>1 DEF RateInv, StampsFit
    <3>2. PICK at \in Nat : at = stamps[t].at
      BY <3>1 DEF RateStamp
    <3>3. at <= rateTime + 1 /\ (rateTime + 1) - at <= Lag
      BY <1>2, <3>1, <3>2
    <3> QED BY <3>2, <3>3
  <2> QED BY <1>1, <2>1 DEF RateInv, StampsFit
<1>8. BucketsFit'
  <2>1. ASSUME NEW a \in RateActors
        PROVE  Holds(ledger[a], rateTime + 1, buckets[a]) /\ Bounded(ledger[a], WindowLength - Lag, ActorLimit)
    <3>1. /\ a \in Everyone /\ Holds(ledger[a], rateTime, buckets[a])
          /\ Bounded(ledger[a], WindowLength - Lag, ActorLimit)
      BY DEF RateInv, BucketsFit, Everyone
    <3> QED BY <1>1, <1>2, <3>1, HoldsTick
  <2> QED BY <1>1, <2>1 DEF RateInv, BucketsFit
<1> QED BY <1>4, <1>5, <1>6, <1>7, <1>8 DEF RateInv

\* Every step of both limiters.
LEMMA StepRate == RateInv /\ [EdgeNext \/ QuotaNext]_rateVars => RateInv'
<1> SUFFICES ASSUME RateInv, [EdgeNext \/ QuotaNext]_rateVars PROVE RateInv'
  OBVIOUS
<1>1. CASE UNCHANGED rateVars
  BY <1>1 DEF rateVars, RateInv, LedgersOK, WindowsFit, EdgeBounded, StampsFit, BucketsFit
<1>2. CASE EdgeNext
  BY <1>2, CheckKeepsRate, TickKeepsRate DEF EdgeNext
<1>3. CASE QuotaNext
  BY <1>3, ReadKeepsRate, AllowKeepsRate, TickKeepsRate DEF QuotaNext
<1> QED BY <1>1, <1>2, <1>3

\* The invariant bounds the bursts.
LEMMA RateInvBounds == RateInv => BurstsBounded
<1> SUFFICES ASSUME RateInv PROVE BurstsBounded
  OBVIOUS
<1>1. ASSUME NEW i \in Identities, NEW from \in 0..MaxRateTime
      PROVE  Through(i, from, WindowLength) <= 2 * LimitOf(i)
  BY DEF RateInv, EdgeBounded, Bounded, Through, LastTick
<1>2. ASSUME NEW a \in RateActors, NEW from \in 0..MaxRateTime
      PROVE  Through(a, from, WindowLength - Lag) <= ActorLimit
  BY DEF RateInv, BucketsFit, Bounded, Through, LastTick
<1> QED BY <1>1, <1>2 DEF BurstsBounded

\* Both limiters bound every burst, for any numbers of identities and threads,
\* any limits and any window: at the edge twice the limit in the length of a
\* window, at the providers the limit in a window less the longest wait for the
\* lock.
THEOREM BurstsAlwaysBounded == RateSpec => []BurstsBounded
<1>1. RateInit => RateInv
  BY InitRate
<1>2. RateInv /\ [EdgeNext \/ QuotaNext]_rateVars => RateInv'
  BY StepRate
<1>3. RateInv => BurstsBounded
  BY RateInvBounds
<1> QED BY <1>1, <1>2, <1>3, PTL DEF RateSpec
=============================================================================
