-------------------------------- MODULE Access --------------------------------
(* Who may reach what: the API keys and users of era/services/auth_service.py *)
(* with the roles of era/security/rbac.py and the dependencies of             *)
(* era/api/deps.py, and the secrets of era/services/vault_service.py.         *)
(* ApiRequests run on a thread pool.  Each reads its rows, decides, and flushes: *)
(* the ORM then writes the columns the request changed and no others, so two  *)
(* requests over one row interleave between the read and the write.           *)
EXTENDS Integers, FiniteSets

CONSTANTS
    ApiRequests,      \* requests in flight
    Users,         \* user rows
    Admins,        \* those of role admin
    KeyRows,       \* API key rows
    HolderOf,      \* whose key it is
    MaxRevision,   \* bound: rotations of the secret
    MaxArrivals,   \* bound: requests
    NoUser

ASSUME AccessAssumption ==
    /\ Admins \subseteq Users /\ HolderOf \in [KeyRows -> Users]
    /\ MaxRevision \in Nat /\ MaxArrivals \in Nat /\ NoUser \notin Users

VARIABLES
    users,     \* name -> exists, disabled
    keys,      \* key -> exists, revoked_at set, last_used_at set
    secret,    \* the row of one (domain, name)
    sealed,    \* a master key is configured
    trail,     \* audit entries of the vault, by operation and error code
    req,       \* what each request has read and where it stands
    arrived     \* requests so far

accessVars == <<users, keys, secret, sealed, trail, req, arrived>>

Ops == {"create_user", "create_key", "set_disabled", "revoke_key",
        "store", "revoke_secret", "resolve"}

\* ROLE_PERMISSIONS: admin holds every permission, user those of the day to
\* day, none of which manages accounts, keys or the vault.
AllPermissions == {"users.manage", "api_keys.manage", "vault.manage", "actions.execute"}
UserPermissions == {"actions.execute"}
PermissionsOf(u) == IF u \in Admins THEN AllPermissions ELSE UserPermissions

\* The permission each route depends on; a provider resolves inside a dispatch.
PermissionFor(op) ==
    CASE op \in {"create_user", "set_disabled"} -> "users.manage"
      [] op \in {"create_key", "revoke_key"} -> "api_keys.manage"
      [] op \in {"store", "revoke_secret"} -> "vault.manage"
      [] op = "resolve" -> "actions.execute"

\* Capability domains: device is not granted to the role user.
RoleDomainAllowed(u, domain) == domain # "device" \/ u \in Admins

NoSecret == [exists |-> FALSE, owner |-> NoUser, sealedBy |-> NoUser, revision |-> 0, revoked |-> FALSE]
NoRequest == [pc |-> "idle", op |-> "resolve", user |-> NoUser, key |-> CHOOSE k \in KeyRows : TRUE,
         row |-> NoSecret, code |-> "none"]

\* Set fields of a request and move it on.
MovesTo(r, pc) == req' = [req EXCEPT ![r].pc = pc]
Answers(r) == req' = [req EXCEPT ![r] = NoRequest]

-----------------------------------------------------------------------------
\* get_current_principal: the bearer token names a key.
Arrive(r) ==
    /\ req[r].pc = "idle" /\ arrived < MaxArrivals
    /\ \E k \in KeyRows, op \in Ops :
          req' = [req EXCEPT ![r] = [NoRequest EXCEPT !.pc = "token", !.key = k, !.op = op]]
    /\ arrived' = arrived + 1
    /\ UNCHANGED <<users, keys, secret, sealed, trail>>

\* authenticate_token reads the key, then its user; unknown, revoked and
\* disabled are refused alike.
ReadKey(r) ==
    LET k == req[r].key IN
    /\ req[r].pc = "token"
    /\ IF keys[k].exists /\ ~keys[k].revoked THEN MovesTo(r, "user") ELSE Answers(r)
    /\ UNCHANGED <<users, keys, secret, sealed, trail, arrived>>

ReadUser(r) ==
    LET u == HolderOf[req[r].key] IN
    /\ req[r].pc = "user"
    /\ IF users[u].exists /\ ~users[u].disabled
       THEN req' = [req EXCEPT ![r].pc = "used", ![r].user = u] ELSE Answers(r)
    /\ UNCHANGED <<users, keys, secret, sealed, trail, arrived>>

\* A mutant: the whole row is written back, as it was read.
FlushUsed_AllColumns(r) ==
    /\ req[r].pc = "used"
    /\ keys' = [keys EXCEPT ![req[r].key] = [exists |-> TRUE, revoked |-> FALSE, used |-> TRUE]]
    /\ MovesTo(r, "permission")
    /\ UNCHANGED <<users, secret, sealed, trail, arrived>>

\* last_used_at is flushed: the one column that changed.
FlushUsed(r) ==
    /\ req[r].pc = "used"
    /\ keys' = [keys EXCEPT ![req[r].key].used = TRUE]
    /\ MovesTo(r, "permission")
    /\ UNCHANGED <<users, secret, sealed, trail, arrived>>

\* require_permission judges the user as authentication read it.
RequirePermission(r) ==
    /\ req[r].pc = "permission"
    /\ IF PermissionFor(req[r].op) \in PermissionsOf(req[r].user) THEN MovesTo(r, "op") ELSE Answers(r)
    /\ UNCHANGED <<users, keys, secret, sealed, trail, arrived>>

At(r, op) == req[r].pc = "op" /\ req[r].op = op

\* A dispatch is for an action of some domain, which the role must allow.
AuthorizeAction(r) ==
    /\ At(r, "resolve")
    /\ \E domain \in {"email", "device"} :
          IF RoleDomainAllowed(req[r].user, domain) THEN MovesTo(r, "vault") ELSE Answers(r)
    /\ UNCHANGED <<users, keys, secret, sealed, trail, arrived>>

\* create_user: the name is taken or the row is inserted (it is unique).
CreateUser(r) ==
    /\ At(r, "create_user")
    /\ \E u \in Users :
          users' = IF users[u].exists THEN users ELSE [users EXCEPT ![u].exists = TRUE]
    /\ Answers(r) /\ UNCHANGED <<keys, secret, sealed, trail, arrived>>

\* create_api_key, for a user that exists, disabled or not.
CreateApiKey(r) ==
    /\ At(r, "create_key")
    /\ \E k \in KeyRows :
          keys' = IF users[HolderOf[k]].exists /\ ~keys[k].exists
                  THEN [keys EXCEPT ![k].exists = TRUE] ELSE keys
    /\ Answers(r) /\ UNCHANGED <<users, secret, sealed, trail, arrived>>

\* set_user_disabled writes what the request asks for.
SetUserDisabled(r) ==
    /\ At(r, "set_disabled")
    /\ \E u \in Users, disabled \in BOOLEAN :
          users' = IF users[u].exists THEN [users EXCEPT ![u].disabled = disabled] ELSE users
    /\ Answers(r) /\ UNCHANGED <<keys, secret, sealed, trail, arrived>>

\* revoke_key: no way back is offered.
RevokeKey(r) ==
    /\ At(r, "revoke_key")
    /\ \E k \in KeyRows : keys' = IF keys[k].exists THEN [keys EXCEPT ![k].revoked = TRUE] ELSE keys
    /\ Answers(r) /\ UNCHANGED <<users, secret, sealed, trail, arrived>>

-----------------------------------------------------------------------------
\* _require_enabled: without a master key nothing is stored, revoked or resolved.
VaultDisabled(r) ==
    /\ ~sealed
    /\ req[r].pc = "vault" \/ (req[r].pc = "op" /\ req[r].op \in {"store", "revoke_secret"})
    /\ Answers(r) /\ UNCHANGED <<users, keys, secret, sealed, trail, arrived>>

\* The route names an owner always: the one of the body, who must exist, or
\* the caller.
StoreRead(r) ==
    /\ At(r, "store") /\ sealed /\ secret.revision < MaxRevision
    /\ \E owner \in {u \in Users : users[u].exists} \cup {req[r].user} :
          req' = [req EXCEPT ![r].pc = "store", ![r].row = [secret EXCEPT !.owner = owner]]
    /\ UNCHANGED <<users, keys, secret, sealed, trail, arrived>>

\* A first store inserts; (domain, name) is unique, so one of two fails.
StoreInsert(r) ==
    /\ req[r].pc = "store" /\ ~req[r].row.exists
    /\ IF secret.exists THEN Answers(r) /\ UNCHANGED secret
       ELSE /\ secret' = [exists |-> TRUE, owner |-> req[r].row.owner, sealedBy |-> req[r].user,
                          revision |-> 1, revoked |-> FALSE]
            /\ req' = [req EXCEPT ![r].pc = "audit", ![r].code = "EXECUTED"]
    /\ UNCHANGED <<users, keys, sealed, trail, arrived>>

\* A rotation writes ciphertext, nonce, owner and the revision after the one
\* it read, and clears revoked_at if it read it set.
StoreRotate(r) ==
    /\ req[r].pc = "store" /\ req[r].row.exists
    /\ secret' = [secret EXCEPT !.owner = req[r].row.owner, !.sealedBy = req[r].user,
                                !.revision = req[r].row.revision + 1,
                                !.revoked = @ /\ ~req[r].row.revoked]
    /\ req' = [req EXCEPT ![r].pc = "audit", ![r].code = "EXECUTED"]
    /\ UNCHANGED <<users, keys, sealed, trail, arrived>>

\* revoke_secret; a second revocation changes nothing and is audited too.
RevokeSecret(r) ==
    /\ At(r, "revoke_secret") /\ sealed
    /\ IF secret.exists
       THEN /\ secret' = [secret EXCEPT !.revoked = TRUE]
            /\ req' = [req EXCEPT ![r].pc = "audit", ![r].code = "EXECUTED"]
       ELSE Answers(r) /\ UNCHANGED secret
    /\ UNCHANGED <<users, keys, sealed, trail, arrived>>

\* resolve_ref, up to the decryption: the reasons to fail, in order.  Some
\* providers require the owner, some do not; a changed master key or a
\* damaged row fails the authentication of the ciphertext.
ResolveCode(u, requireOwner, damaged) ==
    IF ~secret.exists THEN "UNKNOWN"
    ELSE IF requireOwner /\ secret.owner # u THEN "AUTH"
    ELSE IF secret.revoked THEN "REVOKED"
    ELSE IF damaged THEN "TAMPERED" ELSE "EXECUTED"

ResolveSecret(r) ==
    /\ req[r].pc = "vault" /\ sealed
    /\ \E requireOwner, damaged \in BOOLEAN :
          req' = [req EXCEPT ![r].pc = "audit", ![r].row = secret,
                             ![r].code = ResolveCode(req[r].user, requireOwner, damaged)]
    /\ UNCHANGED <<users, keys, secret, sealed, trail, arrived>>

\* _audit, in a transaction of its own, after the change it is about has been
\* committed; it may fail, and then the request fails with it.
AuditVault(r) ==
    /\ req[r].pc = "audit"
    /\ trail' = trail \cup {<<req[r].op, req[r].code>>}
    /\ IF req[r].op = "resolve" /\ req[r].code = "EXECUTED"
       THEN req' = [req EXCEPT ![r].pc = "holding"] ELSE Answers(r)
    /\ UNCHANGED <<users, keys, secret, sealed, arrived>>

AuditFails(r) ==
    /\ req[r].pc = "audit"
    /\ Answers(r) /\ UNCHANGED <<users, keys, secret, sealed, trail, arrived>>

\* The provider is done with the value.
Forget(r) ==
    /\ req[r].pc = "holding"
    /\ Answers(r) /\ UNCHANGED <<users, keys, secret, sealed, trail, arrived>>

\* bootstrap_admin leaves one administrator; here with a key, and one user.
AccessInit ==
    /\ users = [u \in Users |-> [exists |-> u \in Admins \cup {HolderOf[k] : k \in KeyRows}, disabled |-> FALSE]]
    /\ keys = [k \in KeyRows |-> [exists |-> TRUE, revoked |-> FALSE, used |-> FALSE]]
    /\ secret = NoSecret /\ sealed \in BOOLEAN /\ trail = {}
    /\ req = [r \in ApiRequests |-> NoRequest] /\ arrived = 0

AccessNext == \E r \in ApiRequests :
    \/ Arrive(r) \/ ReadKey(r) \/ ReadUser(r) \/ FlushUsed(r) \/ RequirePermission(r) \/ AuthorizeAction(r)
    \/ CreateUser(r) \/ CreateApiKey(r) \/ SetUserDisabled(r) \/ RevokeKey(r) \/ VaultDisabled(r)
    \/ StoreRead(r) \/ StoreInsert(r) \/ StoreRotate(r) \/ RevokeSecret(r) \/ ResolveSecret(r)
    \/ AuditVault(r) \/ AuditFails(r) \/ Forget(r)

AccessSpec == AccessInit /\ [][AccessNext]_accessVars

-----------------------------------------------------------------------------
\* A revocation holds against everything that was in flight when it was made:
\* a revoked key stays revoked though an authentication that had read it live
\* writes its row afterwards; and a revoked secret returns only by a rotation
\* that had read it revoked, never by one that raced the revocation.
RevocationsHold ==
    [][ /\ \A k \in KeyRows : keys[k].revoked => keys'[k].revoked
        /\ secret.revoked /\ ~secret'.revoked =>
              \E r \in ApiRequests : req[r].pc = "store" /\ req[r].row.revoked ]_accessVars
=============================================================================
