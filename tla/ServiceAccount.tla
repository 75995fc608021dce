---------------------------- MODULE ServiceAccount ----------------------------
(***************************************************************************)
(* How the controller authenticates (auth.py): one service-account client  *)
(* in Keycloak, whose secret is kept in a Kubernetes Secret and whose      *)
(* token opens the EDA API and the Keycloak admin API.  A call takes a     *)
(* token, (re)provisioning the client with the Keycloak master admin when  *)
(* the stored secret will not do, makes its request, and repairs a 401 or  *)
(* a 403 once.  Administrators may meanwhile rotate the secret, delete the *)
(* client or the Secret, strip roles, or change the master password.       *)
(***************************************************************************)
EXTENDS Integers

CONSTANTS
  MaxSecrets,   \* client secrets ever generated (bound of the model)
  MaxFaults     \* failed requests, interventions and restarts (bound)

ASSUME ServiceAccountAssumption ==
  MaxSecrets \in Nat \ {0} /\ MaxFaults \in Nat

VARIABLES
  client,       \* secret of the client in Keycloak, 0 if there is no client
  roles,        \* what its service account holds
  adminOK,      \* does keycloak-admin-secret hold the master password?
  stored,       \* the Secret eda-useraudit-client
  secretCache,  \* _svc_client_secret_cache, 0 for None
  token,        \* _eda_api_token_cache
  adminToken,   \* _kc_admin_token_cache
  pc,           \* where the call is
  api,          \* which API it is for
  attempt,      \* first request or the retry
  reprovision,  \* argument of get_eda_api_token
  have,         \* realm roles as read by _ensure_service_client
  result,       \* what the caller of the last finished call was told
  answer,       \* the endpoint's last answer in this call (history)
  keptLegacy,   \* a revocation failed or somebody granted it again (history)
  tampered,     \* roles stripped since they were read (history)
  generated,    \* secrets generated so far (bounds the model)
  faults        \* failures so far (bounds the model)

keycloak == <<client, roles, adminOK>>
caches == <<secretCache, token, adminToken>>
call == <<pc, api, attempt, reprovision, have>>
told == <<result, answer>>
history == <<keptLegacy, tampered>>
bounds == <<generated, faults>>
vars == <<keycloak, stored, caches, call, told, history, bounds>>

\* "eda" is _EDA_ROLE, "legacy" the role it replaced, "mgmt" the roles of
\* _REALM_MGMT_ROLES.
RoleNames == {"eda", "legacy", "mgmt"}

NoToken == [there |-> FALSE, live |-> FALSE, roles |-> {}]
Tokens == [there : BOOLEAN, live : BOOLEAN, roles : SUBSET RoleNames]

Provisioning ==
  {"admin", "client", "read", "grant", "revoke", "mgmt", "fetch", "store", "login"}

TypeOK ==
  /\ client \in 0 .. MaxSecrets
  /\ roles \in SUBSET RoleNames
  /\ adminOK \in BOOLEAN
  /\ stored \in [secret : 0 .. MaxSecrets, profile : {"none", "current"}]
  /\ secretCache \in 0 .. MaxSecrets
  /\ token \in Tokens
  /\ adminToken \in {"none", "live", "dead"}
  /\ pc \in {"idle", "token", "credentials", "request"} \union Provisioning
  /\ api \in {"eda", "kc"}
  /\ attempt \in {1, 2}
  /\ reprovision \in BOOLEAN
  /\ have \in SUBSET RoleNames
  /\ result \in {"none", "ok", "notFound", "error"}
  /\ answer \in {"none", "200", "404", "401", "403"}
  /\ keptLegacy \in BOOLEAN /\ tampered \in BOOLEAN
  /\ generated \in 0 .. MaxSecrets
  /\ faults \in 0 .. MaxFaults

\* A fresh system, one a version before the role profile has left, or one
\* this version has.
Init ==
  /\ \/ client = 0 /\ roles = {} /\ stored = [secret |-> 0, profile |-> "none"]
     \/ client = 1 /\ roles = {"legacy", "mgmt"}
                   /\ stored = [secret |-> 1, profile |-> "none"]
     \/ client = 1 /\ roles = {"eda", "mgmt"}
                   /\ stored = [secret |-> 1, profile |-> "current"]
  /\ adminOK \in BOOLEAN
  /\ secretCache = 0 /\ token = NoToken /\ adminToken = "none"
  /\ pc = "idle" /\ api = "eda" /\ attempt = 1 /\ reprovision = FALSE /\ have = {}
  /\ result = "none" /\ answer = "none"
  /\ keptLegacy = FALSE /\ tampered = FALSE
  /\ generated = client
  /\ faults = 0

Fault == faults < MaxFaults /\ faults' = faults + 1

Goto(from, to) == pc = from /\ pc' = to

-----------------------------------------------------------------------------
\* eda_api_get, kc_admin_get and kc_admin_put.

Begin ==
  /\ Goto("idle", "token")
  /\ api' \in {"eda", "kc"}
  /\ attempt' = 1 /\ reprovision' = FALSE
  /\ result' = "none" /\ answer' = "none"
  /\ UNCHANGED <<keycloak, stored, caches, have, history, bounds>>

\* Mutated form of TokenFailure: the auth stack's own 404 escapes.
TokenFailure_Raw(code) == IF code = 404 THEN "notFound" ELSE "error"

\* _token turns every HTTP failure of the auth stack into an AuthError.
TokenFailure(code) == "error"

\* A failure anywhere in get_eda_api_token ends the call.
AuthFails ==
  /\ \E code \in {404, 500} : result' = TokenFailure(code)
  /\ pc' = "idle" /\ attempt' = 1 /\ reprovision' = FALSE /\ have' = {}
  /\ UNCHANGED <<api, answer>>

Finish(r) ==
  /\ pc' = "idle" /\ attempt' = 1 /\ reprovision' = FALSE /\ have' = {}
  /\ result' = r
  /\ UNCHANGED api

Allows(t) ==
  IF api = "eda" THEN t.roles \intersect {"eda", "legacy"} # {} ELSE "mgmt" \in t.roles

Served ==
  /\ pc = "request"
  /\ token.live /\ Allows(token)
  /\ \/ answer' = "200" /\ Finish("ok")
     \/ answer' = "404" /\ Finish("notFound")
  /\ UNCHANGED <<keycloak, stored, caches, history, bounds>>

\* invalidate_eda_token
Invalidate == token' = NoToken /\ secretCache' = 0 /\ UNCHANGED adminToken

\* Mutated form of Refused: a 403 is treated like a 401.
Refused_OnlyRefreshes ==
  /\ pc = "request"
  /\ ~(token.live /\ Allows(token))
  /\ answer' = IF token.live THEN "403" ELSE "401"
  /\ IF attempt = 1
       THEN /\ Invalidate
            /\ pc' = "token" /\ attempt' = 2 /\ reprovision' = FALSE
            /\ UNCHANGED <<api, have, result>>
       ELSE Finish("error") /\ UNCHANGED caches
  /\ UNCHANGED <<keycloak, stored, history, bounds>>

\* A dead token (401) is refreshed; a token without the role (403) asks for
\* the client to be provisioned again.  The retry's own failure is final.
Refused ==
  /\ pc = "request"
  /\ ~(token.live /\ Allows(token))
  /\ answer' = IF token.live THEN "403" ELSE "401"
  /\ IF attempt = 1
       THEN /\ Invalidate
            /\ pc' = "token" /\ attempt' = 2 /\ reprovision' = token.live
            /\ UNCHANGED <<api, have, result>>
       ELSE Finish("error") /\ UNCHANGED caches
  /\ UNCHANGED <<keycloak, stored, history, bounds>>

RequestFails ==
  /\ pc = "request"
  /\ Fault
  /\ Finish("error")
  /\ UNCHANGED <<keycloak, stored, caches, answer, history, generated>>

-----------------------------------------------------------------------------
\* get_eda_api_token

CachedToken ==
  /\ attempt = 1 /\ token.there
  /\ Goto("token", "request")
  /\ UNCHANGED <<keycloak, stored, caches, api, attempt, reprovision, have,
                 told, history, bounds>>

\* Preferred: the cached secret, else the stored one of the current profile.
UseSecret(s) ==
  /\ secretCache' = s
  /\ Goto("token", "credentials")
  /\ UNCHANGED <<keycloak, stored, token, adminToken, api, attempt,
                 reprovision, have, told, history, bounds>>

\* Mutated form of Usable: any stored secret will do.
Usable_AnyProfile == stored.secret # 0

Usable == stored.secret # 0 /\ stored.profile = "current"

TokenFromSecret ==
  /\ ~(attempt = 1 /\ token.there)
  /\ ~reprovision
  /\ IF secretCache # 0 THEN UseSecret(secretCache)
     ELSE Usable /\ UseSecret(stored.secret)

\* Otherwise the client is provisioned; an outdated profile forces all of it.
NeedsProvisioning ==
  /\ ~(attempt = 1 /\ token.there)
  /\ reprovision \/ (secretCache = 0 /\ ~Usable)
  /\ Goto("token", "admin")
  /\ secretCache' = 0
  /\ UNCHANGED <<keycloak, stored, token, adminToken, api, attempt,
                 reprovision, have, told, history, bounds>>

NewToken == [there |-> TRUE, live |-> TRUE, roles |-> roles]

CredentialsAccepted ==
  /\ pc \in {"credentials", "login"}
  /\ client # 0 /\ secretCache = client
  /\ token' = NewToken
  /\ pc' = "request"
  /\ UNCHANGED <<keycloak, stored, secretCache, adminToken, api, attempt,
                 reprovision, have, told, history, bounds>>

\* 400 or 401: the stored secret is stale, fall back to provisioning.  Right
\* after provisioning the same answer is an error.
CredentialsRejected ==
  /\ client = 0 \/ secretCache # client
  /\ \/ /\ Goto("credentials", "admin")
        /\ secretCache' = 0
        /\ UNCHANGED <<token, adminToken, api, attempt, reprovision, have,
                       result, answer>>
     \/ pc = "login" /\ AuthFails /\ UNCHANGED caches
  /\ UNCHANGED <<keycloak, stored, history, bounds>>

-----------------------------------------------------------------------------
\* get_kc_admin_token and _ensure_service_client, request by request.

AdminToken ==
  /\ adminToken # "none" \/ adminOK
  /\ Goto("admin", "client")
  /\ adminToken' = IF adminToken = "none" THEN "live" ELSE adminToken
  /\ UNCHANGED <<keycloak, stored, secretCache, token, api, attempt,
                 reprovision, have, told, history, bounds>>

AdminRefused ==
  /\ \/ pc = "admin" /\ adminToken = "none" /\ ~adminOK
     \/ pc \in {"client", "read", "mgmt", "fetch"} /\ adminToken = "dead"
     \/ pc = "grant" /\ "eda" \notin have /\ adminToken = "dead"
  /\ AuthFails
  /\ UNCHANGED <<keycloak, stored, caches, history, bounds>>

\* A step of the provisioning is one request with the admin token.
Advance(from, to) ==
  /\ Goto(from, to)
  /\ UNCHANGED <<adminOK, adminToken, token, api, attempt, reprovision, told, faults>>

Step(from, to) == adminToken = "live" /\ Advance(from, to)

\* The client is gone: the requests that name it raise.
ClientGone ==
  /\ pc \in {"read", "mgmt", "fetch"} \/ (pc = "grant" /\ "eda" \notin have)
  /\ client = 0
  /\ AuthFails
  /\ UNCHANGED <<keycloak, stored, caches, history, bounds>>

FindOrCreateClient ==
  /\ Step("client", "read")
  /\ IF client = 0
       THEN /\ generated < MaxSecrets
            /\ generated' = generated + 1
            /\ client' = generated + 1
            /\ roles' = {}
       ELSE UNCHANGED <<client, roles, generated>>
  /\ UNCHANGED <<stored, secretCache, have, history>>

ReadRoles ==
  /\ client # 0
  /\ Step("read", "grant")
  /\ have' = roles \ {"mgmt"}
  /\ tampered' = FALSE
  /\ UNCHANGED <<client, roles, stored, secretCache, keptLegacy, generated>>

\* Mutated form of GrantRole: the old role goes before the new one is there.
GrantRole_RevokesFirst ==
  /\ client # 0
  /\ Step("grant", "revoke")
  /\ roles' = roles \ {"legacy"}
  /\ UNCHANGED <<client, stored, secretCache, have, history, generated>>

\* _EDA_ROLE, created in Keycloak first if it is missing there.
GrantRole ==
  /\ IF "eda" \in have
       THEN Advance("grant", "revoke") /\ UNCHANGED roles
       ELSE Step("grant", "revoke") /\ client # 0 /\ roles' = roles \union {"eda"}
  /\ UNCHANGED <<client, stored, secretCache, have, history, generated>>

\* Mutated form of RevokeLegacy: the new role is granted next to the old one.
RevokeLegacy_Skipped ==
  /\ Advance("revoke", "mgmt")
  /\ UNCHANGED <<client, roles, stored, secretCache, have, history, generated>>

RevokeLegacy ==
  /\ IF "legacy" \in have
       THEN Step("revoke", "mgmt") /\ client # 0 /\ roles' = roles \ {"legacy"}
       ELSE Advance("revoke", "mgmt") /\ UNCHANGED roles
  /\ UNCHANGED <<client, stored, secretCache, have, history, generated>>

\* Best effort: the failure is logged and the provisioning goes on.
RevocationRefused == "legacy" \in have /\ (adminToken = "dead" \/ client = 0)

RevokeFails ==
  /\ "legacy" \in have
  /\ IF RevocationRefused THEN UNCHANGED faults ELSE Fault
  /\ Goto("revoke", "mgmt")
  /\ keptLegacy' = TRUE
  /\ UNCHANGED <<keycloak, stored, caches, api, attempt, reprovision, have,
                 told, tampered, generated>>

GrantManagement ==
  /\ client # 0
  /\ Step("mgmt", "fetch")
  /\ roles' = roles \union {"mgmt"}
  /\ UNCHANGED <<client, stored, secretCache, have, history, generated>>

FetchSecret ==
  /\ client # 0
  /\ Step("fetch", "store")
  /\ secretCache' = client
  /\ UNCHANGED <<client, roles, stored, have, history, generated>>

StoreSecret ==
  /\ Goto("store", "login")
  /\ stored' = [secret |-> secretCache, profile |-> "current"]
  /\ UNCHANGED <<keycloak, caches, api, attempt, reprovision, have, told,
                 history, bounds>>

\* Not fatal: the next start provisions again.
StoreFails ==
  /\ Goto("store", "login")
  /\ Fault
  /\ UNCHANGED <<keycloak, stored, caches, api, attempt, reprovision, have,
                 told, history, generated>>

\* Keycloak or Kubernetes does not answer, or answers 404 while misrouted.
AuthRequestFails ==
  /\ pc \in ({"token", "credentials"} \union Provisioning) \ {"revoke", "store"}
  /\ pc = "token" => ~(attempt = 1 /\ token.there) /\ ~reprovision /\ secretCache = 0
  /\ pc = "grant" => "eda" \notin have
  /\ Fault
  /\ AuthFails
  /\ UNCHANGED <<keycloak, stored, caches, history, generated>>

-----------------------------------------------------------------------------
\* Administrators, time and restarts.

RotateSecret ==
  /\ client # 0 /\ generated < MaxSecrets
  /\ Fault
  /\ generated' = generated + 1
  /\ client' = generated + 1
  /\ UNCHANGED <<roles, adminOK, stored, caches, call, told, history>>

DeleteClient ==
  /\ client # 0 /\ generated < MaxSecrets
  /\ Fault
  /\ client' = 0
  /\ roles' = {}
  /\ token' = [token EXCEPT !.live = FALSE]
  /\ tampered' = TRUE
  /\ UNCHANGED <<adminOK, stored, secretCache, adminToken, call, told,
                 keptLegacy, generated>>

ChangeRoles ==
  /\ client # 0
  /\ Fault
  /\ \E r \in RoleNames :
       \/ roles' = roles \ {r} /\ tampered' = TRUE /\ UNCHANGED keptLegacy
       \/ /\ roles' = roles \union {r}
          /\ keptLegacy' = (keptLegacy \/ r = "legacy")
          /\ UNCHANGED tampered
  /\ UNCHANGED <<client, adminOK, stored, caches, call, told, generated>>

ChangeMasterPassword ==
  /\ Fault
  /\ adminOK' = ~adminOK
  /\ UNCHANGED <<client, roles, stored, caches, call, told, history, generated>>

DeleteSecret ==
  /\ stored.secret # 0
  /\ Fault
  /\ stored' = [secret |-> 0, profile |-> "none"]
  /\ UNCHANGED <<keycloak, caches, call, told, history, generated>>

\* Keycloak no longer honours the tokens it has issued.
RevokeTokens ==
  /\ Fault
  /\ token' = [token EXCEPT !.live = FALSE]
  /\ adminToken' = IF adminToken = "none" THEN "none" ELSE "dead"
  /\ UNCHANGED <<keycloak, stored, secretCache, call, told, history, generated>>

\* A cached token is given up shortly before it expires.
Expire ==
  /\ pc = "idle"
  /\ token.there \/ adminToken # "none"
  /\ token' = NoToken /\ adminToken' = "none"
  /\ UNCHANGED <<keycloak, stored, secretCache, call, told, history, bounds>>

Restart ==
  /\ Fault
  /\ secretCache' = 0 /\ token' = NoToken /\ adminToken' = "none"
  /\ pc' = "idle" /\ attempt' = 1 /\ reprovision' = FALSE /\ have' = {}
  /\ UNCHANGED <<keycloak, stored, api, told, history, generated>>

Controller ==
  \/ Begin \/ Served \/ Refused
  \/ CachedToken \/ TokenFromSecret \/ NeedsProvisioning
  \/ CredentialsAccepted \/ CredentialsRejected
  \/ AdminToken \/ AdminRefused \/ ClientGone \/ FindOrCreateClient
  \/ ReadRoles \/ GrantRole \/ RevokeLegacy \/ GrantManagement
  \/ FetchSecret \/ StoreSecret
  \/ RevocationRefused /\ RevokeFails

Failures == RequestFails \/ RevokeFails \/ StoreFails \/ AuthRequestFails

Others ==
  \/ RotateSecret \/ DeleteClient \/ ChangeRoles \/ ChangeMasterPassword
  \/ DeleteSecret \/ RevokeTokens \/ Restart

Next == Controller \/ Failures \/ Others \/ Expire

Spec == Init /\ [][Next]_vars

\* Calls keep coming, and tokens expire between them in the end.
FairSpec == Spec /\ WF_vars(Controller) /\ SF_vars(Expire)

-----------------------------------------------------------------------------
\* Properties.

\* transaction.py takes notFound as proof that a transaction id does not
\* exist: it must be the endpoint's own answer, never one of the auth stack.
AbsenceIsReal == result = "notFound" => answer = "404"

\* Once the stored credential carries the current profile, the superseded
\* role is gone, unless revoking it failed or somebody granted it anew.
LegacyRoleRevoked ==
  stored.profile = "current" /\ "legacy" \in roles => keptLegacy

\* Provisioning never leaves the account without access to the EDA API:
\* the superseded role only goes once the new one has been granted.
HasAccess == roles \intersect {"eda", "legacy"} # {}

NeverStripsAccess ==
  [][client' = client /\ faults' = faults /\ ~tampered /\ HasAccess => HasAccess']_vars

Answered == result \in {"ok", "notFound"}

Sound ==
  /\ client # 0
  /\ stored = [secret |-> client, profile |-> "current"]
  /\ {"eda", "mgmt"} \subseteq roles

\* Whatever was rotated, stripped, deleted or lost, calls are answered again as
\* long as the master password is right ("role-drift self-heal"), and without
\* it if client and Secret are sound.  eda_api_get, kc_admin_get of auth.py.
SelfHeals == <>[](adminOK \/ Sound) => []<>Answered

\* "Upgrading is automatic, and actually takes effect": the first calls of this
\* version rid the account of the role the former one gave it.
UpgradeTakesEffect == <>[]adminOK => <>[]("legacy" \in roles => keptLegacy)
=============================================================================
