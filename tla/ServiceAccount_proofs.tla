------------------------ MODULE ServiceAccount_proofs ------------------------
(***************************************************************************)
(* Proofs about ServiceAccount for any number of secrets, faults and       *)
(* interventions.                                                          *)
(***************************************************************************)
EXTENDS ServiceAccount, TLAPS

USE ServiceAccountAssumption

-----------------------------------------------------------------------------
\* Type correctness.

LEMMA TokenTyped ==
  /\ NoToken \in Tokens
  /\ \A t \in Tokens : [t EXCEPT !.live = FALSE] \in Tokens
  /\ \A r \in SUBSET RoleNames : [there |-> TRUE, live |-> TRUE, roles |-> r] \in Tokens
  BY DEF NoToken, Tokens

LEMMA RoleFacts ==
  /\ {"eda"} \in SUBSET RoleNames /\ {"legacy"} \in SUBSET RoleNames
  /\ {"mgmt"} \in SUBSET RoleNames /\ {} \in SUBSET RoleNames
  BY DEF RoleNames

CallTyped ==
  /\ pc \in {"idle", "token", "credentials", "request"} \union Provisioning
  /\ api \in {"eda", "kc"}
  /\ attempt \in {1, 2}
  /\ reprovision \in BOOLEAN
  /\ have \in SUBSET RoleNames
  /\ result \in {"none", "ok", "notFound", "error"}
  /\ answer \in {"none", "200", "404", "401", "403"}

RestTyped ==
  /\ client \in 0 .. MaxSecrets
  /\ roles \in SUBSET RoleNames
  /\ adminOK \in BOOLEAN
  /\ stored \in [secret : 0 .. MaxSecrets, profile : {"none", "current"}]
  /\ secretCache \in 0 .. MaxSecrets
  /\ token \in Tokens
  /\ adminToken \in {"none", "live", "dead"}
  /\ keptLegacy \in BOOLEAN /\ tampered \in BOOLEAN
  /\ generated \in 0 .. MaxSecrets
  /\ faults \in 0 .. MaxFaults

LEMMA Split == TypeOK <=> CallTyped /\ RestTyped
  BY DEF TypeOK, CallTyped, RestTyped

LEMMA CallNext == TypeOK /\ CallTyped /\ [Next]_vars => CallTyped'
<1> SUFFICES ASSUME TypeOK, CallTyped, [Next]_vars PROVE CallTyped'
  OBVIOUS
<1> USE RoleFacts
<1>1. CASE Begin
  BY <1>1 DEF Begin, Goto, keycloak, caches, history, bounds, CallTyped,
     Provisioning, TokenFailure
<1>2. CASE Served
  BY <1>2 DEF Served, Finish, keycloak, caches, history, bounds, CallTyped,
     Provisioning, TokenFailure
<1>3. CASE Refused
  <2>1. token.live \in BOOLEAN
    BY DEF TypeOK, Tokens
  <2>2. QED
    BY <1>3, <2>1 DEF Refused, Finish, CallTyped
<1>4. CASE RequestFails
  BY <1>4 DEF RequestFails, Fault, Finish, keycloak, caches, history,
     CallTyped, Provisioning, TokenFailure
<1>5. CASE CachedToken
  BY <1>5 DEF CachedToken, Goto, keycloak, caches, told, history, bounds,
     CallTyped, Provisioning, TokenFailure
<1>6. CASE TokenFromSecret
  BY <1>6 DEF TokenFromSecret, Goto, UseSecret, keycloak, told, history,
     bounds, CallTyped, Provisioning, TokenFailure
<1>7. CASE NeedsProvisioning
  BY <1>7 DEF NeedsProvisioning, Goto, keycloak, told, history, bounds,
     CallTyped, Provisioning, TokenFailure
<1>8. CASE CredentialsAccepted
  BY <1>8 DEF CredentialsAccepted, keycloak, told, history, bounds, CallTyped,
     Provisioning, TokenFailure
<1>9. CASE CredentialsRejected
  <2>1. CASE AuthFails
    BY <2>1 DEF AuthFails, CallTyped, TokenFailure
  <2>2. CASE /\ Goto("credentials", "admin")
             /\ UNCHANGED <<api, attempt, reprovision, have, result, answer>>
    BY <2>2 DEF Goto, CallTyped, Provisioning
  <2>3. QED
    BY <1>9, <2>1, <2>2 DEF CredentialsRejected
<1>10. CASE AdminToken
  BY <1>10 DEF AdminToken, Goto, keycloak, told, history, bounds, CallTyped,
     Provisioning, TokenFailure
<1>11. CASE AdminRefused
  BY <1>11 DEF AdminRefused, AuthFails, keycloak, caches, history, bounds,
     CallTyped, Provisioning, TokenFailure
<1>12. CASE ClientGone
  BY <1>12 DEF ClientGone, AuthFails, keycloak, caches, history, bounds,
     CallTyped, Provisioning, TokenFailure
<1>13. CASE FindOrCreateClient
  BY <1>13 DEF FindOrCreateClient, Goto, Advance, Step, told, history,
     CallTyped, Provisioning, TokenFailure
<1>14. CASE ReadRoles
  BY <1>14, Split DEF ReadRoles, Step, Advance, Goto, told, CallTyped,
     Provisioning, TypeOK
<1>15. CASE GrantRole
  BY <1>15 DEF GrantRole, Goto, Advance, Step, told, history, CallTyped,
     Provisioning, TokenFailure
<1>16. CASE RevokeLegacy
  BY <1>16 DEF RevokeLegacy, Goto, Advance, Step, told, history, CallTyped,
     Provisioning, TokenFailure
<1>17. CASE RevokeFails
  BY <1>17 DEF RevokeFails, Goto, Fault, keycloak, caches, told, CallTyped,
     Provisioning, TokenFailure
<1>18. CASE GrantManagement
  BY <1>18 DEF GrantManagement, Goto, Advance, Step, told, history, CallTyped,
     Provisioning, TokenFailure
<1>19. CASE FetchSecret
  BY <1>19 DEF FetchSecret, Goto, Advance, Step, told, history, CallTyped,
     Provisioning, TokenFailure
<1>20. CASE StoreSecret
  BY <1>20 DEF StoreSecret, Goto, keycloak, caches, told, history, bounds,
     CallTyped, Provisioning, TokenFailure
<1>21. CASE StoreFails
  BY <1>21 DEF StoreFails, Goto, Fault, keycloak, caches, told, history,
     CallTyped, Provisioning, TokenFailure
<1>22. CASE AuthRequestFails
  BY <1>22 DEF AuthRequestFails, Fault, AuthFails, keycloak, caches, history,
     CallTyped, Provisioning, TokenFailure
<1>23. CASE RotateSecret
  BY <1>23 DEF RotateSecret, Fault, caches, call, told, history, CallTyped,
     Provisioning, TokenFailure
<1>24. CASE DeleteClient
  BY <1>24 DEF DeleteClient, Fault, call, told, CallTyped, Provisioning,
     TokenFailure
<1>25. CASE ChangeRoles
  BY <1>25 DEF ChangeRoles, Fault, caches, call, told, CallTyped, Provisioning,
     TokenFailure
<1>26. CASE ChangeMasterPassword
  BY <1>26 DEF ChangeMasterPassword, Fault, caches, call, told, history,
     CallTyped, Provisioning, TokenFailure
<1>27. CASE DeleteSecret
  BY <1>27 DEF DeleteSecret, Fault, keycloak, caches, call, told, history,
     CallTyped, Provisioning, TokenFailure
<1>28. CASE RevokeTokens
  BY <1>28 DEF RevokeTokens, Fault, keycloak, call, told, history, CallTyped,
     Provisioning, TokenFailure
<1>29. CASE Expire
  BY <1>29 DEF Expire, keycloak, call, told, history, bounds, CallTyped,
     Provisioning, TokenFailure
<1>30. CASE Restart
  BY <1>30 DEF Restart, Fault, keycloak, told, history, CallTyped,
     Provisioning, TokenFailure
<1>31. CASE UNCHANGED vars
  BY <1>31 DEF vars, Goto, Fault, Finish, AuthFails, Invalidate, UseSecret,
     Advance, Step, keycloak, caches, call, told, history, bounds, CallTyped,
     Provisioning, TokenFailure
<1>32. QED
  BY <1>1, <1>2, <1>3, <1>4, <1>5, <1>6, <1>7, <1>8, <1>9, <1>10, <1>11, <1>12,
     <1>13, <1>14, <1>15, <1>16, <1>17, <1>18, <1>19, <1>20, <1>21, <1>22,
     <1>23, <1>24, <1>25, <1>26, <1>27, <1>28, <1>29, <1>30, <1>31 DEF Next,
     Controller, Failures, Others

LEMMA RestNext == RestTyped /\ [Next]_vars => RestTyped'
<1> SUFFICES ASSUME RestTyped, [Next]_vars PROVE RestTyped'
  OBVIOUS
<1> USE TokenTyped, RoleFacts
<1>1. CASE Begin
  BY <1>1 DEF Begin, Goto, keycloak, caches, history, bounds, RestTyped,
     NewToken
<1>2. CASE Served
  BY <1>2 DEF Served, Finish, keycloak, caches, history, bounds, RestTyped,
     NewToken
<1>3. CASE Refused
  BY <1>3 DEF Refused, Finish, Invalidate, keycloak, caches, history, bounds,
     RestTyped, NewToken
<1>4. CASE RequestFails
  BY <1>4 DEF RequestFails, Fault, Finish, keycloak, caches, history,
     RestTyped, NewToken
<1>5. CASE CachedToken
  BY <1>5 DEF CachedToken, Goto, keycloak, caches, told, history, bounds,
     RestTyped, NewToken
<1>6. CASE TokenFromSecret
  BY <1>6 DEF TokenFromSecret, Goto, UseSecret, keycloak, told, history,
     bounds, RestTyped, NewToken
<1>7. CASE NeedsProvisioning
  BY <1>7 DEF NeedsProvisioning, Goto, keycloak, told, history, bounds,
     RestTyped, NewToken
<1>8. CASE CredentialsAccepted
  BY <1>8 DEF CredentialsAccepted, keycloak, told, history, bounds, RestTyped,
     NewToken
<1>9. CASE CredentialsRejected
  BY <1>9 DEF CredentialsRejected, Goto, AuthFails, keycloak, caches, history,
     bounds, RestTyped, NewToken
<1>10. CASE AdminToken
  BY <1>10 DEF AdminToken, Goto, keycloak, told, history, bounds, RestTyped,
     NewToken
<1>11. CASE AdminRefused
  BY <1>11 DEF AdminRefused, AuthFails, keycloak, caches, history, bounds,
     RestTyped, NewToken
<1>12. CASE ClientGone
  BY <1>12 DEF ClientGone, AuthFails, keycloak, caches, history, bounds,
     RestTyped, NewToken
<1>13. CASE FindOrCreateClient
  BY <1>13 DEF FindOrCreateClient, Goto, Advance, Step, told, history,
     RestTyped, NewToken
<1>14. CASE ReadRoles
  BY <1>14 DEF ReadRoles, Goto, Advance, Step, told, RestTyped, NewToken
<1>15. CASE GrantRole
  BY <1>15 DEF GrantRole, Goto, Advance, Step, told, history, RestTyped,
     NewToken
<1>16. CASE RevokeLegacy
  BY <1>16 DEF RevokeLegacy, Goto, Advance, Step, told, history, RestTyped,
     NewToken
<1>17. CASE RevokeFails
  BY <1>17 DEF RevokeFails, Goto, Fault, keycloak, caches, told, RestTyped,
     NewToken
<1>18. CASE GrantManagement
  BY <1>18 DEF GrantManagement, Goto, Advance, Step, told, history, RestTyped,
     NewToken
<1>19. CASE FetchSecret
  BY <1>19 DEF FetchSecret, Goto, Advance, Step, told, history, RestTyped,
     NewToken
<1>20. CASE StoreSecret
  BY <1>20 DEF StoreSecret, Goto, keycloak, caches, told, history, bounds,
     RestTyped, NewToken
<1>21. CASE StoreFails
  BY <1>21 DEF StoreFails, Goto, Fault, keycloak, caches, told, history,
     RestTyped, NewToken
<1>22. CASE AuthRequestFails
  BY <1>22 DEF AuthRequestFails, Fault, AuthFails, keycloak, caches, history,
     RestTyped, NewToken
<1>23. CASE RotateSecret
  BY <1>23 DEF RotateSecret, Fault, caches, call, told, history, RestTyped,
     NewToken
<1>24. CASE DeleteClient
  BY <1>24 DEF DeleteClient, Fault, call, told, RestTyped, NewToken
<1>25. CASE ChangeRoles
  <2>1. PICK r \in RoleNames :
          \/ roles' = roles \ {r} /\ tampered' = TRUE /\ UNCHANGED keptLegacy
          \/ /\ roles' = roles \union {r}
             /\ keptLegacy' = (keptLegacy \/ r = "legacy")
             /\ UNCHANGED tampered
    BY <1>25 DEF ChangeRoles
  <2>2. roles' \in SUBSET RoleNames
    BY <2>1 DEF RestTyped
  <2>3. keptLegacy' \in BOOLEAN /\ tampered' \in BOOLEAN
    BY <2>1 DEF RestTyped
  <2>4. QED
    BY <1>25, <2>2, <2>3 DEF ChangeRoles, Fault, RestTyped, caches, call, told
<1>26. CASE ChangeMasterPassword
  BY <1>26 DEF ChangeMasterPassword, Fault, caches, call, told, history,
     RestTyped, NewToken
<1>27. CASE DeleteSecret
  BY <1>27 DEF DeleteSecret, Fault, keycloak, caches, call, told, history,
     RestTyped, NewToken
<1>28. CASE RevokeTokens
  BY <1>28 DEF RevokeTokens, Fault, keycloak, call, told, history, RestTyped,
     NewToken
<1>29. CASE Expire
  BY <1>29 DEF Expire, keycloak, call, told, history, bounds, RestTyped,
     NewToken
<1>30. CASE Restart
  BY <1>30 DEF Restart, Fault, keycloak, told, history, RestTyped, NewToken
<1>31. CASE UNCHANGED vars
  BY <1>31 DEF vars, Goto, Fault, Finish, AuthFails, Invalidate, UseSecret,
     Advance, Step, keycloak, caches, call, told, history, bounds, RestTyped,
     NewToken
<1>32. QED
  BY <1>1, <1>2, <1>3, <1>4, <1>5, <1>6, <1>7, <1>8, <1>9, <1>10, <1>11, <1>12,
     <1>13, <1>14, <1>15, <1>16, <1>17, <1>18, <1>19, <1>20, <1>21, <1>22,
     <1>23, <1>24, <1>25, <1>26, <1>27, <1>28, <1>29, <1>30, <1>31 DEF Next,
     Controller, Failures, Others

LEMMA TypedInit == Init => TypeOK
<1> SUFFICES ASSUME Init PROVE TypeOK
  OBVIOUS
<1>1. CallTyped
  BY RoleFacts DEF Init, CallTyped
<1>2. roles \in SUBSET RoleNames
  BY DEF Init, RoleNames
<1>3. client \in 0 .. MaxSecrets /\ generated \in 0 .. MaxSecrets /\ faults \in 0 .. MaxFaults
  BY DEF Init
<1>4. stored \in [secret : 0 .. MaxSecrets, profile : {"none", "current"}]
  BY DEF Init
<1>5. QED
  <2>1. token \in Tokens /\ secretCache \in 0 .. MaxSecrets
    BY TokenTyped DEF Init
  <2>2. /\ adminOK \in BOOLEAN /\ keptLegacy \in BOOLEAN /\ tampered \in BOOLEAN
        /\ adminToken \in {"none", "live", "dead"}
    BY DEF Init
  <2>3. RestTyped
    BY <1>2, <1>3, <1>4, <2>1, <2>2 DEF RestTyped
  <2>4. QED
    BY <1>1, <2>3, Split

LEMMA TypedNext == TypeOK /\ [Next]_vars => TypeOK'
<1>1. TypeOK /\ [Next]_vars => CallTyped' /\ RestTyped'
  BY CallNext, RestNext, Split
<1>2. CallTyped' /\ RestTyped' => TypeOK'
  BY DEF TypeOK, CallTyped, RestTyped
<1>3. QED
  BY <1>1, <1>2

\* Every variable keeps its type: no secret is invented and no role is unknown.
THEOREM TypeCorrect == Spec => []TypeOK
<1>1. Init => TypeOK
  BY TypedInit
<1>2. TypeOK /\ [Next]_vars => TypeOK'
  BY TypedNext
<1>3. QED
  BY <1>1, <1>2, PTL DEF Spec

-----------------------------------------------------------------------------
\* What a call is told, and what its provisioning leaves behind.

\* Nothing has been told while a call is under way.
Told == (pc # "idle" => result = "none") /\ AbsenceIsReal

\* After the roles were read the superseded one is either known to be there,
\* gone, or kept for a reason.
Cleared ==
  /\ LegacyRoleRevoked
  /\ pc \in {"grant", "revoke"} /\ "legacy" \in roles => "legacy" \in have \/ keptLegacy
  /\ pc \in {"mgmt", "fetch", "store"} /\ "legacy" \in roles => keptLegacy

\* As long as nobody strips roles, what was read is still held, and the new
\* role is held before the old one goes.
Held ==
  /\ pc = "grant" /\ ~tampered => have \subseteq roles
  /\ pc = "revoke" /\ ~tampered => "eda" \in roles

LEMMA ToldNext == TypeOK /\ Told /\ [Next]_vars => Told'
<1> SUFFICES ASSUME TypeOK, Told, [Next]_vars PROVE Told'
  OBVIOUS
<1>1. CASE Begin
  BY <1>1 DEF Begin, Goto, keycloak, caches, history, bounds, TypeOK, Told,
     AbsenceIsReal, Provisioning, TokenFailure
<1>2. CASE Served
  BY <1>2 DEF Served, Finish, keycloak, caches, history, bounds, TypeOK, Told,
     AbsenceIsReal, Provisioning, TokenFailure
<1>3. CASE Refused
  BY <1>3 DEF Refused, Finish, Invalidate, keycloak, caches, history, bounds,
     TypeOK, Told, AbsenceIsReal, Provisioning, TokenFailure
<1>4. CASE RequestFails
  BY <1>4 DEF RequestFails, Fault, Finish, keycloak, caches, history, TypeOK,
     Told, AbsenceIsReal, Provisioning, TokenFailure
<1>5. CASE CachedToken
  BY <1>5 DEF CachedToken, Goto, keycloak, caches, told, history, bounds,
     TypeOK, Told, AbsenceIsReal, Provisioning, TokenFailure
<1>6. CASE TokenFromSecret
  BY <1>6 DEF TokenFromSecret, Goto, UseSecret, keycloak, told, history,
     bounds, TypeOK, Told, AbsenceIsReal, Provisioning, TokenFailure
<1>7. CASE NeedsProvisioning
  BY <1>7 DEF NeedsProvisioning, Goto, keycloak, told, history, bounds, TypeOK,
     Told, AbsenceIsReal, Provisioning, TokenFailure
<1>8. CASE CredentialsAccepted
  BY <1>8 DEF CredentialsAccepted, keycloak, told, history, bounds, TypeOK,
     Told, AbsenceIsReal, Provisioning, TokenFailure
<1>9. CASE CredentialsRejected
  BY <1>9 DEF CredentialsRejected, Goto, AuthFails, keycloak, caches, history,
     bounds, TypeOK, Told, AbsenceIsReal, Provisioning, TokenFailure
<1>10. CASE AdminToken
  BY <1>10 DEF AdminToken, Goto, keycloak, told, history, bounds, TypeOK, Told,
     AbsenceIsReal, Provisioning, TokenFailure
<1>11. CASE AdminRefused
  BY <1>11 DEF AdminRefused, AuthFails, keycloak, caches, history, bounds,
     TypeOK, Told, AbsenceIsReal, Provisioning, TokenFailure
<1>12. CASE ClientGone
  BY <1>12 DEF ClientGone, AuthFails, keycloak, caches, history, bounds,
     TypeOK, Told, AbsenceIsReal, Provisioning, TokenFailure
<1>13. CASE FindOrCreateClient
  BY <1>13 DEF FindOrCreateClient, Goto, Advance, Step, told, history, TypeOK,
     Told, AbsenceIsReal, Provisioning, TokenFailure
<1>14. CASE ReadRoles
  BY <1>14 DEF ReadRoles, Goto, Advance, Step, told, TypeOK, Told,
     AbsenceIsReal, Provisioning, TokenFailure
<1>15. CASE GrantRole
  BY <1>15 DEF GrantRole, Goto, Advance, Step, told, history, TypeOK, Told,
     AbsenceIsReal, Provisioning, TokenFailure
<1>16. CASE RevokeLegacy
  BY <1>16 DEF RevokeLegacy, Goto, Advance, Step, told, history, TypeOK, Told,
     AbsenceIsReal, Provisioning, TokenFailure
<1>17. CASE RevokeFails
  BY <1>17 DEF RevokeFails, Goto, Fault, keycloak, caches, told, TypeOK, Told,
     AbsenceIsReal, Provisioning, TokenFailure
<1>18. CASE GrantManagement
  BY <1>18 DEF GrantManagement, Goto, Advance, Step, told, history, TypeOK,
     Told, AbsenceIsReal, Provisioning, TokenFailure
<1>19. CASE FetchSecret
  BY <1>19 DEF FetchSecret, Goto, Advance, Step, told, history, TypeOK, Told,
     AbsenceIsReal, Provisioning, TokenFailure
<1>20. CASE StoreSecret
  BY <1>20 DEF StoreSecret, Goto, keycloak, caches, told, history, bounds,
     TypeOK, Told, AbsenceIsReal, Provisioning, TokenFailure
<1>21. CASE StoreFails
  BY <1>21 DEF StoreFails, Goto, Fault, keycloak, caches, told, history,
     TypeOK, Told, AbsenceIsReal, Provisioning, TokenFailure
<1>22. CASE AuthRequestFails
  BY <1>22 DEF AuthRequestFails, Fault, AuthFails, keycloak, caches, history,
     TypeOK, Told, AbsenceIsReal, Provisioning, TokenFailure
<1>23. CASE RotateSecret
  BY <1>23 DEF RotateSecret, Fault, caches, call, told, history, TypeOK, Told,
     AbsenceIsReal, Provisioning, TokenFailure
<1>24. CASE DeleteClient
  BY <1>24 DEF DeleteClient, Fault, call, told, TypeOK, Told, AbsenceIsReal,
     Provisioning, TokenFailure
<1>25. CASE ChangeRoles
  BY <1>25 DEF ChangeRoles, Fault, caches, call, told, TypeOK, Told,
     AbsenceIsReal, Provisioning, TokenFailure
<1>26. CASE ChangeMasterPassword
  BY <1>26 DEF ChangeMasterPassword, Fault, caches, call, told, history,
     TypeOK, Told, AbsenceIsReal, Provisioning, TokenFailure
<1>27. CASE DeleteSecret
  BY <1>27 DEF DeleteSecret, Fault, keycloak, caches, call, told, history,
     TypeOK, Told, AbsenceIsReal, Provisioning, TokenFailure
<1>28. CASE RevokeTokens
  BY <1>28 DEF RevokeTokens, Fault, keycloak, call, told, history, TypeOK,
     Told, AbsenceIsReal, Provisioning, TokenFailure
<1>29. CASE Expire
  BY <1>29 DEF Expire, keycloak, call, told, history, bounds, TypeOK, Told,
     AbsenceIsReal, Provisioning, TokenFailure
<1>30. CASE Restart
  BY <1>30 DEF Restart, Fault, keycloak, told, history, TypeOK, Told,
     AbsenceIsReal, Provisioning, TokenFailure
<1>31. CASE UNCHANGED vars
  BY <1>31 DEF vars, Goto, Fault, Finish, AuthFails, Invalidate, UseSecret,
     Advance, Step, keycloak, caches, call, told, history, bounds, TypeOK,
     Told, AbsenceIsReal, Provisioning, TokenFailure
<1>32. QED
  BY <1>1, <1>2, <1>3, <1>4, <1>5, <1>6, <1>7, <1>8, <1>9, <1>10, <1>11, <1>12,
     <1>13, <1>14, <1>15, <1>16, <1>17, <1>18, <1>19, <1>20, <1>21, <1>22,
     <1>23, <1>24, <1>25, <1>26, <1>27, <1>28, <1>29, <1>30, <1>31 DEF Next,
     Controller, Failures, Others

LEMMA ClearedNext == TypeOK /\ Cleared /\ [Next]_vars => Cleared'
<1> SUFFICES ASSUME TypeOK, Cleared, [Next]_vars PROVE Cleared'
  OBVIOUS
<1>1. CASE Begin
  BY <1>1 DEF Begin, Goto, keycloak, caches, history, bounds, TypeOK, Cleared,
     LegacyRoleRevoked, Provisioning
<1>2. CASE Served
  BY <1>2 DEF Served, Finish, keycloak, caches, history, bounds, TypeOK,
     Cleared, LegacyRoleRevoked, Provisioning
<1>3. CASE Refused
  BY <1>3 DEF Refused, Finish, Invalidate, keycloak, caches, history, bounds,
     TypeOK, Cleared, LegacyRoleRevoked, Provisioning
<1>4. CASE RequestFails
  BY <1>4 DEF RequestFails, Fault, Finish, keycloak, caches, history, TypeOK,
     Cleared, LegacyRoleRevoked, Provisioning
<1>5. CASE CachedToken
  BY <1>5 DEF CachedToken, Goto, keycloak, caches, told, history, bounds,
     TypeOK, Cleared, LegacyRoleRevoked, Provisioning
<1>6. CASE TokenFromSecret
  BY <1>6 DEF TokenFromSecret, Goto, UseSecret, keycloak, told, history,
     bounds, TypeOK, Cleared, LegacyRoleRevoked, Provisioning
<1>7. CASE NeedsProvisioning
  BY <1>7 DEF NeedsProvisioning, Goto, keycloak, told, history, bounds, TypeOK,
     Cleared, LegacyRoleRevoked, Provisioning
<1>8. CASE CredentialsAccepted
  BY <1>8 DEF CredentialsAccepted, keycloak, told, history, bounds, TypeOK,
     Cleared, LegacyRoleRevoked, Provisioning
<1>9. CASE CredentialsRejected
  BY <1>9 DEF CredentialsRejected, Goto, AuthFails, keycloak, caches, history,
     bounds, TypeOK, Cleared, LegacyRoleRevoked, Provisioning
<1>10. CASE AdminToken
  BY <1>10 DEF AdminToken, Goto, keycloak, told, history, bounds, TypeOK,
     Cleared, LegacyRoleRevoked, Provisioning
<1>11. CASE AdminRefused
  BY <1>11 DEF AdminRefused, AuthFails, keycloak, caches, history, bounds,
     TypeOK, Cleared, LegacyRoleRevoked, Provisioning
<1>12. CASE ClientGone
  BY <1>12 DEF ClientGone, AuthFails, keycloak, caches, history, bounds,
     TypeOK, Cleared, LegacyRoleRevoked, Provisioning
<1>13. CASE FindOrCreateClient
  BY <1>13 DEF FindOrCreateClient, Goto, Advance, Step, told, history, TypeOK,
     Cleared, LegacyRoleRevoked, Provisioning
<1>14. CASE ReadRoles
  BY <1>14 DEF ReadRoles, Goto, Advance, Step, told, TypeOK, Cleared,
     LegacyRoleRevoked, Provisioning
<1>15. CASE GrantRole
  BY <1>15 DEF GrantRole, Goto, Advance, Step, told, history, TypeOK, Cleared,
     LegacyRoleRevoked, Provisioning
<1>16. CASE RevokeLegacy
  BY <1>16 DEF RevokeLegacy, Goto, Advance, Step, told, history, TypeOK,
     Cleared, LegacyRoleRevoked, Provisioning
<1>17. CASE RevokeFails
  BY <1>17 DEF RevokeFails, Goto, Fault, keycloak, caches, told, TypeOK,
     Cleared, LegacyRoleRevoked, Provisioning
<1>18. CASE GrantManagement
  BY <1>18 DEF GrantManagement, Goto, Advance, Step, told, history, TypeOK,
     Cleared, LegacyRoleRevoked, Provisioning
<1>19. CASE FetchSecret
  BY <1>19 DEF FetchSecret, Goto, Advance, Step, told, history, TypeOK,
     Cleared, LegacyRoleRevoked, Provisioning
<1>20. CASE StoreSecret
  BY <1>20 DEF StoreSecret, Goto, keycloak, caches, told, history, bounds,
     TypeOK, Cleared, LegacyRoleRevoked, Provisioning
<1>21. CASE StoreFails
  BY <1>21 DEF StoreFails, Goto, Fault, keycloak, caches, told, history,
     TypeOK, Cleared, LegacyRoleRevoked, Provisioning
<1>22. CASE AuthRequestFails
  BY <1>22 DEF AuthRequestFails, Fault, AuthFails, keycloak, caches, history,
     TypeOK, Cleared, LegacyRoleRevoked, Provisioning
<1>23. CASE RotateSecret
  BY <1>23 DEF RotateSecret, Fault, caches, call, told, history, TypeOK,
     Cleared, LegacyRoleRevoked, Provisioning
<1>24. CASE DeleteClient
  BY <1>24 DEF DeleteClient, Fault, call, told, TypeOK, Cleared,
     LegacyRoleRevoked, Provisioning
<1>25. CASE ChangeRoles
  <2>1. PICK r \in RoleNames :
          \/ roles' = roles \ {r} /\ UNCHANGED keptLegacy
          \/ /\ roles' = roles \union {r}
             /\ keptLegacy' = (keptLegacy \/ r = "legacy")
    BY <1>25 DEF ChangeRoles
  <2>2. ("legacy" \in roles' => "legacy" \in roles \/ keptLegacy') /\ (keptLegacy => keptLegacy')
    <3>1. keptLegacy \in BOOLEAN
      BY DEF TypeOK
    <3>2. CASE roles' = roles \ {r} /\ UNCHANGED keptLegacy
      BY <3>2
    <3>3. CASE roles' = roles \union {r} /\ keptLegacy' = (keptLegacy \/ r = "legacy")
      BY <3>1, <3>3
    <3>4. QED
      BY <2>1, <3>2, <3>3
  <2>3. QED
    BY <1>25, <2>2 DEF ChangeRoles, Cleared, LegacyRoleRevoked, call
<1>26. CASE ChangeMasterPassword
  BY <1>26 DEF ChangeMasterPassword, Fault, caches, call, told, history,
     TypeOK, Cleared, LegacyRoleRevoked, Provisioning
<1>27. CASE DeleteSecret
  BY <1>27 DEF DeleteSecret, Fault, keycloak, caches, call, told, history,
     TypeOK, Cleared, LegacyRoleRevoked, Provisioning
<1>28. CASE RevokeTokens
  BY <1>28 DEF RevokeTokens, Fault, keycloak, call, told, history, TypeOK,
     Cleared, LegacyRoleRevoked, Provisioning
<1>29. CASE Expire
  BY <1>29 DEF Expire, keycloak, call, told, history, bounds, TypeOK, Cleared,
     LegacyRoleRevoked, Provisioning
<1>30. CASE Restart
  BY <1>30 DEF Restart, Fault, keycloak, told, history, TypeOK, Cleared,
     LegacyRoleRevoked, Provisioning
<1>31. CASE UNCHANGED vars
  BY <1>31 DEF vars, Goto, Fault, Finish, AuthFails, Invalidate, UseSecret,
     Advance, Step, keycloak, caches, call, told, history, bounds, TypeOK,
     Cleared, LegacyRoleRevoked, Provisioning
<1>32. QED
  BY <1>1, <1>2, <1>3, <1>4, <1>5, <1>6, <1>7, <1>8, <1>9, <1>10, <1>11, <1>12,
     <1>13, <1>14, <1>15, <1>16, <1>17, <1>18, <1>19, <1>20, <1>21, <1>22,
     <1>23, <1>24, <1>25, <1>26, <1>27, <1>28, <1>29, <1>30, <1>31 DEF Next,
     Controller, Failures, Others

LEMMA HeldNext == TypeOK /\ Held /\ [Next]_vars => Held'
<1> SUFFICES ASSUME TypeOK, Held, [Next]_vars PROVE Held'
  OBVIOUS
<1>1. CASE Begin
  BY <1>1 DEF Begin, Goto, keycloak, caches, history, bounds, Held,
     Provisioning
<1>2. CASE Served
  BY <1>2 DEF Served, Finish, keycloak, caches, history, bounds, Held,
     Provisioning
<1>3. CASE Refused
  BY <1>3 DEF Refused, Finish, Invalidate, keycloak, caches, history, bounds,
     Held, Provisioning
<1>4. CASE RequestFails
  BY <1>4 DEF RequestFails, Fault, Finish, keycloak, caches, history, Held,
     Provisioning
<1>5. CASE CachedToken
  BY <1>5 DEF CachedToken, Goto, keycloak, caches, told, history, bounds, Held,
     Provisioning
<1>6. CASE TokenFromSecret
  BY <1>6 DEF TokenFromSecret, Goto, UseSecret, keycloak, told, history,
     bounds, Held, Provisioning
<1>7. CASE NeedsProvisioning
  BY <1>7 DEF NeedsProvisioning, Goto, keycloak, told, history, bounds, Held,
     Provisioning
<1>8. CASE CredentialsAccepted
  BY <1>8 DEF CredentialsAccepted, keycloak, told, history, bounds, Held,
     Provisioning
<1>9. CASE CredentialsRejected
  BY <1>9 DEF CredentialsRejected, Goto, AuthFails, keycloak, caches, history,
     bounds, Held, Provisioning
<1>10. CASE AdminToken
  BY <1>10 DEF AdminToken, Goto, keycloak, told, history, bounds, Held,
     Provisioning
<1>11. CASE AdminRefused
  BY <1>11 DEF AdminRefused, AuthFails, keycloak, caches, history, bounds,
     Held, Provisioning
<1>12. CASE ClientGone
  BY <1>12 DEF ClientGone, AuthFails, keycloak, caches, history, bounds, Held,
     Provisioning
<1>13. CASE FindOrCreateClient
  BY <1>13 DEF FindOrCreateClient, Goto, Advance, Step, told, history, Held,
     Provisioning
<1>14. CASE ReadRoles
  BY <1>14 DEF ReadRoles, Goto, Advance, Step, told, Held, Provisioning
<1>15. CASE GrantRole
  BY <1>15 DEF GrantRole, Goto, Advance, Step, told, history, Held,
     Provisioning
<1>16. CASE RevokeLegacy
  BY <1>16 DEF RevokeLegacy, Goto, Advance, Step, told, history, Held,
     Provisioning
<1>17. CASE RevokeFails
  BY <1>17 DEF RevokeFails, Goto, Fault, keycloak, caches, told, Held,
     Provisioning
<1>18. CASE GrantManagement
  BY <1>18 DEF GrantManagement, Goto, Advance, Step, told, history, Held,
     Provisioning
<1>19. CASE FetchSecret
  BY <1>19 DEF FetchSecret, Goto, Advance, Step, told, history, Held,
     Provisioning
<1>20. CASE StoreSecret
  BY <1>20 DEF StoreSecret, Goto, keycloak, caches, told, history, bounds,
     Held, Provisioning
<1>21. CASE StoreFails
  BY <1>21 DEF StoreFails, Goto, Fault, keycloak, caches, told, history, Held,
     Provisioning
<1>22. CASE AuthRequestFails
  BY <1>22 DEF AuthRequestFails, Fault, AuthFails, keycloak, caches, history,
     Held, Provisioning
<1>23. CASE RotateSecret
  BY <1>23 DEF RotateSecret, Fault, caches, call, told, history, Held,
     Provisioning
<1>24. CASE DeleteClient
  BY <1>24 DEF DeleteClient, Fault, call, told, Held, Provisioning
<1>25. CASE ChangeRoles
  BY <1>25 DEF ChangeRoles, Fault, caches, call, told, Held, Provisioning
<1>26. CASE ChangeMasterPassword
  BY <1>26 DEF ChangeMasterPassword, Fault, caches, call, told, history, Held,
     Provisioning
<1>27. CASE DeleteSecret
  BY <1>27 DEF DeleteSecret, Fault, keycloak, caches, call, told, history,
     Held, Provisioning
<1>28. CASE RevokeTokens
  BY <1>28 DEF RevokeTokens, Fault, keycloak, call, told, history, Held,
     Provisioning
<1>29. CASE Expire
  BY <1>29 DEF Expire, keycloak, call, told, history, bounds, Held,
     Provisioning
<1>30. CASE Restart
  BY <1>30 DEF Restart, Fault, keycloak, told, history, Held, Provisioning
<1>31. CASE UNCHANGED vars
  BY <1>31 DEF vars, Goto, Fault, Finish, AuthFails, Invalidate, UseSecret,
     Advance, Step, keycloak, caches, call, told, history, bounds, Held,
     Provisioning
<1>32. QED
  BY <1>1, <1>2, <1>3, <1>4, <1>5, <1>6, <1>7, <1>8, <1>9, <1>10, <1>11, <1>12,
     <1>13, <1>14, <1>15, <1>16, <1>17, <1>18, <1>19, <1>20, <1>21, <1>22,
     <1>23, <1>24, <1>25, <1>26, <1>27, <1>28, <1>29, <1>30, <1>31 DEF Next,
     Controller, Failures, Others

LEMMA AccessKept ==
  TypeOK /\ Held /\ [Next]_vars =>
    (client' = client /\ faults' = faults /\ ~tampered /\ HasAccess => HasAccess')
<1> SUFFICES ASSUME TypeOK, Held, [Next]_vars, client' = client, faults' = faults, ~tampered, HasAccess
             PROVE  HasAccess'
  OBVIOUS
<1>1. CASE UNCHANGED roles
  BY <1>1 DEF HasAccess
<1>2. CASE FindOrCreateClient
  BY <1>2 DEF FindOrCreateClient, HasAccess, TypeOK
<1>3. CASE GrantRole
  BY <1>3 DEF GrantRole, HasAccess
<1>4. CASE RevokeLegacy
  BY <1>4 DEF RevokeLegacy, Step, Advance, Goto, Held, HasAccess
<1>5. CASE GrantManagement
  BY <1>5 DEF GrantManagement, HasAccess
<1>6. CASE Others
  BY <1>6 DEF Others, RotateSecret, DeleteClient, ChangeRoles,
     ChangeMasterPassword, DeleteSecret, RevokeTokens, Restart, Fault, TypeOK
<1>7. CASE Failures \/ Expire \/ UNCHANGED vars
  BY <1>1, <1>7 DEF Failures, Expire, RequestFails, RevokeFails, StoreFails,
     AuthRequestFails, vars, keycloak
<1>8. CASE Controller
  BY <1>1, <1>2, <1>3, <1>4, <1>5, <1>8 DEF Controller, Begin, Served, Refused,
     CachedToken, TokenFromSecret, UseSecret, NeedsProvisioning,
     CredentialsAccepted, CredentialsRejected, AdminToken, AdminRefused,
     ClientGone, ReadRoles, FetchSecret, StoreSecret, RevokeFails, keycloak
<1>9. QED
  BY <1>6, <1>7, <1>8 DEF Next

-----------------------------------------------------------------------------
\* The theorems.

Inv == TypeOK /\ Told /\ Cleared /\ Held

\* The inductive invariant of a call and its provisioning.
THEOREM Invariant == Spec => []Inv
<1>1. Init => Inv
  <2>1. ASSUME Init PROVE Told /\ Held
    BY <2>1 DEF Init, Told, AbsenceIsReal, Held
  <2>2. ASSUME Init PROVE Cleared
    BY <2>2 DEF Init, Cleared, LegacyRoleRevoked
  <2>3. Init => TypeOK
    BY TypedInit
  <2>4. QED
    BY <2>1, <2>2, <2>3 DEF Inv
<1>2. Inv /\ [Next]_vars => Inv'
  BY TypedNext, ToldNext, ClearedNext, HeldNext DEF Inv
<1>3. QED
  BY <1>1, <1>2, PTL DEF Spec

\* A caller is told "not found" only on the endpoint's own 404: a 404 of the
\* token endpoint or of the provisioning never passes for one.
THEOREM AbsenceAlwaysReal == Spec => []AbsenceIsReal
<1>1. Inv => AbsenceIsReal
  BY DEF Inv, Told
<1>2. QED
  BY <1>1, Invariant, PTL

\* A credential stored under the current profile belongs to an account that
\* has lost the superseded role, unless revoking failed or it was given again.
THEOREM LegacyRoleGone == Spec => []LegacyRoleRevoked
<1>1. Inv => LegacyRoleRevoked
  BY DEF Inv, Cleared
<1>2. QED
  BY <1>1, Invariant, PTL

\* No step of the controller takes away the last role that opens the EDA API.
THEOREM AccessNeverStripped == Spec => NeverStripsAccess
<1>1. Inv /\ [Next]_vars =>
        [client' = client /\ faults' = faults /\ ~tampered /\ HasAccess => HasAccess']_vars
  BY AccessKept DEF Inv
<1>2. QED
  BY <1>1, Invariant, PTL DEF Spec, NeverStripsAccess
=============================================================================
