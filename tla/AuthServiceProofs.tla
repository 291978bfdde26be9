-------------------------- MODULE AuthServiceProofs --------------------------
(***************************************************************************)
(* What holds of AuthService for every number of users, calls and keys.    *)
(***************************************************************************)
EXTENDS AuthService, TLAPS

-----------------------------------------------------------------------------
(* Where the guards lead.                                                  *)

LEMMA OpsFacts ==
  /\ SignOps \cap GuardedOps = {}
  /\ JwtOps \cap (JwtOrApiKeyOps \cup ApiKeyOps) = {}
  /\ JwtOps \cup JwtOrApiKeyOps \cup ApiKeyOps = GuardedOps
  BY DEF SignOps, GuardedOps, JwtOps, JwtOrApiKeyOps, ApiKeyOps

LEMMA WithoutTokenFacts ==
  ASSUME NEW body, body.op \in JwtOps \cup JwtOrApiKeyOps
  PROVE  \/ WithoutToken(body) \in {"Unauthorized", "Forbidden"}
         \/ WithoutToken(body) = "apiKey" /\ body.op \in JwtOrApiKeyOps
  BY DEF WithoutToken, JwtOps, JwtOrApiKeyOps

LEMMA FirstStageFacts ==
  ASSUME NEW body \in AuthBody
  PROVE  \/ FirstStage(body) = "saveUser" /\ body.op = "signup"
         \/ FirstStage(body) = "findUser" /\ body.op = "signin"
         \/ FirstStage(body) = "jwt" /\ body.op \in JwtOps \cup JwtOrApiKeyOps
         \/ FirstStage(body) = "apiKey" /\ body.op \in JwtOrApiKeyOps \cup ApiKeyOps
         \/ FirstStage(body) \in {"Unauthorized", "Forbidden"}
  <1>1. body.op \in SignOps \cup GuardedOps BY DEF AuthBody
  <1>2. CASE body.op \in SignOps
    BY <1>2 DEF FirstStage, SignOps, JwtOps, JwtOrApiKeyOps, ApiKeyOps
  <1>3. CASE body.op \in ApiKeyOps
    BY <1>3 DEF FirstStage, JwtOps, JwtOrApiKeyOps, ApiKeyOps
  <1>4. CASE body.op \in JwtOps \cup JwtOrApiKeyOps
    <2>1. FirstStage(body) = IF body.session # None THEN "jwt" ELSE WithoutToken(body)
      BY <1>4 DEF FirstStage, JwtOps, JwtOrApiKeyOps, ApiKeyOps
    <2> QED BY <1>4, <2>1, WithoutTokenFacts
  <1> QED BY <1>1, <1>2, <1>3, <1>4 DEF GuardedOps

LEMMA HandlerFacts ==
  ASSUME NEW body, body.op \in GuardedOps
  PROVE  \/ Handler(body) = "findCaller" /\ body.op = "generate"
         \/ Handler(body) = "list" /\ body.op = "list"
         \/ Handler(body) = "delete" /\ body.op = "delete"
         \/ Handler(body) = "admitted"
  BY DEF Handler, GuardedOps, JwtOps, JwtOrApiKeyOps, ApiKeyOps

LEMMA RefusalFacts ==
  \A body : Refusal(body) \in {"Forbidden", "NotFoundException"}
  BY DEF Refusal

LEMMA FailureFacts ==
  ASSUME NEW c, AuthLive(c), apc[c] # "jwt"
  PROVE  Failure(c) \in
           {"UserNotFoundError", "Forbidden", "NotFoundException", "unavailable"}
  BY RefusalFacts DEF Failure, AuthLive, AuthStages

LEMMA BodyTypes ==
  ASSUME AuthTypeOK, NEW c \in Calls, apc[c] # "new"
  PROVE  /\ req[c] \in AuthBody
         /\ req[c].op \in SignOps \cup GuardedOps
         /\ req[c].target \in Calls
         /\ req[c].session \in Calls \cup {Forged, None}
         /\ req[c].apiKey \in Calls \cup {Forged, None}
         /\ UserRow(req[c]) \in User
  BY DEF AuthTypeOK, AuthBody, User, UserRow

(* What none can be mistaken for.                                          *)
LEMMA NoneFacts == None \notin Calls /\ None \notin AuthBody /\ None \notin User
  BY AuthAssumption DEF User

-----------------------------------------------------------------------------
(* Types.                                                                  *)

LEMMA InitAuthTypeOK == AuthInit => AuthTypeOK
  BY DEF AuthInit, AuthTypeOK

LEMMA NextAuthTypeOK ==
  ASSUME AuthTypeOK, StagesSound, [AuthNext]_authVars
  PROVE  AuthTypeOK'
  <1> USE DEF AuthStages, AuthAnswers
  <1>1. ASSUME NEW c \in Calls, ArriveAuth(c) PROVE AuthTypeOK'
    <2>1. PICK body \in AuthBodies[c] : /\ req' = [req EXCEPT ![c] = body]
                                    /\ AuthGoto(c, FirstStage(body))
      BY <1>1 DEF ArriveAuth
    <2>2. body \in AuthBody BY AuthAssumption
    <2>3. FirstStage(body) \in AuthStages \cup AuthAnswers BY <2>2, FirstStageFacts
    <2> QED BY <1>1, <2>1, <2>2, <2>3 DEF AuthTypeOK, ArriveAuth, AuthGoto, authTables
  <1>2. ASSUME NEW c \in Calls, SaveUser(c) PROVE AuthTypeOK'
    <2>1. UserRow(req[c]) \in User BY <1>2, BodyTypes DEF SaveUser
    <2> QED BY <1>2, <2>1 DEF AuthTypeOK, SaveUser, AuthAcknowledge, AuthGoto
  <1>3. ASSUME NEW c \in Calls, UserTaken(c) PROVE AuthTypeOK'
    BY <1>3 DEF AuthTypeOK, UserTaken, AuthGoto, authTables
  <1>4. ASSUME NEW c \in Calls, FindUser(c) PROVE AuthTypeOK'
    BY <1>4 DEF AuthTypeOK, FindUser, UsersNamed, AuthGoto, authTables
  <1>5. ASSUME NEW c \in Calls, UserUnknown(c) PROVE AuthTypeOK'
    BY <1>5 DEF AuthTypeOK, UserUnknown, AuthGoto, authTables
  <1>6. ASSUME NEW c \in Calls, SignToken(c) PROVE AuthTypeOK'
    BY <1>6 DEF AuthTypeOK, SignToken, AuthGoto, authTables
  <1>7. ASSUME NEW c \in Calls, VerifyToken(c) PROVE AuthTypeOK'
    <2>1. Handler(req[c]) \in AuthStages \cup AuthAnswers
      BY <1>7, HandlerFacts, OpsFacts DEF VerifyToken, StagesSound
    <2> QED BY <1>7, <2>1 DEF AuthTypeOK, VerifyToken, LiveSession, AuthGoto, authTables
  <1>8. ASSUME NEW c \in Calls, TokenInvalid(c) PROVE AuthTypeOK'
    <2>1. WithoutToken(req[c]) \in AuthStages \cup AuthAnswers
      BY <1>8, WithoutTokenFacts DEF TokenInvalid, StagesSound
    <2> QED BY <1>8, <2>1 DEF AuthTypeOK, TokenInvalid, AuthGoto, authTables
  <1>9. ASSUME NEW c \in Calls, ValidateApiKey(c) PROVE AuthTypeOK'
    <2>1. Handler(req[c]) \in AuthStages \cup AuthAnswers
      BY <1>9, HandlerFacts, OpsFacts DEF ValidateApiKey, StagesSound
    <2> QED BY <1>9, <2>1 DEF AuthTypeOK, ValidateApiKey, KeyExists, AuthGoto, authTables
  <1>10. ASSUME NEW c \in Calls, ApiKeyInvalid(c) PROVE AuthTypeOK'
    <2>1. Refusal(req[c]) \in AuthAnswers BY RefusalFacts
    <2> QED BY <1>10, <2>1 DEF AuthTypeOK, ApiKeyInvalid, AuthGoto, authTables
  <1>11. ASSUME NEW c \in Calls, FindCaller(c) PROVE AuthTypeOK'
    BY <1>11 DEF AuthTypeOK, FindCaller, AuthGoto, authTables
  <1>12. ASSUME NEW c \in Calls, SaveApiKey(c) PROVE AuthTypeOK'
    BY <1>12 DEF AuthTypeOK, SaveApiKey, AuthGoto
  <1>13. ASSUME NEW c \in Calls, ListApiKeys(c) PROVE AuthTypeOK'
    BY <1>13 DEF AuthTypeOK, ListApiKeys, AuthGoto, authTables
  <1>14. ASSUME NEW c \in Calls, DeleteApiKey(c) PROVE AuthTypeOK'
    BY <1>14 DEF AuthTypeOK, DeleteApiKey, AuthAcknowledge, AuthGoto
  <1>15. ASSUME NEW c \in Calls, ApiKeyMissing(c) PROVE AuthTypeOK'
    BY <1>15 DEF AuthTypeOK, ApiKeyMissing, AuthGoto, authTables
  <1>16. ASSUME NEW c \in Calls, AuthFails(c) PROVE AuthTypeOK'
    <2>1. Failure(c) \in AuthAnswers BY <1>16, FailureFacts DEF AuthFails
    <2> QED BY <1>16, <2>1 DEF AuthTypeOK, AuthFails, AuthLive, AuthGoto, authTables
  <1>17. ASSUME NEW s \in Calls, Expire(s) PROVE AuthTypeOK'
    BY <1>17 DEF AuthTypeOK, Expire, authTables
  <1>18. CASE AuthCrash
    BY <1>18 DEF AuthTypeOK, AuthCrash, AuthLive, authTables
  <1>19. CASE UNCHANGED authVars
    BY <1>19 DEF AuthTypeOK, authVars
  <1> QED
    BY <1>1, <1>2, <1>3, <1>4, <1>5, <1>6, <1>7, <1>8, <1>9, <1>10, <1>11, <1>12,
       <1>13, <1>14, <1>15, <1>16, <1>17, <1>18, <1>19
    DEF AuthNext, Step, AuthQuiescent

-----------------------------------------------------------------------------
(* Stages.                                                                 *)

LEMMA NextStagesSound ==
  ASSUME AuthTypeOK, StagesSound, [AuthNext]_authVars
  PROVE  StagesSound'
  <1> USE DEF StagesSound, AuthStages, AuthAnswers
  <1>1. ASSUME NEW c \in Calls, ArriveAuth(c) PROVE StagesSound'
    <2>1. PICK body \in AuthBodies[c] : /\ req' = [req EXCEPT ![c] = body]
                                    /\ AuthGoto(c, FirstStage(body))
      BY <1>1 DEF ArriveAuth
    <2>2. body \in AuthBody BY AuthAssumption
    <2>3. /\ caller[c] = None /\ caller' = caller
          /\ req'[c] = body /\ apc'[c] = FirstStage(body)
          /\ \A d \in Calls \ {c} : req'[d] = req[d] /\ apc'[d] = apc[d]
      BY <1>1, <2>1 DEF AuthTypeOK, ArriveAuth, AuthGoto
    <2> QED BY <2>2, <2>3, FirstStageFacts
  <1>2. ASSUME NEW c \in Calls, SaveUser(c) PROVE StagesSound'
    BY <1>2 DEF AuthTypeOK, SaveUser, AuthAcknowledge, AuthGoto
  <1>3. ASSUME NEW c \in Calls, UserTaken(c) PROVE StagesSound'
    BY <1>3 DEF AuthTypeOK, UserTaken, AuthGoto, authTables
  <1>4. ASSUME NEW c \in Calls, FindUser(c) PROVE StagesSound'
    BY <1>4 DEF AuthTypeOK, FindUser, UsersNamed, AuthGoto, authTables
  <1>5. ASSUME NEW c \in Calls, UserUnknown(c) PROVE StagesSound'
    BY <1>5 DEF AuthTypeOK, UserUnknown, AuthGoto, authTables
  <1>6. ASSUME NEW c \in Calls, SignToken(c) PROVE StagesSound'
    BY <1>6 DEF AuthTypeOK, SignToken, AuthGoto, authTables
  <1>7. ASSUME NEW c \in Calls, VerifyToken(c) PROVE StagesSound'
    <2>1. /\ req[c].op \in GuardedOps /\ req' = req /\ apc'[c] = Handler(req[c])
          /\ \A d \in Calls \ {c} : caller'[d] = caller[d] /\ apc'[d] = apc[d]
      BY <1>7, OpsFacts DEF AuthTypeOK, VerifyToken, AuthGoto
    <2> QED BY <2>1, HandlerFacts DEF JwtOrApiKeyOps
  <1>8. ASSUME NEW c \in Calls, TokenInvalid(c) PROVE StagesSound'
    BY <1>8, WithoutTokenFacts, OpsFacts DEF AuthTypeOK, TokenInvalid, AuthGoto, authTables
  <1>9. ASSUME NEW c \in Calls, ValidateApiKey(c) PROVE StagesSound'
    <2>1. /\ req[c].op \in GuardedOps /\ req' = req /\ apc'[c] = Handler(req[c])
          /\ \A d \in Calls \ {c} : caller'[d] = caller[d] /\ apc'[d] = apc[d]
      BY <1>9, OpsFacts DEF AuthTypeOK, ValidateApiKey, AuthGoto
    <2> QED BY <2>1, HandlerFacts DEF JwtOrApiKeyOps
  <1>10. ASSUME NEW c \in Calls, ApiKeyInvalid(c) PROVE StagesSound'
    BY <1>10, RefusalFacts DEF AuthTypeOK, ApiKeyInvalid, AuthGoto, authTables
  <1>11. ASSUME NEW c \in Calls, FindCaller(c) PROVE StagesSound'
    BY <1>11 DEF AuthTypeOK, FindCaller, AuthGoto, authTables
  <1>12. ASSUME NEW c \in Calls, SaveApiKey(c) PROVE StagesSound'
    BY <1>12 DEF AuthTypeOK, SaveApiKey, AuthGoto
  <1>13. ASSUME NEW c \in Calls, ListApiKeys(c) PROVE StagesSound'
    BY <1>13 DEF AuthTypeOK, ListApiKeys, AuthGoto, authTables
  <1>14. ASSUME NEW c \in Calls, DeleteApiKey(c) PROVE StagesSound'
    BY <1>14 DEF AuthTypeOK, DeleteApiKey, AuthAcknowledge, AuthGoto
  <1>15. ASSUME NEW c \in Calls, ApiKeyMissing(c) PROVE StagesSound'
    BY <1>15 DEF AuthTypeOK, ApiKeyMissing, AuthGoto, authTables
  <1>16. ASSUME NEW c \in Calls, AuthFails(c) PROVE StagesSound'
    BY <1>16, FailureFacts DEF AuthTypeOK, AuthFails, AuthGoto, authTables
  <1>17. ASSUME NEW s \in Calls, Expire(s) PROVE StagesSound'
    BY <1>17 DEF AuthTypeOK, Expire, authTables
  <1>18. CASE AuthCrash
    BY <1>18 DEF AuthTypeOK, AuthCrash, AuthLive, authTables
  <1>19. CASE UNCHANGED authVars
    BY <1>19 DEF authVars
  <1> QED
    BY <1>1, <1>2, <1>3, <1>4, <1>5, <1>6, <1>7, <1>8, <1>9, <1>10, <1>11, <1>12,
       <1>13, <1>14, <1>15, <1>16, <1>17, <1>18, <1>19
    DEF AuthNext, Step, AuthQuiescent

-----------------------------------------------------------------------------
(* Steps seen from one call: what is final, and which action changes what. *)

CallSteps(d) ==
  /\ apc[d] # "new" => req'[d] = req[d]
  /\ apc[d] = "new" /\ apc'[d] # "new" => ArriveAuth(d)
  /\ apc[d] \in AuthAnswers => apc'[d] = apc[d]
  /\ apc'[d] = "signedUp" => apc[d] = "signedUp" \/ SaveUser(d)
  /\ apc'[d] = "sign" => apc[d] = "sign" \/ FindUser(d)
  /\ apc'[d] = "signedIn" => apc[d] \in {"sign", "signedIn"}
  /\ apc'[d] = "deleted" => apc[d] = "deleted" \/ DeleteApiKey(d)
  /\ apc'[d] \in {"findCaller", "saveKey", "list", "delete", "admitted"} =>
       \/ apc[d] = apc'[d] \/ apc[d] = "findCaller"
       \/ VerifyToken(d) \/ ValidateApiKey(d)
  /\ caller'[d] # caller[d] =>
       FindUser(d) \/ VerifyToken(d) \/ ValidateApiKey(d)
  /\ gmUsers'[d] # gmUsers[d] => SaveUser(d)
  /\ gmApiKeys'[d] # gmApiKeys[d] =>
       \/ SaveApiKey(d)
       \/ \E c \in Calls : DeleteApiKey(c) /\ req[c].target = d
  /\ session'[d] # session[d] =>
       \/ SignToken(d) /\ apc'[d] = "signedIn"
       \/ Expire(d)

LEMMA NextCallSteps ==
  ASSUME AuthTypeOK, StagesSound, [AuthNext]_authVars, NEW d \in Calls
  PROVE  CallSteps(d)
  <1> USE DEF AuthStages, AuthAnswers, CallSteps
  <1>1. ASSUME NEW c \in Calls, ArriveAuth(c) PROVE CallSteps(d)
    <2>1. PICK body \in AuthBodies[c] : /\ req' = [req EXCEPT ![c] = body]
                                    /\ AuthGoto(c, FirstStage(body))
      BY <1>1 DEF ArriveAuth
    <2>2. /\ FirstStage(body) \in {"saveUser", "findUser", "jwt", "apiKey",
                                  "Unauthorized", "Forbidden"}
          /\ apc[c] = "new"
          /\ UNCHANGED <<caller, authTables, session>>
      BY <1>1, <2>1, FirstStageFacts, AuthAssumption DEF ArriveAuth
    <2> QED BY <1>1, <2>1, <2>2 DEF AuthTypeOK, AuthGoto, authTables
  <1>2. ASSUME NEW c \in Calls, SaveUser(c) PROVE CallSteps(d)
    BY <1>2 DEF AuthTypeOK, StagesSound, SaveUser, AuthAcknowledge, AuthGoto
  <1>3. ASSUME NEW c \in Calls, UserTaken(c) PROVE CallSteps(d)
    BY <1>3 DEF AuthTypeOK, StagesSound, UserTaken, AuthGoto, authTables
  <1>4. ASSUME NEW c \in Calls, FindUser(c) PROVE CallSteps(d)
    BY <1>4 DEF AuthTypeOK, StagesSound, FindUser, UsersNamed, AuthGoto, authTables
  <1>5. ASSUME NEW c \in Calls, UserUnknown(c) PROVE CallSteps(d)
    BY <1>5 DEF AuthTypeOK, StagesSound, UserUnknown, AuthGoto, authTables
  <1>6. ASSUME NEW c \in Calls, SignToken(c) PROVE CallSteps(d)
    BY <1>6 DEF AuthTypeOK, StagesSound, SignToken, AuthGoto, authTables
  <1>7. ASSUME NEW c \in Calls, VerifyToken(c) PROVE CallSteps(d)
    BY <1>7, HandlerFacts, OpsFacts, NoneFacts DEF AuthTypeOK, StagesSound, VerifyToken, LiveSession, AuthGoto, authTables
  <1>8. ASSUME NEW c \in Calls, TokenInvalid(c) PROVE CallSteps(d)
    BY <1>8, WithoutTokenFacts, OpsFacts DEF AuthTypeOK, StagesSound, TokenInvalid, AuthGoto, authTables
  <1>9. ASSUME NEW c \in Calls, ValidateApiKey(c) PROVE CallSteps(d)
    BY <1>9, HandlerFacts, OpsFacts DEF AuthTypeOK, StagesSound, ValidateApiKey, KeyExists, AuthGoto, authTables
  <1>10. ASSUME NEW c \in Calls, ApiKeyInvalid(c) PROVE CallSteps(d)
    BY <1>10, RefusalFacts DEF AuthTypeOK, StagesSound, ApiKeyInvalid, AuthGoto, authTables
  <1>11. ASSUME NEW c \in Calls, FindCaller(c) PROVE CallSteps(d)
    BY <1>11 DEF AuthTypeOK, StagesSound, FindCaller, AuthGoto, authTables
  <1>12. ASSUME NEW c \in Calls, SaveApiKey(c) PROVE CallSteps(d)
    BY <1>12 DEF AuthTypeOK, StagesSound, SaveApiKey, AuthGoto
  <1>13. ASSUME NEW c \in Calls, ListApiKeys(c) PROVE CallSteps(d)
    BY <1>13 DEF AuthTypeOK, StagesSound, ListApiKeys, AuthGoto, authTables
  <1>14. ASSUME NEW c \in Calls, DeleteApiKey(c) PROVE CallSteps(d)
    BY <1>14 DEF AuthTypeOK, StagesSound, DeleteApiKey, AuthAcknowledge, AuthGoto
  <1>15. ASSUME NEW c \in Calls, ApiKeyMissing(c) PROVE CallSteps(d)
    BY <1>15 DEF AuthTypeOK, StagesSound, ApiKeyMissing, AuthGoto, authTables
  <1>16. ASSUME NEW c \in Calls, AuthFails(c) PROVE CallSteps(d)
    <2>1. Failure(c) \in
            {"UserNotFoundError", "Forbidden", "NotFoundException", "unavailable"}
      BY <1>16, FailureFacts DEF AuthFails
    <2> QED BY <1>16, <2>1 DEF AuthTypeOK, AuthFails, AuthLive, AuthGoto, authTables
  <1>17. ASSUME NEW c \in Calls, Expire(c) PROVE CallSteps(d)
    BY <1>17 DEF AuthTypeOK, StagesSound, Expire, authTables
  <1>18. CASE AuthCrash
    BY <1>18 DEF AuthTypeOK, AuthCrash, AuthLive, authTables
  <1>19. CASE UNCHANGED authVars
    BY <1>19 DEF authVars
  <1> QED
    BY <1>1, <1>2, <1>3, <1>4, <1>5, <1>6, <1>7, <1>8, <1>9, <1>10, <1>11, <1>12,
       <1>13, <1>14, <1>15, <1>16, <1>17, <1>18, <1>19
    DEF AuthNext, Step, AuthQuiescent

-----------------------------------------------------------------------------
(* What stays once it is so.                                               *)

LEMMA UsersStay ==
  ASSUME AuthTypeOK, StagesSound, CredentialsSound, [AuthNext]_authVars, NEW u \in Calls,
         gmUsers[u] # None
  PROVE  gmUsers'[u] = gmUsers[u]
  <1>1. apc[u] \in AuthAnswers BY DEF CredentialsSound
  <1>2. ~SaveUser(u) BY <1>1 DEF SaveUser, AuthAnswers
  <1> QED BY <1>2, NextCallSteps DEF CallSteps

LEMMA CallersStay ==
  ASSUME AuthTypeOK, StagesSound, [AuthNext]_authVars, NEW c \in Calls, caller[c] # None
  PROVE  caller'[c] = caller[c]
  <1>1. ~FindUser(c) /\ ~VerifyToken(c) /\ ~ValidateApiKey(c)
    BY DEF StagesSound, FindUser, VerifyToken, ValidateApiKey
  <1> QED BY <1>1, NextCallSteps DEF CallSteps

LEMMA PasswordsStay ==
  ASSUME AuthTypeOK, StagesSound, CredentialsSound, [AuthNext]_authVars,
         NEW s \in Calls, NEW u, apc[s] # "new", PasswordGiven(s, u)
  PROVE  PasswordGiven(s, u)'
  <1>1. req'[s] = req[s] BY NextCallSteps DEF CallSteps
  <1>2. u \in Calls /\ gmUsers'[u] = gmUsers[u] BY UsersStay DEF PasswordGiven
  <1> QED BY <1>1, <1>2 DEF PasswordGiven

LEMMA SessionsStay ==
  ASSUME AuthTypeOK, StagesSound, CredentialsSound, [AuthNext]_authVars,
         NEW c \in Calls, NEW u, apc[c] # "new", SessionVouches(c, u)
  PROVE  SessionVouches(c, u)'
  <1>1. req'[c] = req[c] BY NextCallSteps DEF CallSteps
  <1>2. req[c].session \in Calls /\ PasswordGiven(req[c].session, u)
    BY DEF SessionVouches
  <1>3. apc[req[c].session] = "signedIn" BY <1>2 DEF CredentialsSound, HandedOut
  <1>4. PasswordGiven(req[c].session, u)' BY <1>2, <1>3, <1>1, PasswordsStay DEF PasswordGiven
  <1> QED BY <1>1, <1>2, <1>4 DEF SessionVouches

LEMMA ApiKeysStay ==
  ASSUME AuthTypeOK, StagesSound, CredentialsSound, [AuthNext]_authVars,
         NEW c \in Calls, NEW u, apc[c] # "new", KeyVouches(c, u)
  PROVE  KeyVouches(c, u)'
  <1>1. req'[c] = req[c] BY NextCallSteps DEF CallSteps
  <1>2. req[c].apiKey \in Calls /\ SessionVouches(req[c].apiKey, u) BY DEF KeyVouches
  <1>3. apc[req[c].apiKey] = "generated" BY <1>2 DEF CredentialsSound, HandedOut
  <1>4. SessionVouches(req[c].apiKey, u)'
    BY <1>1, <1>2, <1>3, SessionsStay DEF SessionVouches
  <1> QED BY <1>1, <1>2, <1>4 DEF KeyVouches

-----------------------------------------------------------------------------
(* What the guards find.                                                   *)

LEMMA TokenFound ==
  ASSUME AuthTypeOK, CredentialsSound, NEW c \in Calls, VerifyToken(c)
  PROVE  /\ caller'[c] \in Calls
         /\ SessionVouches(c, caller'[c])
  <1>1. /\ req[c].session \in Calls /\ session[req[c].session] = "live"
        /\ caller'[c] = caller[req[c].session]
    BY DEF VerifyToken, LiveSession, AuthTypeOK
  <1>2. apc[req[c].session] = "signedIn" BY <1>1 DEF CredentialsSound
  <1>3. PasswordGiven(req[c].session, caller[req[c].session])
    BY <1>1, <1>2 DEF CredentialsSound
  <1> QED BY <1>1, <1>3 DEF SessionVouches, PasswordGiven

LEMMA KeyFound ==
  ASSUME AuthTypeOK, CredentialsSound, NEW c \in Calls, ValidateApiKey(c)
  PROVE  /\ caller'[c] \in Calls
         /\ KeyVouches(c, caller'[c])
  <1>1. /\ req[c].apiKey \in Calls /\ gmApiKeys[req[c].apiKey] # None
        /\ caller'[c] = gmApiKeys[req[c].apiKey]
    BY DEF ValidateApiKey, KeyExists, AuthTypeOK
  <1>2. /\ req[req[c].apiKey].op = "generate"
        /\ caller'[c] = caller[req[c].apiKey]
    BY <1>1 DEF CredentialsSound
  <1>3. SessionVouches(req[c].apiKey, caller[req[c].apiKey])
    BY <1>1, <1>2 DEF CredentialsSound, JwtOps
  <1> QED BY <1>1, <1>2, <1>3 DEF KeyVouches, AuthTypeOK

LEMMA UserFound ==
  ASSUME AuthTypeOK, NEW c \in Calls, FindUser(c), req[c].op = "signin"
  PROVE  PasswordGiven(c, caller'[c])
  <1>1. PICK u \in UsersNamed(req[c].username) :
          /\ gmUsers[u].password = req[c].password
          /\ caller' = [caller EXCEPT ![c] = u]
    BY DEF FindUser
  <1> QED BY <1>1 DEF PasswordGiven, UsersNamed, AuthTypeOK

-----------------------------------------------------------------------------
(* The invariant.                                                          *)

LEMMA InitAuthBookkeeping == AuthInit => AuthBookkeeping
  BY InitAuthTypeOK, NoneFacts
  DEF AuthInit, AuthBookkeeping, StagesSound, CredentialsSound, UsersDistinct, TracedToPassword,
      HandlersHaveCaller, OneDeletionAcknowledged

LEMMA NextCredentialsSound ==
  ASSUME AuthTypeOK, StagesSound, CredentialsSound, HandlersHaveCaller, [AuthNext]_authVars
  PROVE  CredentialsSound'
  <1> SUFFICES ASSUME NEW c \in Calls
      PROVE  /\ apc'[c] # "new" => HandedOut(req[c])'
             /\ apc'[c] \in {"sign", "signedIn"} => PasswordGiven(c, caller[c])'
             /\ caller'[c] # None /\ req'[c].op \in JwtOps => SessionVouches(c, caller[c])'
             /\ session'[c] # "none" => apc'[c] = "signedIn"
             /\ gmUsers'[c] # None => apc'[c] \in AuthAnswers
             /\ gmApiKeys'[c] # None =>
                  /\ apc'[c] \in AuthAnswers /\ req'[c].op = "generate"
                  /\ gmApiKeys'[c] = caller'[c]
             /\ apc'[c] = "deleted" =>
                  gmApiKeys'[req'[c].target] = None /\ apc'[req'[c].target] \in AuthAnswers
    BY DEF CredentialsSound
  <1> USE NextCallSteps
  <1>1. ASSUME apc'[c] # "new" PROVE HandedOut(req[c])'
    <2>1. HandedOut(req'[c])
      <3>1. CASE apc[c] = "new"
        <4>1. ArriveAuth(c) BY <1>1, <3>1 DEF CallSteps
        <4> QED BY <4>1 DEF ArriveAuth, AuthTypeOK
      <3>2. CASE apc[c] # "new" BY <3>2 DEF CallSteps, CredentialsSound
      <3> QED BY <3>1, <3>2
    <2> QED BY <2>1 DEF HandedOut, CallSteps, AuthAnswers
  <1>2. ASSUME apc'[c] \in {"sign", "signedIn"} PROVE PasswordGiven(c, caller[c])'
    <2>1. CASE apc[c] \in {"sign", "signedIn"}
      <3>1. PasswordGiven(c, caller[c]) BY <2>1 DEF CredentialsSound
      <3>2. caller'[c] = caller[c]
        BY <2>1, <3>1, CallersStay, NoneFacts DEF PasswordGiven
      <3>3. PasswordGiven(c, caller[c]) /\ apc[c] # "new" BY <2>1, <3>1
      <3>4. \A u : PasswordGiven(c, u) => PasswordGiven(c, u)' BY <3>3, PasswordsStay
      <3> QED BY <3>1, <3>2, <3>4 DEF PasswordGiven
    <2>2. CASE FindUser(c)
      <3>1. apc[c] = "findUser" /\ req[c].op = "signin" BY <2>2 DEF FindUser, StagesSound
      <3>2. PasswordGiven(c, caller'[c]) BY <2>2, <3>1, UserFound
      <3> QED BY <2>2, <3>2 DEF FindUser, authTables, PasswordGiven
    <2> QED BY <1>2, <2>1, <2>2 DEF CallSteps
  <1>3. ASSUME caller'[c] # None, req'[c].op \in JwtOps PROVE SessionVouches(c, caller[c])'
    <2>1. CASE caller'[c] = caller[c]
      <3>1. apc[c] # "new" BY <1>3, <2>1 DEF StagesSound
      <3>2. req'[c] = req[c] BY <3>1 DEF CallSteps
      <3>3. SessionVouches(c, caller[c]) BY <1>3, <2>1, <3>2 DEF CredentialsSound
      <3>4. \A u : SessionVouches(c, u) => SessionVouches(c, u)' BY <3>1, SessionsStay
      <3> QED BY <2>1, <3>3, <3>4 DEF SessionVouches, PasswordGiven
    <2>2. CASE VerifyToken(c)
      <3>1. SessionVouches(c, caller'[c]) BY <2>2, TokenFound
      <3> QED BY <2>2, <3>1 DEF VerifyToken, authTables, SessionVouches, PasswordGiven
    <2>3. CASE FindUser(c)
      <3>1. req'[c].op = "signin" BY <2>3 DEF FindUser, StagesSound
      <3> QED BY <1>3, <3>1 DEF JwtOps
    <2>4. CASE ValidateApiKey(c)
      <3>1. req'[c].op \in JwtOrApiKeyOps \cup ApiKeyOps
        BY <2>4 DEF ValidateApiKey, StagesSound
      <3> QED BY <1>3, <3>1, OpsFacts
    <2> QED BY <2>1, <2>2, <2>3, <2>4 DEF CallSteps
  <1>4. ASSUME session'[c] # "none" PROVE apc'[c] = "signedIn"
    <2>1. CASE session'[c] = session[c]
      <3>1. apc[c] = "signedIn" BY <1>4, <2>1 DEF CredentialsSound
      <3> QED BY <3>1 DEF CallSteps, AuthAnswers
    <2>2. CASE Expire(c) BY <2>2 DEF Expire, CredentialsSound
    <2> QED BY <2>1, <2>2 DEF CallSteps
  <1>5. ASSUME gmUsers'[c] # None PROVE apc'[c] \in AuthAnswers
    <2>1. CASE gmUsers'[c] = gmUsers[c] BY <1>5, <2>1 DEF CredentialsSound, CallSteps
    <2>2. CASE SaveUser(c) BY <2>2 DEF SaveUser, AuthAcknowledge, AuthGoto, AuthTypeOK, AuthAnswers
    <2> QED BY <2>1, <2>2 DEF CallSteps
  <1>6. ASSUME gmApiKeys'[c] # None
        PROVE  /\ apc'[c] \in AuthAnswers /\ req'[c].op = "generate"
               /\ gmApiKeys'[c] = caller'[c]
    <2>1. CASE gmApiKeys'[c] = gmApiKeys[c]
      <3>1. /\ apc[c] \in AuthAnswers /\ req[c].op = "generate"
            /\ gmApiKeys[c] = caller[c]
        BY <1>6, <2>1 DEF CredentialsSound
      <3>2. caller'[c] = caller[c] BY <1>6, <2>1, <3>1, CallersStay
      <3> QED BY <2>1, <3>1, <3>2 DEF CallSteps, AuthAnswers
    <2>2. CASE SaveApiKey(c)
      BY <2>2 DEF SaveApiKey, StagesSound, AuthGoto, AuthTypeOK, AuthAnswers
    <2>3. ASSUME NEW d \in Calls, DeleteApiKey(d), req[d].target = c PROVE FALSE
      BY <1>6, <2>3 DEF DeleteApiKey, AuthTypeOK
    <2> QED BY <2>1, <2>2, <2>3 DEF CallSteps
  <1>7. ASSUME apc'[c] = "deleted"
        PROVE  gmApiKeys'[req'[c].target] = None /\ apc'[req'[c].target] \in AuthAnswers
    <2>1. CASE apc[c] = "deleted"
      <3> DEFINE k == req[c].target
      <3>1. k \in Calls /\ req'[c] = req[c] BY <2>1, BodyTypes DEF CallSteps
      <3>2. gmApiKeys[k] = None /\ apc[k] \in AuthAnswers BY <2>1 DEF CredentialsSound
      <3>3. ~SaveApiKey(k) BY <3>2 DEF SaveApiKey, AuthAnswers
      <3>4. \A d \in Calls : DeleteApiKey(d) /\ req[d].target = k => gmApiKeys'[k] = None
        BY <3>1 DEF DeleteApiKey, AuthTypeOK
      <3> QED BY <3>1, <3>2, <3>3, <3>4 DEF CallSteps
    <2>2. CASE DeleteApiKey(c)
      <3> DEFINE k == req[c].target
      <3>1. k \in Calls /\ req'[c] = req[c] BY <2>2, BodyTypes DEF DeleteApiKey
      <3>2. gmApiKeys[k] # None BY <2>2 DEF DeleteApiKey, Deletable
      <3>3. apc[k] \in AuthAnswers BY <3>1, <3>2 DEF CredentialsSound
      <3>4. apc'[k] \in AuthAnswers BY <3>1, <3>3 DEF CallSteps, AuthAnswers
      <3>5. gmApiKeys'[k] = None BY <2>2, <3>1 DEF DeleteApiKey, AuthTypeOK
      <3> QED BY <3>1, <3>4, <3>5
    <2> QED BY <1>7, <2>1, <2>2 DEF CallSteps
  <1> QED BY <1>1, <1>2, <1>3, <1>4, <1>5, <1>6, <1>7

LEMMA NextUsersDistinct ==
  ASSUME AuthTypeOK, StagesSound, CredentialsSound, UsersDistinct, [AuthNext]_authVars
  PROVE  UsersDistinct'
  <1>1. ASSUME NEW c \in Calls, apc'[c] = "signedUp" PROVE gmUsers'[c] = UserRow(req'[c])
    <2>1. CASE apc[c] = "signedUp"
      <3>1. gmUsers[c] = UserRow(req[c]) BY <2>1 DEF UsersDistinct
      <3>2. UserRow(req[c]) # None BY <2>1, BodyTypes, NoneFacts
      <3>3. gmUsers'[c] = gmUsers[c] BY <3>1, <3>2, UsersStay
      <3>4. req'[c] = req[c] BY <2>1, NextCallSteps DEF CallSteps
      <3> QED BY <3>1, <3>3, <3>4
    <2>2. CASE SaveUser(c)
      BY <2>2 DEF SaveUser, AuthTypeOK
    <2> QED BY <1>1, <2>1, <2>2, NextCallSteps DEF CallSteps
  <1>2. ASSUME NEW u \in Calls, NEW v \in Calls,
               gmUsers'[u] # None, gmUsers'[v] # None,
               gmUsers'[u].username = gmUsers'[v].username,
               gmUsers'[v] = gmUsers[v]
        PROVE  u = v
    <2>1. CASE gmUsers'[u] = gmUsers[u] BY <1>2, <2>1 DEF UsersDistinct
    <2>2. CASE SaveUser(u)
      <3>1. SUFFICES ASSUME u # v PROVE FALSE OBVIOUS
      <3>2. /\ ~Taken(req[u])
            /\ gmUsers'[u].username = req[u].username
        BY <2>2 DEF SaveUser, AuthTypeOK, UserRow
      <3>3. gmUsers[v].username # req[u].username BY <1>2, <3>2 DEF Taken
      <3> QED BY <1>2, <3>2, <3>3
    <2> QED BY <2>1, <2>2, NextCallSteps DEF CallSteps
  <1>3. ASSUME NEW u \in Calls, NEW v \in Calls, SaveUser(u), SaveUser(v) PROVE u = v
    BY <1>3 DEF SaveUser, AuthAcknowledge, AuthGoto, AuthTypeOK
  <1>4. \A u, v \in Calls :
          \/ u = v
          \/ gmUsers'[u] = gmUsers[u]
          \/ gmUsers'[v] = gmUsers[v]
    BY <1>3, NextCallSteps DEF CallSteps
  <1> QED BY <1>1, <1>2, <1>4 DEF UsersDistinct

LEMMA NextTracedToPassword ==
  ASSUME AuthTypeOK, StagesSound, CredentialsSound, TracedToPassword, [AuthNext]_authVars
  PROVE  TracedToPassword'
  <1> SUFFICES ASSUME NEW c \in Calls, caller'[c] # None, req'[c].op \in GuardedOps
      PROVE  SessionVouches(c, caller[c])' \/ KeyVouches(c, caller[c])'
    BY DEF TracedToPassword
  <1>1. CASE caller'[c] = caller[c]
    <2>1. apc[c] # "new" BY <1>1 DEF StagesSound
    <2>2. req'[c] = req[c] BY <2>1, NextCallSteps DEF CallSteps
    <2>3. SessionVouches(c, caller[c]) \/ KeyVouches(c, caller[c])
      BY <1>1, <2>2 DEF TracedToPassword
    <2>4. \A u : /\ SessionVouches(c, u) => SessionVouches(c, u)'
                 /\ KeyVouches(c, u) => KeyVouches(c, u)'
      BY <2>1, SessionsStay, ApiKeysStay
    <2> QED BY <1>1, <2>3, <2>4 DEF SessionVouches, KeyVouches, PasswordGiven
  <1>2. CASE VerifyToken(c)
    <2>1. SessionVouches(c, caller'[c]) BY <1>2, TokenFound
    <2> QED BY <1>2, <2>1 DEF VerifyToken, authTables, SessionVouches, PasswordGiven
  <1>3. CASE ValidateApiKey(c)
    <2>1. KeyVouches(c, caller'[c]) BY <1>3, KeyFound
    <2> QED
      BY <1>3, <2>1 DEF ValidateApiKey, authTables, KeyVouches, SessionVouches, PasswordGiven
  <1>4. CASE FindUser(c)
    <2>1. req'[c].op = "signin" BY <1>4 DEF FindUser, StagesSound
    <2> QED BY <2>1, OpsFacts DEF SignOps
  <1> QED BY <1>1, <1>2, <1>3, <1>4, NextCallSteps DEF CallSteps

LEMMA NextHandlersHaveCaller ==
  ASSUME AuthTypeOK, StagesSound, CredentialsSound, HandlersHaveCaller, [AuthNext]_authVars
  PROVE  HandlersHaveCaller'
  <1> SUFFICES ASSUME NEW c \in Calls,
                      apc'[c] \in {"findCaller", "saveKey", "list", "delete", "admitted"}
      PROVE  caller'[c] # None
    BY DEF HandlersHaveCaller
  <1>1. CASE apc[c] = apc'[c] \/ apc[c] = "findCaller"
    <2>1. caller[c] # None BY <1>1 DEF HandlersHaveCaller
    <2> QED BY <2>1, CallersStay
  <1>2. CASE VerifyToken(c) BY <1>2, TokenFound, NoneFacts
  <1>3. CASE ValidateApiKey(c) BY <1>3, KeyFound, NoneFacts
  <1> QED BY <1>1, <1>2, <1>3, NextCallSteps DEF CallSteps

LEMMA NextOneDeletionAcknowledged ==
  ASSUME AuthTypeOK, StagesSound, CredentialsSound, OneDeletionAcknowledged, [AuthNext]_authVars
  PROVE  OneDeletionAcknowledged'
  <1>1. \A c \in Calls : apc'[c] = "deleted" =>
          /\ req'[c] = req[c]
          /\ apc[c] = "deleted" \/ DeleteApiKey(c)
    BY NextCallSteps DEF CallSteps, DeleteApiKey
  <1>2. ASSUME NEW c \in Calls, NEW d \in Calls, DeleteApiKey(c), DeleteApiKey(d)
        PROVE  c = d
    BY <1>2 DEF DeleteApiKey, AuthAcknowledge, AuthGoto, AuthTypeOK
  <1>3. ASSUME NEW c \in Calls, NEW d \in Calls, DeleteApiKey(c), apc[d] = "deleted"
        PROVE  req[c].target # req[d].target
    BY <1>3 DEF DeleteApiKey, Deletable, CredentialsSound
  <1> QED BY <1>1, <1>2, <1>3 DEF OneDeletionAcknowledged

-----------------------------------------------------------------------------
(* The theorems.                                                           *)

(* Whatever handlers interleave, fail and die: the tables, the sessions    *)
(* and the callers are related as the bookkeeping says.                    *)
THEOREM AuthBookkeepingCorrect == AuthSpec => []AuthBookkeeping
  <1>1. AuthBookkeeping /\ [AuthNext]_authVars => AuthBookkeeping'
    BY NextAuthTypeOK, NextStagesSound, NextCredentialsSound, NextUsersDistinct,
       NextTracedToPassword, NextHandlersHaveCaller, NextOneDeletionAcknowledged
    DEF AuthBookkeeping
  <1> QED BY InitAuthBookkeeping, <1>1, PTL DEF AuthSpec

(* The variables keep their types.                                         *)
THEOREM AuthTypeCorrect == AuthSpec => []AuthTypeOK
  <1>1. AuthBookkeeping => AuthTypeOK BY DEF AuthBookkeeping
  <1> QED BY <1>1, AuthBookkeepingCorrect, PTL

(* No two users have one name, however many sign up with it at once.       *)
THEOREM UsersDistinctCorrect == AuthSpec => []UsersDistinct
  <1>1. AuthBookkeeping => UsersDistinct BY DEF AuthBookkeeping
  <1> QED BY <1>1, AuthBookkeepingCorrect, PTL

(* Nobody acts as a user without the password, or the token or API key of  *)
(* someone who gave it.                                                    *)
THEOREM TracedToPasswordCorrect == AuthSpec => []TracedToPassword
  <1>1. AuthBookkeeping => TracedToPassword BY DEF AuthBookkeeping
  <1> QED BY <1>1, AuthBookkeepingCorrect, PTL

(* Of the calls that delete one API key, one succeeds.                     *)
THEOREM OneDeletionCorrect == AuthSpec => []OneDeletionAcknowledged
  <1>1. AuthBookkeeping => OneDeletionAcknowledged BY DEF AuthBookkeeping
  <1> QED BY <1>1, AuthBookkeepingCorrect, PTL

(* API keys are deleted by calls made for their users only.                *)
THEOREM DeletionsAreByOwners == AuthSpec => KeysDeletedByOwner
  <1> DEFINE Owned ==
        \A k \in Calls :
          gmApiKeys[k] # None /\ gmApiKeys'[k] # gmApiKeys[k] =>
            /\ gmApiKeys'[k] = None
            /\ \E c \in Calls :
                 /\ apc[c] = "delete" /\ apc'[c] # "delete"
                 /\ req[c].target = k
                 /\ caller[c] = gmApiKeys[k]
  <1>1. AuthBookkeeping /\ [AuthNext]_authVars => [Owned]_authVars
    <2> SUFFICES ASSUME AuthBookkeeping, [AuthNext]_authVars, NEW k \in Calls,
                        gmApiKeys[k] # None, gmApiKeys'[k] # gmApiKeys[k]
        PROVE  /\ gmApiKeys'[k] = None
               /\ \E c \in Calls :
                    /\ apc[c] = "delete" /\ apc'[c] # "delete"
                    /\ req[c].target = k
                    /\ caller[c] = gmApiKeys[k]
      OBVIOUS
    <2>1. ~SaveApiKey(k)
      BY DEF SaveApiKey, AuthBookkeeping, CredentialsSound, AuthAnswers
    <2>2. PICK c \in Calls : DeleteApiKey(c) /\ req[c].target = k
      BY <2>1, NextCallSteps DEF CallSteps, AuthBookkeeping
    <2>3. apc[c] = "delete" /\ caller[c] \in {None, gmApiKeys[k]}
      BY <2>2 DEF DeleteApiKey, Deletable
    <2>4. caller[c] # None BY <2>3 DEF AuthBookkeeping, HandlersHaveCaller
    <2>5. apc'[c] # "delete" /\ gmApiKeys'[k] = None
      BY <2>2 DEF DeleteApiKey, AuthAcknowledge, AuthGoto, AuthBookkeeping, AuthTypeOK
    <2> QED BY <2>2, <2>3, <2>4, <2>5
  <1> QED BY AuthBookkeepingCorrect, <1>1, PTL DEF AuthSpec, KeysDeletedByOwner

(* An API key whose deletion was acknowledged passes no guard any more.    *)
THEOREM DeletedKeysAreRefused == AuthSpec => DeletedKeyRefused
  <1> DEFINE Refused ==
        \A c, d \in Calls :
          /\ apc[d] = "deleted"
          /\ apc[c] = "apiKey" /\ req[c].apiKey = req[d].target
          => caller'[c] = caller[c]
  <1>1. AuthBookkeeping /\ [AuthNext]_authVars => [Refused]_authVars
    <2> SUFFICES ASSUME AuthBookkeeping, [AuthNext]_authVars, NEW c \in Calls, NEW d \in Calls,
                        apc[d] = "deleted",
                        apc[c] = "apiKey", req[c].apiKey = req[d].target
        PROVE  caller'[c] = caller[c]
      OBVIOUS
    <2>1. gmApiKeys[req[c].apiKey] = None BY DEF AuthBookkeeping, CredentialsSound
    <2>2. ~FindUser(c) /\ ~VerifyToken(c) /\ ~ValidateApiKey(c)
      BY <2>1 DEF FindUser, VerifyToken, ValidateApiKey, KeyExists
    <2> QED BY <2>2, NextCallSteps DEF CallSteps, AuthBookkeeping
  <1> QED BY AuthBookkeepingCorrect, <1>1, PTL DEF AuthSpec, DeletedKeyRefused

-----------------------------------------------------------------------------
(* The register of credentials.                                            *)

LEMMA ActsForCaller ==
  ASSUME AuthTypeOK, StagesSound, [AuthNext]_authVars, NEW c \in Calls,
         caller'[c] = caller[c] \/ FindUser(c)
  PROVE  ActsFor'[c] = ActsFor[c]
  <1>1. CASE FindUser(c)
    <2>1. req'[c] = req[c] /\ req[c].op = "signin" BY <1>1 DEF FindUser, StagesSound
    <2>2. req[c].op \notin GuardedOps BY <2>1, OpsFacts DEF SignOps
    <2> QED BY <2>1, <2>2 DEF ActsFor
  <1>2. CASE caller'[c] = caller[c] /\ apc[c] = "new"
    BY <1>2 DEF ActsFor, StagesSound
  <1>3. CASE caller'[c] = caller[c] /\ apc[c] # "new"
    BY <1>3, NextCallSteps DEF ActsFor, CallSteps
  <1> QED BY <1>1, <1>2, <1>3

LEMMA LiveSessions ==
  ASSUME AuthBookkeeping, NEW k \in Calls, session[k] # "none"
  PROVE  apc[k] = "signedIn" /\ gmApiKeys[k] = None /\ caller[k] \in Calls
  <1>1. apc[k] = "signedIn" BY DEF AuthBookkeeping, CredentialsSound
  <1>2. req[k].op = "signin" BY <1>1 DEF AuthBookkeeping, StagesSound
  <1>3. gmApiKeys[k] = None BY <1>2 DEF AuthBookkeeping, CredentialsSound
  <1>4. PasswordGiven(k, caller[k]) BY <1>1 DEF AuthBookkeeping, CredentialsSound
  <1> QED BY <1>1, <1>3, <1>4 DEF PasswordGiven

LEMMA CredentialsExpire ==
  ASSUME AuthBookkeeping, [AuthNext]_authVars, NEW k \in Calls, ~SignToken(k), ~SaveApiKey(k)
  PROVE  Credential'[k] \in {Credential[k], "void"}
  <1> USE NextCallSteps DEF AuthBookkeeping
  <1>1. CASE session[k] = "live" /\ session'[k] = "live"
    <2>1. caller'[k] = caller[k] BY <1>1, LiveSessions, CallersStay, NoneFacts
    <2> QED BY <1>1, <2>1 DEF Credential
  <1>2. CASE session[k] = "live" /\ session'[k] # "live"
    <2>1. gmApiKeys'[k] = None
      BY <1>2, LiveSessions DEF CallSteps, Expire, authTables
    <2>2. apc'[k] \in AuthAnswers BY <1>2, LiveSessions DEF CallSteps, AuthAnswers
    <2> QED BY <1>2, <2>1, <2>2 DEF Credential
  <1>3. CASE session[k] # "live"
    <2>1. session'[k] # "live" BY <1>3 DEF CallSteps, Expire, AuthTypeOK
    <2>2. CASE gmApiKeys'[k] = gmApiKeys[k]
      BY <1>3, <2>1, <2>2 DEF Credential, CallSteps
    <2>3. ASSUME NEW c \in Calls, DeleteApiKey(c), req[c].target = k
          PROVE  Credential'[k] = "void"
      <3>1. gmApiKeys[k] # None /\ gmApiKeys'[k] = None
        BY <2>3 DEF DeleteApiKey, Deletable, AuthTypeOK
      <3>2. apc'[k] \in AuthAnswers BY <3>1 DEF CredentialsSound, CallSteps
      <3> QED BY <2>1, <3>1, <3>2 DEF Credential
    <2> QED BY <2>2, <2>3 DEF CallSteps
  <1> QED BY <1>1, <1>2, <1>3

LEMMA Voiding ==
  ASSUME \A k \in Calls : Credential'[k] \in {Credential[k], "void"},
         \A c \in Calls : ActsFor'[c] = ActsFor[c]
  PROVE  Register!Void
  <1> DEFINE S == {k \in Calls : Credential'[k] = "void"}
  <1>1. Credential' = [k \in Calls |-> IF k \in S THEN "void" ELSE Credential[k]]
    BY DEF Credential
  <1>2. S \in SUBSET Calls OBVIOUS
  <1>3. ActsFor' = ActsFor BY DEF ActsFor
  <1> QED BY <1>1, <1>2, <1>3 DEF Register!Void

(* A call at a stage has issued nothing yet.                               *)
LEMMA NothingIssued ==
  ASSUME AuthBookkeeping, NEW c \in Calls, apc[c] \in AuthStages
  PROVE  session[c] = "none" /\ gmApiKeys[c] = None /\ Credential[c] = "unissued"
  <1>1. apc[c] \notin AuthAnswers BY DEF AuthStages, AuthAnswers
  <1>2. session[c] = "none" BY <1>1, LiveSessions DEF AuthAnswers
  <1>3. gmApiKeys[c] = None BY <1>1 DEF AuthBookkeeping, CredentialsSound
  <1> QED BY <1>1, <1>2, <1>3 DEF Credential

LEMMA SessionIssued ==
  ASSUME AuthBookkeeping, NEW c \in Calls, SignToken(c), [AuthNext]_authVars
  PROVE  Register!SignIn(c) \/ Register!Void
  <1> USE DEF AuthBookkeeping
  <1>1. apc[c] = "sign" /\ apc[c] \in AuthStages /\ UNCHANGED <<req, caller, authTables>>
    BY DEF SignToken, AuthStages
  <1>2. \A d \in Calls : ActsFor'[d] = ActsFor[d] BY <1>1 DEF ActsFor
  <1>3. caller[c] \in Calls
    BY <1>1 DEF CredentialsSound, PasswordGiven
  <1>4. \A k \in Calls \ {c} : Credential'[k] = Credential[k]
    BY <1>1 DEF SignToken, AuthGoto, AuthTypeOK, Credential, authTables
  <1>5. CASE session' = [session EXCEPT ![c] = "live"]
    <2>1. Credential'[c] = caller[c] BY <1>1, <1>5 DEF Credential, AuthTypeOK
    <2>2. Credential' = [Credential EXCEPT ![c] = caller[c]]
      BY <1>4, <2>1 DEF Credential
    <2>3. ActsFor' = ActsFor BY <1>2 DEF ActsFor
    <2> QED BY <1>1, <1>3, <2>2, <2>3, NothingIssued DEF Register!SignIn
  <1>6. CASE apc'[c] = "unavailable" /\ UNCHANGED session
    <2>1. Credential'[c] = "void"
      BY <1>1, <1>6, NothingIssued DEF Credential, authTables, AuthAnswers
    <2> QED BY <1>2, <1>4, <2>1, Voiding
  <1> QED BY <1>5, <1>6 DEF SignToken, AuthGoto, AuthTypeOK

LEMMA KeyIssued ==
  ASSUME AuthBookkeeping, NEW c \in Calls, SaveApiKey(c), [AuthNext]_authVars
  PROVE  Register!Issue(c)
  <1> USE DEF AuthBookkeeping
  <1>1. /\ apc[c] = "saveKey" /\ apc[c] \in AuthStages
        /\ gmApiKeys' = [gmApiKeys EXCEPT ![c] = caller[c]]
        /\ UNCHANGED <<req, caller, gmUsers, session>>
    BY DEF SaveApiKey, AuthStages
  <1>2. caller[c] # None /\ req[c].op = "generate"
    BY <1>1 DEF HandlersHaveCaller, StagesSound
  <1>3. ActsFor[c] = caller[c]
    <2>1. req[c] # None BY <1>1, BodyTypes, NoneFacts
    <2> QED BY <1>2, <2>1 DEF ActsFor, GuardedOps, JwtOps
  <1>4. ActsFor' = ActsFor BY <1>1 DEF ActsFor
  <1>5. \A k \in Calls \ {c} : Credential'[k] = Credential[k]
    BY <1>1 DEF SaveApiKey, AuthGoto, AuthTypeOK, Credential
  <1>6. Credential'[c] = caller[c]
    BY <1>1, <1>2, NothingIssued DEF Credential, AuthTypeOK
  <1>7. Credential' = [Credential EXCEPT ![c] = caller[c]]
    BY <1>5, <1>6 DEF Credential
  <1> QED BY <1>1, <1>2, <1>3, <1>4, <1>7, NothingIssued DEF Register!Issue

LEMMA CallAdmitted ==
  ASSUME AuthBookkeeping, [AuthNext]_authVars, NEW c \in Calls, VerifyToken(c) \/ ValidateApiKey(c)
  PROVE  Register!Admit(c)
  <1> USE DEF AuthBookkeeping
  <1>1. /\ apc[c] \in {"jwt", "apiKey"} /\ apc[c] \in AuthStages
        /\ \A d \in Calls \ {c} : apc'[d] = apc[d] /\ caller'[d] = caller[d]
        /\ UNCHANGED <<req, authTables, session>>
    BY DEF VerifyToken, ValidateApiKey, AuthGoto, AuthTypeOK, AuthStages
  <1>2. req[c].op \in GuardedOps /\ req[c] # None /\ caller[c] = None
    BY <1>1, OpsFacts, BodyTypes, NoneFacts DEF StagesSound
  <1>3. ActsFor[c] = None BY <1>2 DEF ActsFor
  <1>4. ActsFor' = [ActsFor EXCEPT ![c] = caller'[c]]
    BY <1>1, <1>2 DEF ActsFor
  <1>5. PICK k \in Calls : Credential[k] = caller'[c]
    <2>1. CASE VerifyToken(c)
      <3>1. /\ req[c].session \in Calls /\ session[req[c].session] = "live"
            /\ caller'[c] = caller[req[c].session]
        BY <2>1 DEF VerifyToken, LiveSession, AuthTypeOK
      <3> QED BY <3>1 DEF Credential
    <2>2. CASE ValidateApiKey(c)
      <3>1. /\ req[c].apiKey \in Calls /\ gmApiKeys[req[c].apiKey] # None
            /\ caller'[c] = gmApiKeys[req[c].apiKey]
        BY <2>2 DEF ValidateApiKey, KeyExists, AuthTypeOK
      <3>2. session[req[c].apiKey] = "none" BY <3>1, LiveSessions
      <3> QED BY <3>1, <3>2 DEF Credential
    <2> QED BY <2>1, <2>2
  <1>6. Register!Valid(k)
    <2>1. caller'[c] \in Calls BY TokenFound, KeyFound
    <2> QED BY <1>5, <2>1, AuthAssumption DEF Register!Valid
  <1>7. \A d \in Calls \ {c} : Credential'[d] = Credential[d]
    BY <1>1 DEF Credential, authTables
  <1>8. Credential'[c] \in {Credential[c], "void"}
    BY <1>1, NothingIssued DEF Credential, authTables
  <1>9. Credential' \in {Credential, [Credential EXCEPT ![c] = "void"]}
    BY <1>7, <1>8 DEF Credential
  <1> QED BY <1>3, <1>4, <1>5, <1>6, <1>9 DEF Register!Admit

LEMMA StepsRefine ==
  ASSUME AuthBookkeeping, [AuthNext]_authVars
  PROVE  Register!Next
  <1>1. ASSUME NEW c \in Calls, SignToken(c) PROVE Register!Next
    BY <1>1, SessionIssued DEF Register!Next
  <1>2. ASSUME NEW c \in Calls, SaveApiKey(c) PROVE Register!Next
    BY <1>2, KeyIssued DEF Register!Next
  <1>3. ASSUME NEW c \in Calls, VerifyToken(c) \/ ValidateApiKey(c) PROVE Register!Next
    BY <1>3, CallAdmitted DEF Register!Next
  <1>4. CASE \A c \in Calls :
               /\ ~SignToken(c) /\ ~SaveApiKey(c)
               /\ ~VerifyToken(c) /\ ~ValidateApiKey(c)
    <2>1. \A k \in Calls : Credential'[k] \in {Credential[k], "void"}
      BY <1>4, CredentialsExpire
    <2>2. \A c \in Calls : caller'[c] = caller[c] \/ FindUser(c)
      BY <1>4, NextCallSteps DEF CallSteps, AuthBookkeeping
    <2>3. \A c \in Calls : ActsFor'[c] = ActsFor[c]
      BY <2>2, ActsForCaller DEF AuthBookkeeping
    <2> QED BY <2>1, <2>3, Voiding DEF Register!Next
  <1> QED BY <1>1, <1>2, <1>3, <1>4

(* Sign-in, API keys and guards keep the register of credentials: who acts *)
(* as whom is decided by credentials that are valid at the time.           *)
THEOREM ImplementsCredentials == AuthSpec => CredentialsSpec
  <1>1. AuthInit => Register!Init
    BY DEF AuthInit, Register!Init, Credential, ActsFor, AuthAnswers
  <1>2. AuthBookkeeping /\ [AuthNext]_authVars => [Register!Next]_(Register!vars)
    BY StepsRefine
  <1> QED
    BY <1>1, <1>2, AuthBookkeepingCorrect, PTL DEF AuthSpec, CredentialsSpec, Register!Spec
=============================================================================
