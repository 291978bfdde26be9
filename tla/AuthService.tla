----------------------------- MODULE AuthService -----------------------------
(***************************************************************************)
(* Who a call is made for: sign-up, sign-in and the API keys of the routes *)
(* /auth, the tables gm_users and gm_api_keys, the tokens of sessions, and *)
(* the three guards in front of all other routes of the GoMint API.        *)
(*                                                                         *)
(* A row, a session and a key are named by the call that made them.  The   *)
(* handlers interleave at their awaits; a stage names the await.  What is  *)
(* presented with a call was handed out before or is made up: tokens and   *)
(* keys cannot be guessed.                                                 *)
(***************************************************************************)
EXTENDS Naturals, FiniteSets, NodeProcess

CONSTANTS
  Calls,
  AuthBodies,        \* the requests each call may carry
  Usernames, Emails, Passwords,
  Forged             \* a token that was not signed, a key that was not generated

SignOps == {"signup", "signin"}
JwtOps == {"generate", "profile"}          \* routes behind JwtGuard
JwtOrApiKeyOps == {"list", "delete", "manage"}  \* behind JwtOrApiKeyGuard
ApiKeyOps == {"use"}                       \* behind ApiKeyGuard
GuardedOps == JwtOps \cup JwtOrApiKeyOps \cup ApiKeyOps

(* session and apiKey are what the headers carry, target the id of the key *)
(* to delete.                                                              *)
AuthBody ==
  [op: SignOps \cup GuardedOps, username: Usernames, email: Emails \cup {None},
   password: Passwords, session: Calls \cup {Forged, None},
   apiKey: Calls \cup {Forged, None}, target: Calls]

ASSUME AuthAssumption ==
  /\ AuthBodies \in [Calls -> SUBSET AuthBody]
  /\ Concurrency \in Nat
  /\ Faults \in BOOLEAN
  /\ Calls \cap {Forged, None, "unissued", "void"} = {}
  /\ Forged # None
  /\ None \notin Emails /\ None \notin AuthBody
  /\ None \notin [username: Usernames, email: Emails \cup {None}, password: Passwords]

VARIABLES
  req, apc,          \* request and stage of each call, or its answer
  caller,            \* the user found: payload.sub, req.user.id
  gmUsers,           \* table gm_users, by the sign-up that made the row
  gmApiKeys,         \* table gm_api_keys: the user of each key
  session            \* the tokens that sign-ins answered

authTables == <<gmUsers, gmApiKeys>>
authVars == <<req, apc, caller, gmUsers, gmApiKeys, session>>

AuthStages ==
  {"saveUser", "findUser", "sign", "jwt", "apiKey", "findCaller", "saveKey",
   "list", "delete"}
AuthAnswers ==
  {"signedUp", "signedIn", "generated", "listed", "deleted", "admitted",
   "UserNotFoundError", "ApiKeyNotFound", "NotFoundException", "Unauthorized",
   "Forbidden", "unavailable"}

User == [username: Usernames, email: Emails \cup {None}, password: Passwords]

AuthTypeOK ==
  /\ req \in [Calls -> AuthBody \cup {None}]
  /\ apc \in [Calls -> {"new"} \cup AuthStages \cup AuthAnswers]
  /\ caller \in [Calls -> Calls \cup {None}]
  /\ gmUsers \in [Calls -> User \cup {None}]
  /\ gmApiKeys \in [Calls -> Calls \cup {None}]
  /\ session \in [Calls -> {"none", "live", "expired"}]
  /\ \A c \in Calls : apc[c] # "new" => req[c] \in AuthBody

AuthInit ==
  /\ req = [c \in Calls |-> None]
  /\ apc = [c \in Calls |-> "new"]
  /\ caller = [c \in Calls |-> None]
  /\ gmUsers = [c \in Calls |-> None]
  /\ gmApiKeys = [c \in Calls |-> None]
  /\ session = [c \in Calls |-> "none"]

-----------------------------------------------------------------------------

AuthLive(c) == apc[c] \in AuthStages
AuthInFlight == {c \in Calls : AuthLive(c)}

AuthGoto(c, stage) == apc' = [apc EXCEPT ![c] = stage]

(* A call that has taken effect, whose answer may still get lost.          *)
AuthAcknowledge(c, answer) ==
  AuthGoto(c, answer) \/ (Faults /\ AuthGoto(c, "unavailable"))

(* The guards ask for a header before they wait for anything.              *)
WithoutToken(body) ==
  CASE body.op \in JwtOps -> "Unauthorized"
    [] body.op \in JwtOrApiKeyOps ->
         IF body.apiKey # None THEN "apiKey" ELSE "Forbidden"

FirstStage(body) ==
  CASE body.op = "signup" -> "saveUser"
    [] body.op = "signin" -> "findUser"
    [] body.op \in ApiKeyOps ->
         IF body.apiKey # None THEN "apiKey" ELSE "Unauthorized"
    [] body.op \in JwtOps \cup JwtOrApiKeyOps ->
         IF body.session # None THEN "jwt" ELSE WithoutToken(body)

(* The handler behind the guard; those of the other routes start here.     *)
Handler(body) ==
  CASE body.op = "generate" -> "findCaller"
    [] body.op = "list" -> "list"
    [] body.op = "delete" -> "delete"
    [] body.op \in {"profile", "use", "manage"} -> "admitted"

HandedOut(body) ==
  /\ body.session \in Calls => apc[body.session] = "signedIn"
  /\ body.apiKey \in Calls => apc[body.apiKey] = "generated"

ArriveAuth(c) ==
  /\ apc[c] = "new"
  /\ Cardinality(AuthInFlight) < Concurrency
  /\ \E body \in AuthBodies[c] :
       /\ HandedOut(body)
       /\ req' = [req EXCEPT ![c] = body]
       /\ AuthGoto(c, FirstStage(body))
  /\ UNCHANGED <<caller, authTables, session>>

-----------------------------------------------------------------------------
(* UserService.create and AuthMediator.signIn                              *)

(* The unique columns username and email.                                  *)
Taken(body) ==
  \E u \in Calls :
    /\ gmUsers[u] # None
    /\ \/ gmUsers[u].username = body.username
       \/ gmUsers[u].email = body.email /\ body.email # None

UserRow(body) ==
  [username |-> body.username, email |-> body.email, password |-> body.password]

SaveUser_Unchecked(c) ==
  /\ apc[c] = "saveUser"
  /\ gmUsers' = [gmUsers EXCEPT ![c] = UserRow(req[c])]
  /\ AuthAcknowledge(c, "signedUp")
  /\ UNCHANGED <<req, caller, gmApiKeys, session>>

SaveUser(c) ==
  /\ apc[c] = "saveUser"
  /\ ~Taken(req[c])
  /\ gmUsers' = [gmUsers EXCEPT ![c] = UserRow(req[c])]
  /\ AuthAcknowledge(c, "signedUp")
  /\ UNCHANGED <<req, caller, gmApiKeys, session>>

(* The message of the driver's error is not 'ER_DUP_ENTRY', which is its   *)
(* code: the error is not recognised as UserDuplicationError.              *)
UserTaken(c) ==
  /\ apc[c] = "saveUser"
  /\ Taken(req[c])
  /\ AuthGoto(c, "unavailable")
  /\ UNCHANGED <<req, caller, authTables, session>>

UsersNamed(name) == {u \in Calls : gmUsers[u] # None /\ gmUsers[u].username = name}

FindUser_AnyPassword(c) ==
  /\ apc[c] = "findUser"
  /\ \E u \in UsersNamed(req[c].username) : caller' = [caller EXCEPT ![c] = u]
  /\ AuthGoto(c, "sign")
  /\ UNCHANGED <<req, authTables, session>>

FindUser(c) ==
  /\ apc[c] = "findUser"
  /\ \E u \in UsersNamed(req[c].username) :
       /\ gmUsers[u].password = req[c].password
       /\ caller' = [caller EXCEPT ![c] = u]
  /\ AuthGoto(c, "sign")
  /\ UNCHANGED <<req, authTables, session>>

(* An unknown name, a wrong password and a failing database look alike.    *)
UserUnknown(c) ==
  /\ apc[c] = "findUser"
  /\ \A u \in UsersNamed(req[c].username) : gmUsers[u].password # req[c].password
  /\ AuthGoto(c, "UserNotFoundError")
  /\ UNCHANGED <<req, caller, authTables, session>>

(* A token whose answer gets lost is nobody's.                             *)
SignToken(c) ==
  /\ apc[c] = "sign"
  /\ \/ AuthGoto(c, "signedIn") /\ session' = [session EXCEPT ![c] = "live"]
     \/ Faults /\ AuthGoto(c, "unavailable") /\ UNCHANGED session
  /\ UNCHANGED <<req, caller, authTables>>

-----------------------------------------------------------------------------
(* The guards                                                              *)

LiveSession(s) == s \in Calls /\ session[s] = "live"
KeyExists(k) == k \in Calls /\ gmApiKeys[k] # None

VerifyToken_IgnoresExpiry(c) ==
  /\ apc[c] = "jwt"
  /\ req[c].session \in Calls
  /\ caller' = [caller EXCEPT ![c] = caller[req[c].session]]
  /\ AuthGoto(c, Handler(req[c]))
  /\ UNCHANGED <<req, authTables, session>>

VerifyToken(c) ==
  /\ apc[c] = "jwt"
  /\ LiveSession(req[c].session)
  /\ caller' = [caller EXCEPT ![c] = caller[req[c].session]]
  /\ AuthGoto(c, Handler(req[c]))
  /\ UNCHANGED <<req, authTables, session>>

TokenInvalid_Swallowed(c) ==
  /\ apc[c] = "jwt"
  /\ ~LiveSession(req[c].session)
  /\ AuthGoto(c, Handler(req[c]))
  /\ UNCHANGED <<req, caller, authTables, session>>

(* JwtOrApiKeyGuard goes on to the API key, if there is one.               *)
TokenInvalid(c) ==
  /\ apc[c] = "jwt"
  /\ ~LiveSession(req[c].session)
  /\ AuthGoto(c, WithoutToken(req[c]))
  /\ UNCHANGED <<req, caller, authTables, session>>

ValidateApiKey_Cached(c) ==
  /\ apc[c] = "apiKey"
  /\ req[c].apiKey \in Calls
  /\ caller' = [caller EXCEPT ![c] = caller[req[c].apiKey]]
  /\ AuthGoto(c, Handler(req[c]))
  /\ UNCHANGED <<req, authTables, session>>

ValidateApiKey(c) ==
  /\ apc[c] = "apiKey"
  /\ KeyExists(req[c].apiKey)
  /\ caller' = [caller EXCEPT ![c] = gmApiKeys[req[c].apiKey]]
  /\ AuthGoto(c, Handler(req[c]))
  /\ UNCHANGED <<req, authTables, session>>

(* JwtOrApiKeyGuard turns the errors of both guards into false.            *)
Refusal(body) ==
  IF body.op \in JwtOrApiKeyOps THEN "Forbidden" ELSE "NotFoundException"

ApiKeyInvalid(c) ==
  /\ apc[c] = "apiKey"
  /\ ~KeyExists(req[c].apiKey)
  /\ AuthGoto(c, Refusal(req[c]))
  /\ UNCHANGED <<req, caller, authTables, session>>

-----------------------------------------------------------------------------
(* ApiKeyService                                                           *)

FindCaller(c) ==
  /\ apc[c] = "findCaller"
  /\ AuthGoto(c, IF gmUsers[caller[c]] # None THEN "saveKey" ELSE "unavailable")
  /\ UNCHANGED <<req, caller, authTables, session>>

SaveApiKey(c) ==
  /\ apc[c] = "saveKey"
  /\ gmApiKeys' = [gmApiKeys EXCEPT ![c] = caller[c]]
  /\ \/ AuthGoto(c, "generated")
     \/ Faults /\ AuthGoto(c, "NotFoundException")
  /\ UNCHANGED <<req, caller, gmUsers, session>>

ListApiKeys(c) ==
  /\ apc[c] = "list"
  /\ AuthGoto(c, "listed")
  /\ UNCHANGED <<req, caller, authTables, session>>

(* delete() by id and user; TypeORM drops a condition whose value is       *)
(* undefined, so without a caller it would be by id only.                  *)
Deletable(c) ==
  LET owner == gmApiKeys[req[c].target] IN
  owner # None /\ caller[c] \in {None, owner}

DeleteApiKey_AnyUser(c) ==
  /\ apc[c] = "delete"
  /\ gmApiKeys[req[c].target] # None
  /\ gmApiKeys' = [gmApiKeys EXCEPT ![req[c].target] = None]
  /\ AuthAcknowledge(c, "deleted")
  /\ UNCHANGED <<req, caller, gmUsers, session>>

DeleteApiKey_NotCounted(c) ==
  /\ apc[c] = "delete"
  /\ gmApiKeys' = [gmApiKeys EXCEPT ![req[c].target] =
       IF @ = caller[c] THEN None ELSE @]
  /\ AuthAcknowledge(c, "deleted")
  /\ UNCHANGED <<req, caller, gmUsers, session>>

DeleteApiKey(c) ==
  /\ apc[c] = "delete"
  /\ Deletable(c)
  /\ gmApiKeys' = [gmApiKeys EXCEPT ![req[c].target] = None]
  /\ AuthAcknowledge(c, "deleted")
  /\ UNCHANGED <<req, caller, gmUsers, session>>

ApiKeyMissing(c) ==
  /\ apc[c] = "delete"
  /\ ~Deletable(c)
  /\ AuthGoto(c, "ApiKeyNotFound")
  /\ UNCHANGED <<req, caller, authTables, session>>

(* What a failing await is answered with.                                  *)
Failure(c) ==
  CASE apc[c] = "findUser" -> "UserNotFoundError"
    [] apc[c] = "apiKey" -> Refusal(req[c])
    [] apc[c] = "saveKey" -> "NotFoundException"
    [] apc[c] \in {"saveUser", "sign", "findCaller", "list", "delete"} -> "unavailable"

AuthFails(c) ==
  /\ Faults
  /\ AuthLive(c) /\ apc[c] # "jwt"
  /\ AuthGoto(c, Failure(c))
  /\ UNCHANGED <<req, caller, authTables, session>>

Step(c) ==
  \/ SaveUser(c) \/ UserTaken(c) \/ FindUser(c) \/ UserUnknown(c) \/ SignToken(c)
  \/ VerifyToken(c) \/ TokenInvalid(c) \/ ValidateApiKey(c) \/ ApiKeyInvalid(c)
  \/ FindCaller(c) \/ SaveApiKey(c) \/ ListApiKeys(c)
  \/ DeleteApiKey(c) \/ ApiKeyMissing(c) \/ AuthFails(c)

-----------------------------------------------------------------------------

(* jwtExpiresIn has passed.                                                *)
Expire(s) ==
  /\ session[s] = "live"
  /\ session' = [session EXCEPT ![s] = "expired"]
  /\ UNCHANGED <<req, apc, caller, authTables>>

(* The process dies with its handlers; tokens and tables survive.          *)
AuthCrash ==
  /\ Faults
  /\ AuthInFlight # {}
  /\ apc' = [c \in Calls |-> IF AuthLive(c) THEN "unavailable" ELSE apc[c]]
  /\ UNCHANGED <<req, caller, authTables, session>>

(* Nothing is in flight, and no more calls come.                           *)
AuthQuiescent == AuthInFlight = {} /\ UNCHANGED authVars

AuthNext ==
  \/ \E c \in Calls : ArriveAuth(c) \/ Step(c) \/ Expire(c)
  \/ AuthCrash
  \/ AuthQuiescent

AuthSpec == AuthInit /\ [][AuthNext]_authVars

-----------------------------------------------------------------------------
(* Safety.                                                                 *)

(* Whatever is signed up at the same time: a sign-up that was acknowledged *)
(* has its row, unchanged, and nobody else signs in under its name.        *)
UsersDistinct ==
  /\ \A c \in Calls : apc[c] = "signedUp" => gmUsers[c] = UserRow(req[c])
  /\ \A u, v \in Calls :
       /\ gmUsers[u] # None /\ gmUsers[v] # None
       /\ gmUsers[u].username = gmUsers[v].username
       => u = v

(* s is a sign-in with the name and the password of user u.                *)
PasswordGiven(s, u) ==
  /\ req[s].op = "signin"
  /\ u \in Calls /\ gmUsers[u] # None
  /\ gmUsers[u].username = req[s].username
  /\ gmUsers[u].password = req[s].password

(* The token that came with c, or with the generation of the API key that  *)
(* came with c, is from such a sign-in.                                    *)
SessionVouches(c, u) == req[c].session \in Calls /\ PasswordGiven(req[c].session, u)
KeyVouches(c, u) == req[c].apiKey \in Calls /\ SessionVouches(req[c].apiKey, u)

(* Whoever a guard lets a call act for has given the password to get the   *)
(* token or the API key that the call presents.                            *)
TracedToPassword ==
  \A c \in Calls :
    caller[c] # None /\ req[c].op \in GuardedOps =>
      SessionVouches(c, caller[c]) \/ KeyVouches(c, caller[c])

(* No handler behind a guard runs without a user: TypeORM would drop the   *)
(* condition on the user and answer or delete what is not the caller's.    *)
HandlersHaveCaller ==
  \A c \in Calls :
    apc[c] \in {"findCaller", "saveKey", "list", "delete", "admitted"} =>
      caller[c] # None

(* Of several deletions of one key, only one is acknowledged.              *)
OneDeletionAcknowledged ==
  \A c, d \in Calls :
    apc[c] = "deleted" /\ apc[d] = "deleted" /\ req[c].target = req[d].target => c = d

(* Without faults, a sign-up that is refused is refused as a duplicate.    *)
DuplicateReported ==
  \A c \in Calls : apc[c] = "unavailable" /\ req[c].op = "signup" => Faults

(* A key is deleted by a call that a guard let act for its user.           *)
KeysDeletedByOwner ==
  [][\A k \in Calls :
       gmApiKeys[k] # None /\ gmApiKeys'[k] # gmApiKeys[k] =>
         /\ gmApiKeys'[k] = None
         /\ \E c \in Calls :
              /\ apc[c] = "delete" /\ apc'[c] # "delete"
              /\ req[c].target = k
              /\ caller[c] = gmApiKeys[k]]_authVars

(* Once the deletion of a key has been acknowledged, no guard lets a call  *)
(* pass with it, whether the call came before or after.                    *)
DeletedKeyRefused ==
  [][\A c, d \in Calls :
       /\ apc[d] = "deleted"
       /\ apc[c] = "apiKey" /\ req[c].apiKey = req[d].target
       => caller'[c] = caller[c]]_authVars

-----------------------------------------------------------------------------
(* The bookkeeping behind these, an inductive invariant.                   *)

(* Which routes get to which stage, and when a caller is known.            *)
StagesSound ==
  \A c \in Calls :
    /\ apc[c] \in {"new", "saveUser", "findUser", "jwt", "apiKey"} => caller[c] = None
    /\ apc[c] \in {"saveUser", "signedUp"} => req[c].op = "signup"
    /\ apc[c] \in {"findUser", "sign", "signedIn"} => req[c].op = "signin"
    /\ apc[c] = "jwt" => req[c].op \in JwtOps \cup JwtOrApiKeyOps
    /\ apc[c] = "apiKey" => req[c].op \in JwtOrApiKeyOps \cup ApiKeyOps
    /\ apc[c] \in {"findCaller", "saveKey", "generated"} => req[c].op = "generate"
    /\ apc[c] \in {"list", "delete", "deleted"} => req[c].op \in JwtOrApiKeyOps

(* What is presented was handed out, and what is valid is rightly so.      *)
CredentialsSound ==
  \A c \in Calls :
    /\ apc[c] # "new" => HandedOut(req[c])
    /\ apc[c] \in {"sign", "signedIn"} => PasswordGiven(c, caller[c])
    /\ caller[c] # None /\ req[c].op \in JwtOps => SessionVouches(c, caller[c])
    /\ session[c] # "none" => apc[c] = "signedIn"
    /\ gmUsers[c] # None => apc[c] \in AuthAnswers
    /\ gmApiKeys[c] # None =>
         apc[c] \in AuthAnswers /\ req[c].op = "generate" /\ gmApiKeys[c] = caller[c]
    /\ apc[c] = "deleted" =>
         gmApiKeys[req[c].target] = None /\ apc[req[c].target] \in AuthAnswers

AuthBookkeeping ==
  /\ AuthTypeOK
  /\ StagesSound
  /\ CredentialsSound
  /\ UsersDistinct
  /\ TracedToPassword
  /\ HandlersHaveCaller
  /\ OneDeletionAcknowledged

-----------------------------------------------------------------------------
(* What GoMint promises about credentials.                                 *)

Credential ==
  [k \in Calls |->
    IF session[k] = "live" THEN caller[k]
    ELSE IF gmApiKeys[k] # None THEN gmApiKeys[k]
    ELSE IF apc[k] \in AuthAnswers THEN "void" ELSE "unissued"]

ActsFor ==
  [c \in Calls |->
    IF req[c] # None /\ req[c].op \in GuardedOps THEN caller[c] ELSE None]

Register == INSTANCE Credentials WITH
  Users <- Calls, credential <- Credential, acts <- ActsFor

CredentialsSpec == Register!Spec
=============================================================================
