--------------------------- MODULE GoMintApiProofs ---------------------------
(***************************************************************************)
(* What holds of the guarded routes for every number of users, calls and   *)
(* accounts: each part behaves in the composition as it does alone, so     *)
(* that what AuthServiceProofs and AccountServiceProofs prove holds of it. *)
(***************************************************************************)
EXTENDS GoMintApi, AuthServiceProofs, AccountServiceProofs

-----------------------------------------------------------------------------
(* Each part behaves in the composition as it does alone.                  *)

LEMMA ApiStepsAreAuthSteps == [ApiNext]_apiVars => [AuthNext]_authVars
  <1> SUFFICES ASSUME [ApiNext]_apiVars PROVE [AuthNext]_authVars
    OBVIOUS
  <1>1. ASSUME NEW c \in Calls, GuardStep(c) PROVE [AuthNext]_authVars
    BY <1>1 DEF GuardStep, AuthNext
  <1>2. ASSUME NEW c \in Creations \cup Updates, Step(c) PROVE [AuthNext]_authVars
    BY <1>2, RoutesAssumption DEF AuthNext
  <1>3. CASE HandlerStep BY <1>3 DEF HandlerStep
  <1>4. CASE ProcessDies BY <1>4 DEF ProcessDies, AuthNext
  <1>5. CASE UNCHANGED apiVars BY <1>5 DEF apiVars
  <1> QED
    BY <1>1, <1>2, <1>3, <1>4, <1>5
    DEF ApiNext, CreateAccount, UpdateAccount, ApiQuiescent

LEMMA ApiStepsAreAccountSteps == [ApiNext]_apiVars => [Next]_vars
  <1> SUFFICES ASSUME [ApiNext]_apiVars
      PROVE  Next \/ UNCHANGED vars
    OBVIOUS
  <1>1. ASSUME NEW c \in Calls, GuardStep(c) PROVE UNCHANGED vars
    BY <1>1 DEF GuardStep
  <1>2. ASSUME NEW c \in Creations, CreateAccount(c) PROVE Next
    BY <1>2 DEF CreateAccount, Next
  <1>3. ASSUME NEW c \in Updates, UpdateAccount(c) PROVE Next
    BY <1>3 DEF UpdateAccount, Next
  <1>4. CASE HandlerStep
    BY <1>4 DEF HandlerStep, Next
  <1>5. CASE ProcessDies
    BY <1>5 DEF ProcessDies, Next
  <1>6. CASE UNCHANGED apiVars BY <1>6 DEF apiVars
  <1> QED
    BY <1>1, <1>2, <1>3, <1>4, <1>5, <1>6 DEF ApiNext, ApiQuiescent

(* Whatever the handlers do, the guards of the composed system are those   *)
(* of AuthService, and everything proved of it holds here.                 *)
THEOREM AuthKept == ApiSpec => AuthSpec
  <1>1. ApiInit => AuthInit BY DEF ApiInit
  <1> QED BY <1>1, ApiStepsAreAuthSteps, PTL DEF ApiSpec, AuthSpec

(* Whatever the guards do, the handlers of the composed system are those   *)
(* of AccountService.                                                      *)
THEOREM AccountsKept == ApiSpec => Spec
  <1>1. ApiInit => Init BY DEF ApiInit
  <1> QED
    BY <1>1, ApiStepsAreAccountSteps, PTL DEF ApiSpec, Spec

-----------------------------------------------------------------------------
(* What the handlers leave alone once they run.                            *)

RequestsKept ==
  /\ creq' = creq /\ ureq' = ureq
  /\ \A r \in Creations : pc'[r] = "new" <=> pc[r] = "new"
  /\ \A u \in Updates : upc'[u] = "new" <=> upc[u] = "new"

LEMMA CreateStepsKeep ==
  ASSUME TypeOK, NEW r \in Creations, CreateStep(r)
  PROVE  RequestsKept
  <1> USE DEF RequestsKept, TypeOK, Goto, updates
  <1>1. CASE Count(r) BY <1>1 DEF Count
  <1>2. CASE AliasRejected(r) BY <1>2 DEF AliasRejected
  <1>3. CASE EscrowDenied(r)
    BY <1>3 DEF EscrowDenied, EscrowErrors
  <1>4. CASE AliasFree(r) BY <1>4 DEF AliasFree
  <1>5. CASE PayerMissing(r) BY <1>5 DEF PayerMissing
  <1>6. CASE PayerUnusable(r) BY <1>6 DEF PayerUnusable
  <1>7. CASE LoadPayer(r) BY <1>7 DEF LoadPayer
  <1>8. CASE SaveKey(r)
    BY <1>8 DEF SaveKey
  <1>9. CASE Submit(r) BY <1>9 DEF Submit, Acknowledge
  <1>10. CASE Receipt(r) BY <1>10 DEF Receipt
  <1>11. CASE SaveAccount(r)
    BY <1>11 DEF SaveAccount, Acknowledge
  <1>12. CASE LoadRow(r) \/ RowRefused(r)
    BY <1>12 DEF LoadRow, RowRefused
  <1>13. CASE CallFails(r)
    BY <1>13 DEF CallFails, Live, Stages
  <1> QED
    BY <1>1, <1>2, <1>3, <1>4, <1>5, <1>6, <1>7, <1>8, <1>9, <1>10, <1>11, <1>12, <1>13
    DEF CreateStep

LEMMA UpdateStepsKeep ==
  ASSUME TypeOK, NEW u \in Updates, UpdateStep(u)
  PROVE  RequestsKept
  <1> USE DEF RequestsKept, TypeOK, UGoto, creations
  <1>1. CASE GetUserAccountById(u) BY <1>1 DEF GetUserAccountById
  <1>2. CASE AliasTooLong(u) \/ UpdateAlias(u) BY <1>2 DEF AliasTooLong, UpdateAlias
  <1>3. CASE UpdateFails(u)
    BY <1>3 DEF UpdateFails, UpdateLive, UpdateStages
  <1> QED BY <1>1, <1>2, <1>3 DEF UpdateStep

LEMMA HandlersKeep ==
  ASSUME TypeOK, HandlerStep \/ Crash \/ UNCHANGED vars
  PROVE  RequestsKept
  <1>1. ASSUME NEW r \in Creations, Settle(r) PROVE RequestsKept
    BY <1>1 DEF Settle, OpenAccount, RejectTx,
       creations, updates, RequestsKept
  <1>2. CASE Crash
    BY <1>2 DEF Crash, Live, UpdateLive, Stages,
       UpdateStages, TypeOK, RequestsKept
  <1>3. CASE UNCHANGED vars BY <1>3 DEF vars, RequestsKept
  <1> QED
    BY <1>1, <1>2, <1>3, CreateStepsKeep, UpdateStepsKeep DEF HandlerStep

-----------------------------------------------------------------------------
(* The invariant.                                                          *)

LEMMA InitApiBookkeeping == ApiInit => ApiBookkeeping
  BY RoutesAssumption
  DEF ApiInit, AuthInit, Init, ApiBookkeeping, RoutesRespected,
      HandlersActForCaller

LEMMA NextRoutesRespected ==
  ASSUME AuthBookkeeping, RoutesRespected, [AuthNext]_authVars
  PROVE  RoutesRespected'
  <1> SUFFICES ASSUME NEW c \in Calls, apc'[c] # "new" PROVE req'[c] \in AuthBodies[c]
    BY DEF RoutesRespected
  <1>1. CASE apc[c] # "new"
    BY <1>1, NextCallSteps DEF CallSteps, RoutesRespected, AuthBookkeeping
  <1>2. CASE ArriveAuth(c) BY <1>2 DEF ArriveAuth, AuthBookkeeping, AuthTypeOK
  <1> QED BY <1>1, <1>2, NextCallSteps DEF CallSteps, AuthBookkeeping

LEMMA StepsAreLive ==
  ASSUME NEW c \in Calls, Step(c)
  PROVE  apc[c] \in AuthStages
  <1> USE DEF AuthStages
  <1>1. SaveUser(c) \/ UserTaken(c) \/ FindUser(c) \/ UserUnknown(c) \/ SignToken(c)
        => apc[c] \in AuthStages
    BY DEF SaveUser, UserTaken, FindUser, UserUnknown, SignToken
  <1>2. VerifyToken(c) \/ TokenInvalid(c) \/ ValidateApiKey(c) \/ ApiKeyInvalid(c)
        => apc[c] \in AuthStages
    BY DEF VerifyToken, TokenInvalid, ValidateApiKey, ApiKeyInvalid
  <1>3. FindCaller(c) \/ SaveApiKey(c) \/ ListApiKeys(c) => apc[c] \in AuthStages
    BY DEF FindCaller, SaveApiKey, ListApiKeys
  <1>4. DeleteApiKey(c) \/ ApiKeyMissing(c) \/ AuthFails(c) => apc[c] \in AuthStages
    BY DEF DeleteApiKey, ApiKeyMissing, AuthFails, AuthLive
  <1> QED BY <1>1, <1>2, <1>3, <1>4 DEF Step

(* A call is only handed to its handler by a guard that has found a user.  *)
LEMMA Admission ==
  ASSUME AuthBookkeeping, RoutesRespected, [AuthNext]_authVars,
         NEW c \in Routed, Step(c), apc'[c] = "admitted"
  PROVE  /\ req'[c] = req[c]
         /\ req[c].op \in GuardedOps
         /\ VerifyToken(c) \/ ValidateApiKey(c)
  <1>1. c \in Calls BY RoutesAssumption DEF Routed
  <1>2. apc[c] \in AuthStages BY <1>1, StepsAreLive
  <1>3. req'[c] = req[c] /\ req[c] \in AuthBodies[c]
    BY <1>1, <1>2, NextCallSteps
    DEF CallSteps, AuthStages, RoutesRespected, AuthBookkeeping
  <1>4. req[c].op \in {"use", "manage"}
    BY <1>3, RoutesAssumption DEF Routed, ApiKeyOps
  <1>5. apc[c] # "findCaller" /\ apc[c] # "admitted"
    BY <1>1, <1>2, <1>4 DEF AuthBookkeeping, StagesSound, AuthStages
  <1>6. VerifyToken(c) \/ ValidateApiKey(c)
    BY <1>1, <1>5, NextCallSteps DEF CallSteps, AuthBookkeeping
  <1> QED
    BY <1>3, <1>4, <1>6 DEF GuardedOps, JwtOrApiKeyOps, ApiKeyOps

(* The users of the calls that are in their handlers stay.                 *)
LEMMA AdmittedStay ==
  ASSUME AuthBookkeeping, [AuthNext]_authVars, NEW c \in Calls, apc[c] = "admitted"
  PROVE  apc'[c] = "admitted" /\ req'[c] = req[c] /\ caller'[c] = caller[c]
  <1>1. caller[c] # None BY DEF AuthBookkeeping, HandlersHaveCaller
  <1> QED
    BY <1>1, CallersStay, NextCallSteps DEF CallSteps, AuthBookkeeping, AuthAnswers

(* Which calls enter the handlers, with which requests.                    *)
LEMMA Entries ==
  ASSUME TypeOK, [ApiNext]_apiVars
  PROVE  /\ \A r \in Creations :
              \/ /\ creq'[r] = creq[r]
                 /\ pc'[r] = "new" <=> pc[r] = "new"
              \/ CreateAccount(r)
         /\ \A u \in Updates :
              \/ /\ ureq'[u] = ureq[u]
                 /\ upc'[u] = "new" <=> upc[u] = "new"
              \/ UpdateAccount(u)
  <1> DEFINE Kept ==
        /\ \A r \in Creations :
             \/ /\ creq'[r] = creq[r]
                /\ pc'[r] = "new" <=> pc[r] = "new"
             \/ CreateAccount(r)
        /\ \A u \in Updates :
             \/ /\ ureq'[u] = ureq[u]
                /\ upc'[u] = "new" <=> upc[u] = "new"
             \/ UpdateAccount(u)
  <1>1. ASSUME NEW c \in Creations, CreateAccount(c) PROVE Kept
    <2>1. Arrive(c) BY <1>1 DEF CreateAccount
    <2> QED
      BY <1>1, <2>1
      DEF Arrive, Goto, updates, TypeOK
  <1>2. ASSUME NEW c \in Updates, UpdateAccount(c) PROVE Kept
    <2>1. ArriveUpdate(c) BY <1>2 DEF UpdateAccount
    <2> QED
      BY <1>2, <2>1
      DEF ArriveUpdate, UGoto, creations, TypeOK
  <1>3. HandlerStep \/ Crash \/ UNCHANGED vars => Kept
    BY HandlersKeep DEF RequestsKept
  <1> QED
    BY <1>1, <1>2, <1>3
    DEF ApiNext, GuardStep, ProcessDies, ApiQuiescent, apiVars

LEMMA NextHandlersActForCaller ==
  ASSUME AuthBookkeeping, RoutesRespected, HandlersActForCaller, TypeOK,
         [ApiNext]_apiVars
  PROVE  HandlersActForCaller'
  <1>1. [AuthNext]_authVars BY ApiStepsAreAuthSteps
  <1>2. ASSUME NEW r \in Creations, pc'[r] # "new"
        PROVE  /\ apc'[r] = "admitted" /\ req'[r].op \in GuardedOps
               /\ creq'[r].user = caller'[r]
    <2>1. CASE pc[r] # "new" /\ creq'[r] = creq[r]
      <3>1. /\ apc[r] = "admitted" /\ req[r].op \in GuardedOps
            /\ creq[r].user = caller[r]
        BY <2>1 DEF HandlersActForCaller
      <3> QED BY <1>1, <2>1, <3>1, AdmittedStay, RoutesAssumption
    <2>2. CASE CreateAccount(r)
      BY <1>1, <2>2, Admission DEF CreateAccount, Routed
    <2> QED BY <1>2, <2>1, <2>2, Entries
  <1>3. ASSUME NEW u \in Updates, upc'[u] # "new"
        PROVE  /\ apc'[u] = "admitted" /\ req'[u].op \in GuardedOps
               /\ ureq'[u].user = caller'[u]
    <2>1. CASE upc[u] # "new" /\ ureq'[u] = ureq[u]
      <3>1. /\ apc[u] = "admitted" /\ req[u].op \in GuardedOps
            /\ ureq[u].user = caller[u]
        BY <2>1 DEF HandlersActForCaller
      <3> QED BY <1>1, <2>1, <3>1, AdmittedStay, RoutesAssumption
    <2>2. CASE UpdateAccount(u)
      BY <1>1, <2>2, Admission DEF UpdateAccount, Routed
    <2> QED BY <1>3, <2>1, <2>2, Entries
  <1> QED BY <1>2, <1>3 DEF HandlersActForCaller

-----------------------------------------------------------------------------
(* The theorems.                                                           *)

(* A handler only ever runs for the user its guard found.                  *)
THEOREM HandlersActCorrect ==
  ApiSpec => []ApiBookkeeping
  <1>1. AuthBookkeeping /\ Bookkeeping /\ ApiBookkeeping /\ [ApiNext]_apiVars
        => ApiBookkeeping'
    BY NextRoutesRespected, NextHandlersActForCaller, ApiStepsAreAuthSteps
    DEF ApiBookkeeping, Bookkeeping
  <1>2. ApiSpec => []AuthBookkeeping /\ []Bookkeeping
    BY AuthKept, AuthBookkeepingCorrect, AccountsKept, BookkeepingCorrect, PTL
  <1> QED BY <1>1, <1>2, InitApiBookkeeping, PTL DEF ApiSpec

LEMMA CallersTraced ==
  ASSUME AuthBookkeeping, ApiBookkeeping
  PROVE  /\ \A r \in Creations : pc[r] # "new" => MadeBy(r, creq[r].user)
         /\ \A u \in Updates : upc[u] # "new" => MadeBy(u, ureq[u].user)
  BY RoutesAssumption
  DEF AuthBookkeeping, HandlersHaveCaller, TracedToPassword, ApiBookkeeping,
      HandlersActForCaller, MadeBy

(* Keys and transactions are of creations that have begun.                 *)
LEMMA HandlersBegan ==
  ASSUME Bookkeeping, NEW r \in Creations,
         gmKeys[r].saved \/ tx[r].status # "unsent"
  PROVE  pc[r] # "new"
  BY DEF Bookkeeping, HandlerPhases, BeforeKey

(* An account is opened for, and paid by, whoever gave the password.       *)
THEOREM TransactionsAreTraced ==
  ApiSpec => []TransactionsTraced
  <1>1. AuthBookkeeping /\ ApiBookkeeping /\ Bookkeeping => TransactionsTraced
    <2> SUFFICES ASSUME AuthBookkeeping, ApiBookkeeping, Bookkeeping,
                        NEW r \in Creations, tx[r].status # "unsent"
        PROVE  /\ MadeBy(r, creq[r].user)
               /\ tx[r].payer = GoMint \/
                  \E k \in Creations :
                    gmKeys[k].saved /\ chain[k] = tx[r].payer /\ MadeBy(k, creq[r].user)
      BY DEF TransactionsTraced
    <2>1. MadeBy(r, creq[r].user) BY HandlersBegan, CallersTraced
    <2>2. ASSUME tx[r].payer # GoMint
          PROVE  \E k \in Creations :
                   gmKeys[k].saved /\ chain[k] = tx[r].payer /\ MadeBy(k, creq[r].user)
      <3>1. PICK k \in Creations :
              gmKeys[k].saved /\ creq[k].user = creq[r].user /\ chain[k] = tx[r].payer
        BY <2>2
        DEF Bookkeeping, PayerHeld, PayerDecided, UserOf
      <3>2. MadeBy(k, creq[k].user) BY <3>1, HandlersBegan, CallersTraced
      <3> QED BY <3>1, <3>2
    <2> QED BY <2>1, <2>2
  <1>2. ApiSpec => []AuthBookkeeping /\ []Bookkeeping
    BY AuthKept, AuthBookkeepingCorrect, AccountsKept, BookkeepingCorrect, PTL
  <1> QED BY <1>1, <1>2, HandlersActCorrect, PTL

(* A registered account is its user's because that user asked for it.      *)
THEOREM RowsAreTraced ==
  ApiSpec => []RowsTraced
  <1>1. AuthBookkeeping /\ ApiBookkeeping /\ Bookkeeping => RowsTraced
    <2> SUFFICES ASSUME AuthBookkeeping, ApiBookkeeping, Bookkeeping,
                        NEW a \in AccountIds, Registered(a)
        PROVE  \E k \in KeysOf(a) : MadeBy(k, gmAccounts[a].user)
      BY DEF RowsTraced
    <2>1. PICK k \in Creations : gmKeys[k].saved /\ gmKeys[k].account = a
      BY DEF Bookkeeping, RowHasKey, KeysOf
    <2>2. creq[k].user = gmAccounts[a].user
      BY <2>1
      DEF Bookkeeping, LinkSound, UserOf, NoAccount,
          AccountIds
    <2>3. MadeBy(k, creq[k].user) BY <2>1, HandlersBegan, CallersTraced
    <2> QED BY <2>1, <2>2, <2>3 DEF KeysOf
  <1>2. ApiSpec => []AuthBookkeeping /\ []Bookkeeping
    BY AuthKept, AuthBookkeepingCorrect, AccountsKept, BookkeepingCorrect, PTL
  <1> QED BY <1>1, <1>2, HandlersActCorrect, PTL

(* If the users share a network, only a row's own user changes it.         *)
THEOREM RowChangesAreTraced ==
  ASSUME OneNetwork
  PROVE  ApiSpec => RowChangesTraced
  <1> DEFINE ByUser ==
        \A a \in AccountIds :
          Registered(a) /\ gmAccounts'[a] # gmAccounts[a] =>
            \E u \in Updates :
              /\ upc[u] = "update" /\ upc'[u] # "update"
              /\ ureq[u].id = a
              /\ ureq[u].user = gmAccounts[a].user
              /\ gmAccounts'[a] = [gmAccounts[a] EXCEPT !.alias = ureq[u].alias]
      Traced ==
        \A a \in AccountIds :
          Registered(a) /\ gmAccounts'[a] # gmAccounts[a] =>
            \E u \in Updates :
              /\ upc[u] = "update" /\ upc'[u] # "update"
              /\ MadeBy(u, gmAccounts[a].user)
  <1>1. AuthBookkeeping /\ ApiBookkeeping /\ [ByUser]_vars => [Traced]_apiVars
    <2> SUFFICES ASSUME AuthBookkeeping, ApiBookkeeping, [ByUser]_vars,
                        NEW a \in AccountIds, Registered(a),
                        gmAccounts'[a] # gmAccounts[a]
        PROVE  \E u \in Updates :
                 /\ upc[u] = "update" /\ upc'[u] # "update"
                 /\ MadeBy(u, gmAccounts[a].user)
      OBVIOUS
    <2>1. ByUser BY DEF vars
    <2>2. PICK u \in Updates :
            /\ upc[u] = "update" /\ upc'[u] # "update"
            /\ ureq[u].user = gmAccounts[a].user
      BY <2>1
    <2>3. MadeBy(u, ureq[u].user) BY <2>2, CallersTraced
    <2> QED BY <2>2, <2>3
  <1>2. ApiSpec => []AuthBookkeeping /\ []Bookkeeping
    BY AuthKept, AuthBookkeepingCorrect, AccountsKept, BookkeepingCorrect, PTL
  <1>3. ApiSpec => RowsChangeByTheirUser BY AccountsKept, RowsChangeByUser, PTL
  <1> QED
    BY <1>1, <1>2, <1>3, HandlersActCorrect, PTL
    DEF RowsChangeByTheirUser, RowChangesTraced

-----------------------------------------------------------------------------
(* The composition keeps what each part promises.                          *)

(* With the handlers behind them, the guards still implement Credentials.  *)
THEOREM ApiImplementsCredentials == ApiSpec => CredentialsSpec
  BY AuthKept, ImplementsCredentials, PTL

(* Called through the guards, the handlers still implement the custody of  *)
(* keys and the registry of accounts.                                      *)
THEOREM ApiImplementsCustody ==
  ASSUME OneNetwork
  PROVE  ApiSpec => CustodySpec /\ RegistrySpec
  BY AccountsKept, ImplementsCustody, ImplementsRegistry, PTL
=============================================================================
