------------------------------ MODULE GoMintApi ------------------------------
(***************************************************************************)
(* The routes POST /account and PATCH /account/:accountId with the guards  *)
(* in front of them: the composition of AuthService and AccountService.    *)
(* A call of one of these routes passes its guard and is handed to its     *)
(* handler in one step, with the user the guard found; everything else of  *)
(* the two parts interleaves.  They share the process, which dies as a     *)
(* whole, and the users: who signed up is who accounts are opened for.     *)
(***************************************************************************)
EXTENDS AuthService, AccountService

ASSUME RoutesAssumption ==
  /\ Users \subseteq Calls           \* a user is named by the sign-up
  /\ Creations \cup Updates \subseteq Calls
  /\ \A c \in Creations : \A r \in AuthBodies[c] : r.op \in ApiKeyOps
  /\ \A c \in Updates : \A r \in AuthBodies[c] : r.op = "manage"

apiVars == <<authVars, vars>>

ApiInit == AuthInit /\ Init

-----------------------------------------------------------------------------

Routed == Creations \cup Updates

(* Signing up and in, API keys, other routes, and refusals.                *)
GuardStep(c) ==
  /\ ArriveAuth(c) \/ Step(c) \/ Expire(c)
  /\ c \in Routed => apc'[c] # "admitted"
  /\ UNCHANGED vars

CreateAccount_NamedUser(c) ==
  /\ Step(c) /\ apc'[c] = "admitted"
  /\ Arrive(c)

(* `const { user } = req`: the user of the handler is the guard's.         *)
CreateAccount(c) ==
  /\ Step(c) /\ apc'[c] = "admitted"
  /\ Arrive(c) /\ creq'[c].user = caller'[c]

UpdateAccount_NamedUser(c) ==
  /\ Step(c) /\ apc'[c] = "admitted"
  /\ ArriveUpdate(c)

UpdateAccount(c) ==
  /\ Step(c) /\ apc'[c] = "admitted"
  /\ ArriveUpdate(c) /\ ureq'[c].user = caller'[c]

HandlerStep ==
  /\ \/ \E r \in Creations : CreateStep(r) \/ Settle(r)
     \/ \E u \in Updates : UpdateStep(u)
  /\ UNCHANGED authVars

ProcessDies ==
  /\ AuthInFlight \cup InFlight # {}
  /\ AuthCrash \/ (Faults /\ AuthInFlight = {} /\ UNCHANGED authVars)
  /\ Crash \/ (Faults /\ InFlight = {} /\ UNCHANGED vars)

(* Nothing is in flight, every transaction settled, and no more calls come.*)
ApiQuiescent ==
  /\ AuthInFlight \cup InFlight = {}
  /\ \A r \in Creations : tx[r].status # "pending"
  /\ UNCHANGED apiVars

ApiNext ==
  \/ \E c \in Calls : GuardStep(c)
  \/ \E c \in Creations : CreateAccount(c)
  \/ \E c \in Updates : UpdateAccount(c)
  \/ HandlerStep
  \/ ProcessDies
  \/ ApiQuiescent

ApiSpec == ApiInit /\ [][ApiNext]_apiVars

-----------------------------------------------------------------------------
(* Safety.                                                                 *)

(* The guard took c for a call of user u, and u gave the password for the  *)
(* session or the API key that c presents.                                 *)
MadeBy(c, u) == caller[c] = u /\ (SessionVouches(c, u) \/ KeyVouches(c, u))

(* What GoMint submits to the ledger to open an account was asked for by   *)
(* the user it opens the account for, and is paid by GoMint or from an     *)
(* account opened with a key that was generated for a call of that user's. *)
TransactionsTraced ==
  \A r \in Creations :
    tx[r].status # "unsent" =>
      /\ MadeBy(r, creq[r].user)
      /\ tx[r].payer = GoMint \/
         \E k \in Creations :
           gmKeys[k].saved /\ chain[k] = tx[r].payer /\ MadeBy(k, creq[r].user)

(* Every registered account has a key that was generated for a call of its *)
(* own user's.                                                             *)
RowsTraced ==
  \A a \in AccountIds :
    Registered(a) =>
      \E k \in KeysOf(a) : MadeBy(k, gmAccounts[a].user)

(* A registered row only changes by a call of the user it is registered to.*)
RowChangesTraced ==
  [][\A a \in AccountIds :
       Registered(a) /\ gmAccounts'[a] # gmAccounts[a] =>
         \E u \in Updates :
           /\ upc[u] = "update" /\ upc'[u] # "update"
           /\ MadeBy(u, gmAccounts[a].user)]_apiVars

-----------------------------------------------------------------------------
(* The bookkeeping behind these, an inductive invariant.                   *)

(* A route is called with the requests it is declared for.                 *)
RoutesRespected == \A c \in Calls : apc[c] # "new" => req[c] \in AuthBodies[c]

(* A handler runs for the user its guard found, and for nobody before that.*)
HandlersActForCaller ==
  /\ \A r \in Creations :
       pc[r] # "new" =>
         /\ apc[r] = "admitted" /\ req[r].op \in GuardedOps
         /\ creq[r].user = caller[r]
  /\ \A u \in Updates :
       upc[u] # "new" =>
         /\ apc[u] = "admitted" /\ req[u].op \in GuardedOps
         /\ ureq[u].user = caller[u]

ApiBookkeeping == RoutesRespected /\ HandlersActForCaller

=============================================================================
