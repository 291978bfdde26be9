--------------------------- MODULE AccountService ---------------------------
(***************************************************************************)
(* POST /account and PATCH /account/:accountId of the GoMint API:          *)
(* AccountService.createAccount and AccountMediator.update, with the parts *)
(* of KeyService and ClientService they call, the tables gm_keys and       *)
(* gm_accounts, and the Hedera ledger as the handlers see it.              *)
(*                                                                         *)
(* The API is one Node process: a handler runs without interruption from   *)
(* one await to the next, and any number of handlers interleave there.     *)
(* A stage names the call a handler is waiting for; the action of a stage  *)
(* is the call taking effect and the code up to the next await.            *)
(***************************************************************************)
EXTENDS Naturals, FiniteSets, NodeProcess, EscrowKeys

CONSTANTS
  Users,             \* rows of the users table
  Networks,          \* MAINNET and TESTNET
  network,           \* the network a user signed up for
  Creations,         \* calls of createAccount; also names the key each one generates
  Bodies,            \* the requests they may carry
  Updates,           \* calls of AccountMediator.update
  Renames,           \* the requests they may carry
  Aliases,           \* aliases that do not read as an account id
  LongAliases,       \* those longer than the 255 characters of the column
  MaxAccountId       \* bound on the account ids a network hands out

GoMint == 0          \* the payer of a free account
NoAccount == 0       \* the null of gm_keys.accountId; a creation without account

AccountIds == 1 .. MaxAccountId
AliasStrings == Aliases \cup AccountIds    \* a user may choose '0.0.n' as an alias

Body ==
  [user: Users, alias: AliasStrings \cup {None}, payerId: AliasStrings \cup {None},
   header: Headers, funded: BOOLEAN]

Rename == [user: Users, id: AccountIds, alias: AliasStrings]

ASSUME ConstantsAssumption ==
  /\ network \in [Users -> Networks]
  /\ hasEncryptionKey \in [Users -> BOOLEAN]
  /\ Bodies \subseteq Body
  /\ Renames \subseteq Rename
  /\ MaxAccountId \in Nat
  /\ Concurrency \in Nat
  /\ Faults \in BOOLEAN
  /\ Creations \cap Updates = {}
  /\ None \notin Users /\ None \notin Bodies /\ None \notin Renames
  /\ None \notin AliasStrings
  /\ LongAliases \subseteq Aliases
  /\ \A l, m, n \in Networks : l = m \/ m = n \/ l = n

VARIABLES
  creq,              \* the request of each creation
  pc,                \* its stage, or its answer
  owns,              \* accountCount # 0 as the handler read it
  escrow,            \* the escrow key it decrypted
  payer,             \* the account that pays, GoMint if free
  found,             \* the row and its keys as save() read them
  gmKeys,            \* table gm_keys
  gmAccounts,        \* table gm_accounts
  tx,                \* the AccountCreateTransaction of each creation
  chain,             \* the ledger: the account each generated key controls
  nextId,            \* the ledger: the next account id of each network
  ureq, upc,         \* request and stage of each update
  uold               \* oldAccount.alias as the mediator read it

locals == <<owns, escrow, payer, found>>
tables == <<gmKeys, gmAccounts>>
ledger == <<tx, chain, nextId>>
creations == <<creq, pc, locals>>
updates == <<ureq, upc, uold>>
vars == <<creq, pc, owns, escrow, payer, found, gmKeys, gmAccounts, tx, chain, nextId,
          ureq, upc, uold>>

Stages ==
  {"count", "alias", "payer", "saveKey", "submit", "receipt", "saveAccount",
   "writeAccount"}
Answers ==
  {"created", "NoPayerIdError", "AccountAliasAlreadyExistsError",
   "EncryptionKeyNotProvidedError", "DecryptionFailedError",
   "AccountNotFoundError", "unavailable", "crashed"}

UpdateStages == {"find", "update"}
UpdateAnswers == {"updated", "AccountNotFoundError", "unavailable", "crashed"}

NoTx == [status |-> "unsent", payer |-> GoMint, funded |-> FALSE]
NoKey == [saved |-> FALSE, escrow |-> "good", account |-> NoAccount]
NotFound == [user |-> None, alias |-> None, keys |-> {}]

Registry == INSTANCE AccountRegistry WITH
  Accounts <- AccountIds, Names <- AliasStrings, rows <- gmAccounts

TypeOK ==
  /\ creq \in [Creations -> Bodies \cup {None}]
  /\ pc \in [Creations -> {"new"} \cup Stages \cup Answers]
  /\ \A r \in Creations : pc[r] # "new" => creq[r] \in Bodies
  /\ owns \in [Creations -> BOOLEAN]
  /\ escrow \in [Creations -> EscrowKeys]
  /\ payer \in [Creations -> {GoMint} \cup AccountIds]
  /\ found \in [Creations -> [user: Users \cup {None}, alias: AliasStrings \cup {None},
                              keys: SUBSET Creations]]
  /\ gmKeys \in [Creations -> [saved: BOOLEAN, escrow: EscrowKeys,
                               account: {NoAccount} \cup AccountIds]]
  /\ gmAccounts \in [AccountIds -> [user: Users \cup {None},
                                    alias: AliasStrings \cup {None}]]
  /\ tx \in [Creations -> [status: {"unsent", "pending", "settled"},
                           payer: {GoMint} \cup AccountIds, funded: BOOLEAN]]
  /\ chain \in [Creations -> {NoAccount} \cup AccountIds]
  /\ \A r \in Creations : pc[r] = "saveAccount" => chain[r] # NoAccount
  /\ nextId \in [Networks -> 1 .. MaxAccountId + 1]
  /\ ureq \in [Updates -> Renames \cup {None}]
  /\ upc \in [Updates -> {"new"} \cup UpdateStages \cup UpdateAnswers]
  /\ \A u \in Updates : upc[u] # "new" => ureq[u] \in Renames
  /\ uold \in [Updates -> AliasStrings \cup {None}]

Init ==
  /\ creq = [r \in Creations |-> None]
  /\ pc = [r \in Creations |-> "new"]
  /\ owns = [r \in Creations |-> FALSE]
  /\ escrow = [r \in Creations |-> "good"]
  /\ payer = [r \in Creations |-> GoMint]
  /\ found = [r \in Creations |-> NotFound]
  /\ gmKeys = [r \in Creations |-> NoKey]
  /\ Registry!Init
  /\ tx = [r \in Creations |-> NoTx]
  /\ chain = [r \in Creations |-> NoAccount]
  /\ nextId = [n \in Networks |-> 1]
  /\ ureq = [u \in Updates |-> None]
  /\ upc = [u \in Updates |-> "new"]
  /\ uold = [u \in Updates |-> None]

-----------------------------------------------------------------------------
(* Reading the tables.                                                     *)

UserOf(r) == creq[r].user
Registered(a) == Registry!Registered(a)
AccountsOf_AnyUser(u) == {a \in AccountIds : Registered(a)}
AccountsOf(u) == {a \in AccountIds : gmAccounts[a].user = u}
KeysOf(a) == {k \in Creations : gmKeys[k].saved /\ gmKeys[k].account = a}

(* accountAliasExists: TypeORM drops a where clause whose value is         *)
(* undefined, so without an alias any account of the user is a match.      *)
AccountAliasExists(u, alias) ==
  \E a \in AccountsOf(u) : alias \in {None, gmAccounts[a].alias}

(* getUserAccountByAlias: by id, whoever owns it, when the argument reads  *)
(* as an account id; otherwise any account of the user with that alias.    *)
UserAccountByAlias(u, ref) ==
  IF ref \in AccountIds
  THEN {a \in {ref} : Registered(a)}
  ELSE {a \in AccountsOf(u) : gmAccounts[a].alias = ref}

CanSignFor_Undecrypted(r, a) == KeysOf(a) # {}

(* decryptAccountKeys and keys[0]: a client can be built for account a iff *)
(* a has keys and every one was encrypted under the escrow key at hand.    *)
CanSignFor(r, a) ==
  /\ KeysOf(a) # {}
  /\ \A k \in KeysOf(a) :
       UserOf(k) = UserOf(r) /\ Decrypts(escrow[r], gmKeys[k].escrow)

-----------------------------------------------------------------------------
(* AccountService.createAccount                                            *)

Live(r) == pc[r] \in Stages
UpdateLive(u) == upc[u] \in UpdateStages
InFlight == {r \in Creations : Live(r)} \cup {u \in Updates : UpdateLive(u)}

Goto(r, stage) == pc' = [pc EXCEPT ![r] = stage]

(* A call that has taken effect, whose answer may still get lost.          *)
Acknowledge(r, stage) ==
  Goto(r, stage) \/ (Faults /\ Goto(r, "unavailable"))

Arrive(r) ==
  /\ pc[r] = "new"
  /\ Cardinality(InFlight) < Concurrency
  /\ \E body \in Bodies : creq' = [creq EXCEPT ![r] = body]
  /\ Goto(r, "count")
  /\ UNCHANGED <<locals, tables, ledger, updates>>

Count(r) ==
  /\ pc[r] = "count"
  /\ LET some == AccountsOf(UserOf(r)) # {} IN
       /\ owns' = [owns EXCEPT ![r] = some]
       /\ Goto(r, IF some /\ creq[r].payerId = None
                  THEN "NoPayerIdError" ELSE "alias")
  /\ UNCHANGED <<creq, escrow, payer, found, tables, ledger, updates>>

AliasRejected(r) ==
  /\ pc[r] = "alias"
  /\ AccountAliasExists(UserOf(r), creq[r].alias)
  /\ Goto(r, "AccountAliasAlreadyExistsError")
  /\ UNCHANGED <<creq, locals, tables, ledger, updates>>

EscrowDenied(r) ==
  /\ pc[r] = "alias"
  /\ ~AccountAliasExists(UserOf(r), creq[r].alias)
  /\ LET key == DecryptUserEscrowKey(UserOf(r), creq[r].header) IN
       key \in EscrowErrors /\ Goto(r, key)
  /\ UNCHANGED <<creq, locals, tables, ledger, updates>>

AliasFree(r) ==
  /\ pc[r] = "alias"
  /\ ~AccountAliasExists(UserOf(r), creq[r].alias)
  /\ LET key == DecryptUserEscrowKey(UserOf(r), creq[r].header) IN
       key \notin EscrowErrors /\ escrow' = [escrow EXCEPT ![r] = key]
  /\ Goto(r, IF owns[r] THEN "payer" ELSE "saveKey")
  /\ UNCHANGED <<creq, owns, payer, found, tables, ledger, updates>>

PayerMissing_Retried(r) ==
  /\ pc[r] = "payer"
  /\ UserAccountByAlias(UserOf(r), creq[r].payerId) = {}
  /\ UNCHANGED vars

PayerMissing(r) ==
  /\ pc[r] = "payer"
  /\ UserAccountByAlias(UserOf(r), creq[r].payerId) = {}
  /\ Goto(r, "AccountNotFoundError")
  /\ UNCHANGED <<creq, locals, tables, ledger, updates>>

PayerUnusable(r) ==
  /\ pc[r] = "payer"
  /\ \E a \in UserAccountByAlias(UserOf(r), creq[r].payerId) : ~CanSignFor(r, a)
  /\ \/ Goto(r, "DecryptionFailedError")
     \/ Goto(r, "unavailable")       \* padding valid by chance, but no key in it
  /\ UNCHANGED <<creq, locals, tables, ledger, updates>>

LoadPayer(r) ==
  /\ pc[r] = "payer"
  /\ \E a \in UserAccountByAlias(UserOf(r), creq[r].payerId) :
       CanSignFor(r, a) /\ payer' = [payer EXCEPT ![r] = a]
  /\ Goto(r, "saveKey")
  /\ UNCHANGED <<creq, owns, escrow, found, tables, ledger, updates>>

SaveKey_Deferred(r) ==
  /\ pc[r] = "saveKey"
  /\ Goto(r, "submit")
  /\ UNCHANGED <<creq, locals, tables, ledger, updates>>

(* With the key stored, the transaction is built; a balance or a staked    *)
(* account the SDK cannot read is only noticed then.                       *)
SaveKey(r) ==
  /\ pc[r] = "saveKey"
  /\ gmKeys' = [gmKeys EXCEPT ![r] =
       [saved |-> TRUE, escrow |-> escrow[r], account |-> NoAccount]]
  /\ Goto(r, "submit") \/ Goto(r, "unavailable")
  /\ UNCHANGED <<creq, locals, gmAccounts, ledger, updates>>

Submit_KeepsBalance(r) ==
  /\ pc[r] = "submit"
  /\ tx' = [tx EXCEPT ![r] =
       [status |-> "pending", payer |-> payer[r], funded |-> creq[r].funded]]
  /\ Acknowledge(r, "receipt")
  /\ UNCHANGED <<creq, locals, tables, chain, nextId, updates>>

Submit(r) ==
  /\ pc[r] = "submit"
  /\ tx' = [tx EXCEPT ![r] =
       [status |-> "pending", payer |-> payer[r],
        funded |-> owns[r] /\ creq[r].funded]]
  /\ Acknowledge(r, "receipt")
  /\ UNCHANGED <<creq, locals, tables, chain, nextId, updates>>

Receipt_NotAwaited(r) ==
  /\ pc[r] = "receipt"
  /\ Goto(r, IF chain[r] = NoAccount THEN "unavailable" ELSE "saveAccount")
  /\ UNCHANGED <<creq, locals, tables, ledger, updates>>

Receipt(r) ==
  /\ pc[r] = "receipt"
  /\ tx[r].status = "settled"
  /\ Goto(r, IF chain[r] = NoAccount THEN "unavailable" ELSE "saveAccount")
  /\ UNCHANGED <<creq, locals, tables, ledger, updates>>

(* save() reads the row of that id, if there is one, and the keys linked   *)
(* to it.                                                                  *)
LoadRow(r) ==
  /\ pc[r] = "saveAccount"
  /\ LET a == chain[r] IN
       found' = [found EXCEPT ![r] =
         IF Registered(a)
         THEN [user |-> gmAccounts[a].user, alias |-> gmAccounts[a].alias,
               keys |-> KeysOf(a)]
         ELSE NotFound]
  /\ Goto(r, "writeAccount")
  /\ UNCHANGED <<creq, owns, escrow, payer, tables, ledger, updates>>

AliasOf(r) == IF creq[r].alias = None THEN chain[r] ELSE creq[r].alias

(* The alias fits its column, and a row that was not there is not there    *)
(* yet when it is inserted.                                                *)
Writable(r) ==
  /\ creq[r].alias \notin LongAliases
  /\ found[r].user = None => ~Registered(chain[r])

SaveAccount_Inserts(r) ==
  /\ pc[r] = "writeAccount"
  /\ Writable(r)
  /\ gmAccounts' = [gmAccounts EXCEPT ![chain[r]] =
       [user |-> UserOf(r), alias |-> AliasOf(r)]]
  /\ gmKeys' = [gmKeys EXCEPT ![r].account = chain[r]]
  /\ Acknowledge(r, "created")
  /\ UNCHANGED <<creq, locals, ledger, updates>>

SaveAccount_Unlinked(r) ==
  /\ pc[r] = "writeAccount"
  /\ Writable(r)
  /\ gmAccounts' = [gmAccounts EXCEPT ![chain[r]] =
       [user |-> UserOf(r), alias |-> AliasOf(r)]]
  /\ Acknowledge(r, "created")
  /\ UNCHANGED <<creq, locals, gmKeys, ledger, updates>>

SaveAccount_Undefaulted(r) ==
  /\ pc[r] = "writeAccount"
  /\ Writable(r)
  /\ gmAccounts' = [gmAccounts EXCEPT ![chain[r]] =
       [user |-> UserOf(r), alias |-> creq[r].alias]]
  /\ gmKeys' = [k \in Creations |-> [gmKeys[k] EXCEPT !.account =
       IF k = r THEN chain[r] ELSE IF k \in found[r].keys THEN NoAccount ELSE @]]
  /\ Acknowledge(r, "created")
  /\ UNCHANGED <<creq, locals, ledger, updates>>

(* Then, in one transaction, it inserts the row or updates the columns     *)
(* that differ from what it read (the user's always do: the row can only   *)
(* be of another network), links the new key and unlinks the keys it read. *)
SaveAccount(r) ==
  /\ pc[r] = "writeAccount"
  /\ Writable(r)
  /\ gmAccounts' = [gmAccounts EXCEPT ![chain[r]] =
       [user |-> UserOf(r),
        alias |-> IF found[r].alias = AliasOf(r) THEN @.alias ELSE AliasOf(r)]]
  /\ gmKeys' = [k \in Creations |-> [gmKeys[k] EXCEPT !.account =
       IF k = r THEN chain[r] ELSE IF k \in found[r].keys THEN NoAccount ELSE @]]
  /\ Acknowledge(r, "created")
  /\ UNCHANGED <<creq, locals, ledger, updates>>

(* The database refuses an alias that is too long, and the second insert   *)
(* of an id.                                                               *)
RowRefused(r) ==
  /\ pc[r] = "writeAccount"
  /\ ~Writable(r)
  /\ Goto(r, "unavailable")
  /\ UNCHANGED <<creq, locals, tables, ledger, updates>>

(* The call a handler waits for fails without effect.                      *)
CallFails(r) ==
  /\ Faults
  /\ Live(r)
  /\ Goto(r, "unavailable")
  /\ UNCHANGED <<creq, locals, tables, ledger, updates>>

CreateStep(r) ==
  \/ Count(r) \/ AliasRejected(r) \/ EscrowDenied(r) \/ AliasFree(r)
  \/ PayerMissing(r) \/ PayerUnusable(r) \/ LoadPayer(r)
  \/ SaveKey(r) \/ Submit(r) \/ Receipt(r)
  \/ LoadRow(r) \/ SaveAccount(r) \/ RowRefused(r) \/ CallFails(r)

-----------------------------------------------------------------------------
(* AccountMediator.update                                                  *)

UGoto(u, stage) == upc' = [upc EXCEPT ![u] = stage]

ArriveUpdate(u) ==
  /\ upc[u] = "new"
  /\ Cardinality(InFlight) < Concurrency
  /\ \E rename \in Renames : ureq' = [ureq EXCEPT ![u] = rename]
  /\ UGoto(u, "find")
  /\ UNCHANGED <<creations, tables, ledger, uold>>

GetUserAccountById(u) ==
  /\ upc[u] = "find"
  /\ IF ureq[u].id \in AccountsOf(ureq[u].user)
     THEN UGoto(u, "update") /\ uold' = [uold EXCEPT ![u] = gmAccounts[ureq[u].id].alias]
     ELSE UGoto(u, "AccountNotFoundError") /\ UNCHANGED uold
  /\ UNCHANGED <<creations, tables, ledger, ureq>>

AliasTooLong(u) ==
  /\ upc[u] = "update"
  /\ ureq[u].id \in AccountsOf(ureq[u].user) /\ ureq[u].alias \in LongAliases
  /\ UGoto(u, "unavailable")
  /\ UNCHANGED <<creations, tables, ledger, ureq, uold>>

UpdateAlias(u) ==
  /\ upc[u] = "update"
  /\ ureq[u].id \in AccountsOf(ureq[u].user) => ureq[u].alias \notin LongAliases
  /\ IF ureq[u].id \in AccountsOf(ureq[u].user)
     THEN /\ gmAccounts' = [gmAccounts EXCEPT ![ureq[u].id].alias = ureq[u].alias]
          /\ UGoto(u, "updated") \/ (Faults /\ UGoto(u, "unavailable"))
     ELSE UGoto(u, "AccountNotFoundError") /\ UNCHANGED gmAccounts
  /\ UNCHANGED <<creations, gmKeys, ledger, ureq, uold>>

UpdateFails(u) ==
  /\ Faults
  /\ UpdateLive(u)
  /\ UGoto(u, "unavailable")
  /\ UNCHANGED <<creations, tables, ledger, ureq, uold>>

UpdateStep(u) ==
  GetUserAccountById(u) \/ AliasTooLong(u) \/ UpdateAlias(u) \/ UpdateFails(u)

-----------------------------------------------------------------------------
(* The ledger, the process, and the whole system.                          *)

OpenAccount(r) ==
  LET n == network[UserOf(r)] IN
  /\ tx[r].status = "pending"
  /\ nextId[n] \in AccountIds
  /\ tx' = [tx EXCEPT ![r].status = "settled"]
  /\ chain' = [chain EXCEPT ![r] = nextId[n]]
  /\ nextId' = [nextId EXCEPT ![n] = @ + 1]
  /\ UNCHANGED <<creations, tables, updates>>

(* An unpaid fee, an expired transaction, a balance the payer lacks.       *)
RejectTx(r) ==
  /\ tx[r].status = "pending"
  /\ tx' = [tx EXCEPT ![r].status = "settled"]
  /\ UNCHANGED <<creations, tables, chain, nextId, updates>>

Settle(r) == OpenAccount(r) \/ RejectTx(r)

(* The process dies with its handlers; what was submitted is not recalled. *)
Crash ==
  /\ Faults
  /\ InFlight # {}
  /\ pc' = [r \in Creations |-> IF Live(r) THEN "crashed" ELSE pc[r]]
  /\ upc' = [u \in Updates |-> IF UpdateLive(u) THEN "crashed" ELSE upc[u]]
  /\ UNCHANGED <<creq, locals, tables, ledger, ureq, uold>>

(* Every call has been made and answered, every transaction settled.       *)
Quiescent ==
  /\ \A r \in Creations : pc[r] \in Answers /\ tx[r].status # "pending"
  /\ \A u \in Updates : upc[u] \in UpdateAnswers
  /\ UNCHANGED vars

Next ==
  \/ \E r \in Creations : Arrive(r) \/ CreateStep(r) \/ Settle(r)
  \/ \E u \in Updates : ArriveUpdate(u) \/ UpdateStep(u)
  \/ Crash
  \/ Quiescent

Spec == Init /\ [][Next]_vars

(* Every awaited call of the database driver and of the SDK returns or     *)
(* times out, and the ledger settles or drops what it was sent.            *)
Fairness ==
  /\ \A r \in Creations : WF_vars(CreateStep(r)) /\ WF_vars(Settle(r))
  /\ \A u \in Updates : WF_vars(UpdateStep(u))

FairSpec == Spec /\ Fairness

-----------------------------------------------------------------------------
(* Safety.                                                                 *)

OneNetwork == \A u, v \in Users : network[u] = network[v]

(* createAccount stores the generated key before it submits the            *)
(* transaction that hands the key an account: whatever fails afterwards,   *)
(* the key of an account that exists on the ledger is never lost.          *)
KeyBeforeAccount ==
  \A r \in Creations :
    tx[r].status # "unsent" \/ chain[r] # NoAccount => gmKeys[r].saved

(* gm_keys.accountId never points to an account the key does not control,  *)
(* or that is registered to another user than the key's.                   *)
LinkSound ==
  \A k \in Creations :
    gmKeys[k].account # NoAccount =>
      /\ gmKeys[k].saved
      /\ chain[k] = gmKeys[k].account
      /\ gmAccounts[chain[k]].user = UserOf(k)

(* A registered account has a key, so that the keys[0] with which clients  *)
(* and signers are built is never undefined.                               *)
RowHasKey == \A a \in AccountIds : Registered(a) => KeysOf(a) # {}

(* The payer is looked up by id without a user filter; that only keys      *)
(* decrypting under the caller's escrow key can sign makes up for it: a    *)
(* user's account creation is paid by GoMint or by an account the user     *)
(* holds the key of.                                                       *)
PayerIsOwn ==
  \A r \in Creations :
    tx[r].status # "unsent" /\ tx[r].payer # GoMint =>
      \E k \in Creations :
        /\ gmKeys[k].saved
        /\ UserOf(k) = UserOf(r)
        /\ chain[k] = tx[r].payer

(* "we don't want to be transferring any balance to users": what GoMint    *)
(* pays for starts empty, and the count that decided who pays is the one   *)
(* that resets the balance.                                                *)
GoMintNeverFunds ==
  \A r \in Creations :
    tx[r].status # "unsent" /\ tx[r].payer = GoMint => ~tx[r].funded

(* A caller that was given an account id finds the account registered to   *)
(* it and linked to the key that controls it, whatever others did since.   *)
AcknowledgedAccountUsable ==
  \A r \in Creations :
    pc[r] = "created" =>
      /\ gmAccounts[chain[r]].user = UserOf(r)
      /\ gmKeys[r].account = chain[r]

(* The row of the account opened for r is not written: its alias is too    *)
(* long, or the account of that id on the other network was registered.    *)
Unwritable(r) ==
  \/ creq[r].alias \in LongAliases
  \/ \E s \in Creations \ {r} : gmKeys[s].account = chain[r]

(* Without faults, an error answered by createAccount means that nothing   *)
(* was opened, and charged for, on the ledger, but for the two rows the    *)
(* database refuses.                                                       *)
ErrorMeansNoAccount ==
  \A r \in Creations :
    pc[r] \in Answers \ {"created"} => chain[r] = NoAccount \/ Unwritable(r)

(* "save account and attach user and key": what the ledger has opened is   *)
(* registered, and not answered with an error.                             *)
OpenedIsSaved ==
  \A r \in Creations :
    pc[r] \in Answers \ {"created"} => chain[r] = NoAccount

(* Only the first account of a user is free.                               *)
FreeAccountOnce ==
  \A r, s \in Creations :
    /\ chain[r] # NoAccount /\ tx[r].payer = GoMint
    /\ chain[s] # NoAccount /\ tx[s].payer = GoMint
    /\ UserOf(r) = UserOf(s)
    => r = s

(* An alias names one account of its user, which getUserAccountByAlias and *)
(* getUserAccountIdByAlias rely on when they take the first match.         *)
AliasUnambiguous ==
  \A a, b \in AccountIds :
    /\ Registered(a)
    /\ gmAccounts[a].user = gmAccounts[b].user
    /\ gmAccounts[a].alias = gmAccounts[b].alias
    => a = b

(* getUserAccountByAlias, given the alias of an account, returns it.       *)
AliasResolves ==
  \A a \in AccountIds :
    Registered(a) =>
      UserAccountByAlias(gmAccounts[a].user, gmAccounts[a].alias) = {a}

(* What attachUserToKey stores under a user's escrow key can be decrypted  *)
(* with it.                                                                *)
KeysReadable ==
  \A k \in Creations : gmKeys[k].saved => gmKeys[k].escrow = "good"

(* The alias of a creation is optional: without one, a call that is        *)
(* entitled to an account is not refused for an alias it does not have.    *)
OptionalAlias ==
  \A r \in Creations :
    pc[r] = "AccountAliasAlreadyExistsError" => creq[r].alias # None

-----------------------------------------------------------------------------
(* The bookkeeping behind these, an inductive invariant.                   *)

BeforeKey == {"new", "count", "alias", "payer", "saveKey"}

(* How far a handler is tells what the table of keys and the ledger hold   *)
(* of its creation, and an account is only opened by a settled transaction.*)
HandlerPhases ==
  \A r \in Creations :
    /\ pc[r] \in BeforeKey => ~gmKeys[r].saved
    /\ pc[r] \in BeforeKey \cup {"submit"} => tx[r].status = "unsent"
    /\ pc[r] \in {"submit", "receipt", "saveAccount", "writeAccount", "created"}
       => gmKeys[r].saved
    /\ pc[r] \in {"saveAccount", "writeAccount", "created"} => chain[r] # NoAccount
    /\ pc[r] \in {"new"} \cup Stages => gmKeys[r].account = NoAccount
    /\ chain[r] # NoAccount => tx[r].status = "settled"

(* What createAccount decides about the payer, from the count to the       *)
(* transaction.                                                            *)
PayerDecided ==
  \A r \in Creations :
    /\ pc[r] \in {"new", "count", "alias"} => payer[r] = GoMint
    /\ pc[r] \in {"saveKey", "submit"} /\ payer[r] = GoMint => ~owns[r]
    /\ tx[r].status # "unsent" => tx[r].payer = payer[r]

(* The payer it read is still the user's when the transaction is sent.     *)
PayerHeld ==
  \A r \in Creations :
    payer[r] # GoMint =>
      \E k \in Creations :
        gmKeys[k].saved /\ UserOf(k) = UserOf(r) /\ chain[k] = payer[r]

(* A network hands out an account id once.                                 *)
IdsFresh ==
  \A r \in Creations :
    chain[r] # NoAccount => chain[r] < nextId[network[UserOf(r)]]

IdsUnique ==
  \A r, s \in Creations :
    /\ chain[r] # NoAccount
    /\ chain[r] = chain[s]
    /\ network[UserOf(r)] = network[UserOf(s)]
    => r = s

(* A row save() found is still linked to the keys it read when it writes:  *)
(* the id repeats on one other network only.                               *)
FoundSound ==
  \A r \in Creations :
    /\ found[r].user = None => found[r] = NotFound
    /\ pc[r] = "writeAccount" /\ found[r].user # None =>
         Registered(chain[r]) /\ KeysOf(chain[r]) = found[r].keys

Bookkeeping ==
  /\ TypeOK
  /\ HandlerPhases
  /\ KeyBeforeAccount
  /\ LinkSound
  /\ RowHasKey
  /\ PayerDecided
  /\ PayerHeld
  /\ GoMintNeverFunds
  /\ IdsFresh
  /\ IdsUnique
  /\ FoundSound

-----------------------------------------------------------------------------
(* Steps.                                                                  *)

(* A registered account never changes hands, and its alias changes only by *)
(* an update its own user asked for.                                       *)
RowsChangeByTheirUser ==
  [][\A a \in AccountIds :
       Registered(a) /\ gmAccounts'[a] # gmAccounts[a] =>
         \E u \in Updates :
           /\ upc[u] = "update" /\ upc'[u] # "update"
           /\ ureq[u].id = a
           /\ ureq[u].user = gmAccounts[a].user
           /\ gmAccounts'[a] = [gmAccounts[a] EXCEPT !.alias = ureq[u].alias]]_vars

(* The old account an update answers with is the one it replaced.          *)
OldAliasReturned ==
  [][\A u \in Updates :
       upc[u] = "update" /\ upc'[u] = "updated" =>
         uold[u] = gmAccounts[ureq[u].id].alias]_vars

-----------------------------------------------------------------------------
(* What GoMint promises about keys.                                        *)

Custody == INSTANCE KeyCustody WITH
  Keys <- Creations,
  vault <- {k \in Creations : gmKeys[k].saved},
  opened <- {k \in Creations : chain[k] # NoAccount},
  registered <- {k \in Creations : gmKeys[k].account # NoAccount}

CustodySpec == Custody!Spec

(* What the handlers of deals and tokens take for granted of gm_accounts.  *)
RegistrySpec == Registry!Spec

-----------------------------------------------------------------------------
(* Liveness.                                                               *)

(* Every call is answered.                                                 *)
Answered ==
  /\ \A r \in Creations : pc[r] # "new" ~> pc[r] \in Answers
  /\ \A u \in Updates : upc[u] # "new" ~> upc[u] \in UpdateAnswers

(* Without faults, what the ledger opened gets registered: its key is      *)
(* linked at some time, though another network may take the row over, or   *)
(* the database refuses the row.                                           *)
LedgerAccountRegistered ==
  \A r \in Creations :
    <>(chain[r] # NoAccount) =>
      <>(/\ chain[r] # NoAccount
         /\ \/ gmKeys[r].account = chain[r]
            \/ pc[r] = "unavailable" /\ Unwritable(r))
=============================================================================
