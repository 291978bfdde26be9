----------------------------- MODULE TokenService ----------------------------
(***************************************************************************)
(* POST /token, POST /token/mint and the two routes that associate tokens: *)
(* the handlers of FtService, NftService, TokenService and AccountService, *)
(* the construction of their transactions by HederaTokenApiService, and    *)
(* the client of IPFS that the uploads of one process share.               *)
(*                                                                         *)
(* Every registered account has one key, stored under the escrow key of    *)
(* its user, and ids are those of one network: what AccountService proves  *)
(* for users of one network.  A stage names the await a handler is in.     *)
(***************************************************************************)
EXTENDS Naturals, Sequences, EscrowKeys

CONSTANTS
  Users,             \* rows of the users table
  Accounts,          \* account ids, '0.0.n'
  Aliases,           \* names that do not read as an account id
  Rows,              \* accounts that may be registered: [id, user, alias]
  Renames,           \* aliases an account may be given: [id, alias]
  Texts,             \* metadata: strings
  Hip412, Hip766,    \* objects with the keys of one standard or the other
  Tokens,            \* tokens the ledger has from the start
  supplyKeyOf,       \* the account whose key may mint them, None if no key may
  Calls,             \* calls of the handlers; also names the token each creates
  Bodies,            \* the requests they may carry
  Faults,            \* whether calls fail, answers get lost and the process crashes
  None               \* undefined, null

Refs == Accounts \cup Aliases
TokenIds == Tokens \cup Calls
Objects == Hip412 \cup Hip766
Contents == Texts \cup Objects

Creates == {"createFt", "createNft"}
Mints == {"mintFt", "mintNft"}
Ops == {"account/association", "token/association"} \cup Creates \cup Mints

(* A public key is named by its account; "default" stands for the treasury,*)
(* and a key that does not parse is "malformed".                           *)
SupplyKeys == Accounts \cup {"default", "malformed", None}

(* account is associatingId or treasuryAccountId; fees lists the collectors*)
(* of the fixed, fractional, royalty and fallback fees, and unpriced says  *)
(* that one of them names a token and no amount.                           *)
Body ==
  [op: Ops, user: Users, header: Headers, payerId: Refs \cup {None},
   account: Refs, token: TokenIds \cup {None},
   fees: Seq(Refs), unpriced: BOOLEAN, renew: Refs \cup {None},
   supplyKey: SupplyKeys, initialSupply: Nat \cup {None},
   maxSupply: Nat \cup {None}, finite: BOOLEAN,
   amount: Nat, metadata: Contents \cup {None}, metadatas: Seq(Contents)]

ASSUME ConstantsAssumption ==
  /\ hasEncryptionKey \in [Users -> BOOLEAN]
  /\ Accounts \cap Aliases = {}
  /\ {"default", "malformed"} \cap Accounts = {}
  /\ Rows \subseteq [id: Accounts, user: Users, alias: Aliases]
  /\ Renames \subseteq [id: Accounts, alias: Aliases]
  /\ Tokens \cap Calls = {}
  /\ supplyKeyOf \in [Tokens -> Accounts \cup {None}]
  /\ Bodies \subseteq Body
  /\ \A body \in Bodies : body.op \notin Creates => body.fees = <<>>
  /\ \A body \in Bodies : body.op \in Mints => body.token \in TokenIds
  /\ Hip412 \cap Hip766 = {}
  /\ Faults \in BOOLEAN
  /\ None \notin Users \cup Refs \cup TokenIds \cup Contents \cup Bodies \cup Nat

VARIABLES
  gmAccounts,        \* table gm_accounts
  req, pc,           \* request and stage of each call
  action, payer,     \* the accounts acted on and charged, once found
  collectors,        \* the collectors of the custom fees
  lookups,           \* those whose alias is still being looked up
  client,            \* IpfsService.client: the call that built it
  space,             \* what the client built by a call has of its space
  tx,                \* the transaction of each call
  holder,            \* the ledger: the account whose key may mint a token
  supply, cap        \* the ledger: how much there is, and may be, of a token

locals == <<action, payer, collectors, lookups>>
ipfs == <<client, space>>
tokens == <<holder, supply, cap>>
vars == <<gmAccounts, req, pc, action, payer, collectors, lookups, client, space,
          tx, holder, supply, cap>>

Stages ==
  {"mirror", "supply", "account", "payer", "fees", "import", "addSpace", "setSpace",
   "upload", "submit", "receipt"}
Answers ==
  {"SUCCESS", "BadRequest", "EncryptionKeyNotProvidedError", "DecryptionFailedError",
   "AccountNotFoundError", "unavailable", "crashed"}

NoTx ==
  [status |-> "unsent", account |-> None, payer |-> None, signers |-> {},
   collectors |-> <<>>, supplyKey |-> None]

Registry == INSTANCE AccountRegistry WITH Names <- Aliases, rows <- gmAccounts

TypeOK ==
  /\ gmAccounts \in [Accounts -> [user: Users \cup {None}, alias: Aliases \cup {None}]]
  /\ req \in [Calls -> Bodies \cup {None}]
  /\ pc \in [Calls -> {"new"} \cup Stages \cup Answers]
  /\ action \in [Calls -> Accounts \cup {None}]
  /\ payer \in [Calls -> Accounts \cup {None}]
  /\ collectors \in [Calls -> Seq(Refs)]
  /\ lookups \in [Calls -> SUBSET Nat]
  /\ client \in Calls \cup {None}
  /\ space \in [Calls -> {"none", "added", "current"}]
  /\ tx \in [Calls -> [status: {"unsent", "pending", "accepted", "rejected"},
                       account: Accounts \cup {None}, payer: Accounts \cup {None},
                       signers: SUBSET Accounts, collectors: Seq(Refs),
                       supplyKey: Accounts \cup {None}]]
  /\ holder \in [TokenIds -> Accounts \cup {None}]
  /\ supply \in [TokenIds -> Nat]
  /\ cap \in [TokenIds -> Nat \cup {None}]
  /\ \A c \in Calls : pc[c] # "new" => req[c] \in Bodies

Init ==
  /\ Registry!Init
  /\ req = [c \in Calls |-> None]
  /\ pc = [c \in Calls |-> "new"]
  /\ action = [c \in Calls |-> None]
  /\ payer = [c \in Calls |-> None]
  /\ collectors = [c \in Calls |-> <<>>]
  /\ lookups = [c \in Calls |-> {}]
  /\ client = None
  /\ space = [c \in Calls |-> "none"]
  /\ tx = [c \in Calls |-> NoTx]
  /\ holder = [t \in TokenIds |-> IF t \in Tokens THEN supplyKeyOf[t] ELSE None]
  /\ supply = [t \in TokenIds |-> 0]
  /\ cap = [t \in TokenIds |-> None]

-----------------------------------------------------------------------------
(* The accounts, as others register and rename them meanwhile.             *)

Registered(a) == Registry!Registered(a)
AccountsOf(user) == {a \in Accounts : gmAccounts[a].user = user}

RegisterAccount ==
  /\ \E row \in Rows : Registry!Register(row.id, row.user, row.alias)
  /\ UNCHANGED <<req, pc, locals, ipfs, tx, tokens>>

RenameAccount ==
  /\ \E rename \in Renames : Registry!Rename(rename.id, rename.alias)
  /\ UNCHANGED <<req, pc, locals, ipfs, tx, tokens>>

UserAccountIdByAlias_AnyUser(user, alias) ==
  {a \in Accounts : Registered(a) /\ gmAccounts[a].alias = alias}

UserAccountIdByAlias(user, alias) ==
  {a \in AccountsOf(user) : gmAccounts[a].alias = alias}

(* getUserAccountByAlias: by id, whoever owns it, or by alias.             *)
UserAccountByAlias(user, ref) ==
  IF ref \in Accounts
  THEN {a \in {ref} : Registered(a)}
  ELSE UserAccountIdByAlias(user, ref)

-----------------------------------------------------------------------------
(* What a request comes to.                                                *)

IsStringOrTokenCollectionMetadata(m) == m \in Texts \cup Hip766
IsStringOrTokenMetadata(m) == m \in Texts \cup Hip412

(* The validators of the two DTOs; metadata is optional in both.           *)
Invalid(body) ==
  \/ /\ body.op \in Creates
     /\ body.metadata # None /\ ~IsStringOrTokenCollectionMetadata(body.metadata)
  \/ /\ body.op \in Mints
     /\ \/ body.metadata # None /\ ~IsStringOrTokenMetadata(body.metadata)
        \/ \E i \in DOMAIN body.metadatas : ~IsStringOrTokenMetadata(body.metadatas[i])

(* The validation pipe, then the checks of TokenController.mint.           *)
Refused(body) ==
  \/ Invalid(body)
  \/ body.op = "mintFt" /\ body.amount = 0
  \/ /\ body.op = "mintNft"
     /\ body.metadatas = <<>>
     /\ body.metadata = None \/ body.amount = 0

EscrowKey(body) == DecryptUserEscrowKey(body.user, body.header)

CanSignFor_Registered(c, a) == Registered(a)

(* decryptAccountKeys yields the key of account a.                         *)
CanSignFor(c, a) ==
  Decrypts(EscrowKey(req[c]), "good") /\ gmAccounts[a].user = req[c].user

(* The legs of the fees parseCustomFeeAliases has to look up.              *)
AliasFees(fees) == {i \in DOMAIN fees : fees[i] \in Aliases}

(* createBuffersFromMetadata uploads whatever is not a string.             *)
Uploads(body) ==
  \/ body.op \in Creates /\ body.metadata \in Objects
  \/ body.op = "mintNft" /\ body.amount # 0 /\ body.metadata \notin Texts

(* In the callback of metadatas.map, createBuffersFromMetadata has lost    *)
(* its object: it throws on everything but strings.                        *)
Unbound(body) ==
  /\ body.op = "mintNft"
  /\ body.amount = 0
  /\ \E i \in DOMAIN body.metadatas : body.metadatas[i] \in Objects

(* parsePublicKeys throws at the first key that does not parse.            *)
KeyMalformed(body) == body.op \in Creates /\ body.supplyKey = "malformed"

(* What the SDK takes for an account id: the association of                *)
(* /account/association and the auto-renew account are used as they came.  *)
(* And parseFixedFee wants an amount for a fee in a token.                 *)
Malformed(body) ==
  \/ body.op = "account/association" /\ body.account \notin Accounts
  \/ body.op \in Creates /\ (body.renew \notin Accounts \cup {None} \/ body.unpriced)

-----------------------------------------------------------------------------
(* The token asked for, and what is asked of it.                           *)

Given(n) == n \notin {None, 0}
OrZero(n) == IF n = None THEN 0 ELSE n

TokenParameters_FiniteIgnored(body) ==
  [initial |-> OrZero(body.initialSupply), max |-> body.maxSupply,
   finite |-> Given(body.maxSupply)]

(* initialSupply, maxSupply and supplyType of parseCreateTransactionDto.   *)
TokenParameters(body) ==
  [initial |-> OrZero(body.initialSupply),
   max |-> IF body.finite /\ ~Given(body.maxSupply)
           THEN body.initialSupply ELSE body.maxSupply,
   finite |-> body.finite \/ Given(body.maxSupply)]

(* How many tokens a mint asks for: its amount, or one for each metadata.  *)
Quantity(body) ==
  IF body.op = "mintNft" /\ body.amount = 0 THEN Len(body.metadatas) ELSE body.amount

(* The metadata a mint of NFTs attaches: with an amount, the one metadata, *)
(* given or not.                                                           *)
Attached(body) ==
  IF body.amount # 0 THEN {body.metadata}
  ELSE {body.metadatas[i] : i \in DOMAIN body.metadatas}

-----------------------------------------------------------------------------
(* The stages that follow on each other.                                   *)

Live(c) == pc[c] \in Stages
Goto(c, stage) == pc' = [pc EXCEPT ![c] = stage]

(* A call that has taken effect, whose answer may still get lost.          *)
Acknowledge(c, stage) == Goto(c, stage) \/ (Faults /\ Goto(c, "unavailable"))

Assembled(body) == IF Malformed(body) THEN "unavailable" ELSE "submit"

AfterInit(body) ==
  IF Uploads(body) THEN "upload"
  ELSE IF Unbound(body) THEN "unavailable" ELSE Assembled(body)

WithClient(body) == IF client = None THEN "import" ELSE AfterInit(body)

AfterFees(body) ==
  IF KeyMalformed(body) THEN "unavailable"
  ELSE IF body.op = "mintNft" \/ Uploads(body) THEN WithClient(body) ELSE Assembled(body)

AfterBuild(body) ==
  IF AliasFees(body.fees) # {} THEN "fees" ELSE AfterFees(body)

(* buildClientAndSigningKeys, and the code up to the next await.           *)
Build(c, accounts) ==
  IF \A a \in accounts : CanSignFor(c, a)
  THEN Goto(c, AfterBuild(req[c]))
  ELSE Goto(c, "DecryptionFailedError") \/ Goto(c, "unavailable")

-----------------------------------------------------------------------------
(* The handlers.                                                           *)

Arrive(c) ==
  /\ pc[c] = "new"
  /\ \E body \in Bodies :
       /\ req' = [req EXCEPT ![c] = body]
       /\ collectors' = [collectors EXCEPT ![c] = body.fees]
       /\ lookups' = [lookups EXCEPT ![c] = AliasFees(body.fees)]
       /\ Goto(c, IF Refused(body) THEN "BadRequest"
                  ELSE IF EscrowKey(body) \in EscrowErrors
                  THEN EscrowKey(body)
                  ELSE IF body.op \in Mints THEN "mirror" ELSE "account")
  /\ UNCHANGED <<gmAccounts, action, payer, ipfs, tx, tokens>>

(* The mirror node knows the supply key of the token.                      *)
MirrorKnows(c) ==
  /\ pc[c] = "mirror"
  /\ holder[req[c].token] # None
  /\ Goto(c, "supply")
  /\ UNCHANGED <<gmAccounts, req, locals, ipfs, tx, tokens>>

(* No such token or key, or none yet: the mirror node lags the ledger.     *)
MirrorLacks(c) ==
  /\ pc[c] = "mirror"
  /\ holder[req[c].token] = None \/ req[c].token \in Calls
  /\ Goto(c, "unavailable")
  /\ UNCHANGED <<gmAccounts, req, locals, ipfs, tx, tokens>>

(* The account acted on is known: look up the payer, or go ahead.          *)
Proceed(c, a) ==
  /\ action' = [action EXCEPT ![c] = a]
  /\ IF req[c].payerId # None THEN Goto(c, "payer") ELSE Build(c, {a})

(* getUserAccountByPublicKey.                                              *)
FindSupplyAccount(c) ==
  /\ pc[c] = "supply"
  /\ LET a == holder[req[c].token] IN
       IF a \in AccountsOf(req[c].user)
       THEN Proceed(c, a)
       ELSE Goto(c, "unavailable") /\ UNCHANGED action
  /\ UNCHANGED <<gmAccounts, req, payer, collectors, lookups, ipfs, tx, tokens>>

FindAccount(c) ==
  /\ pc[c] = "account"
  /\ \E a \in UserAccountByAlias(req[c].user, req[c].account) : Proceed(c, a)
  /\ UNCHANGED <<gmAccounts, req, payer, collectors, lookups, ipfs, tx, tokens>>

FindPayer(c) ==
  /\ pc[c] = "payer"
  /\ \E a \in UserAccountByAlias(req[c].user, req[c].payerId) :
       payer' = [payer EXCEPT ![c] = a] /\ Build(c, {action[c], a})
  /\ UNCHANGED <<gmAccounts, req, action, collectors, lookups, ipfs, tx, tokens>>

AccountMissing_Retried(c) ==
  /\ \/ pc[c] = "account" /\ UserAccountByAlias(req[c].user, req[c].account) = {}
     \/ pc[c] = "payer" /\ UserAccountByAlias(req[c].user, req[c].payerId) = {}
  /\ UNCHANGED vars

AccountMissing(c) ==
  /\ \/ pc[c] = "account" /\ UserAccountByAlias(req[c].user, req[c].account) = {}
     \/ pc[c] = "payer" /\ UserAccountByAlias(req[c].user, req[c].payerId) = {}
  /\ Goto(c, "AccountNotFoundError")
  /\ UNCHANGED <<gmAccounts, req, locals, ipfs, tx, tokens>>

FeeAliasFound_First(c) ==
  /\ pc[c] = "fees"
  /\ \E i \in lookups[c] :
       /\ \E a \in UserAccountIdByAlias(req[c].user, collectors[c][i]) :
            collectors' = [collectors EXCEPT ![c][i] = a]
       /\ lookups' = [lookups EXCEPT ![c] = @ \ {i}]
       /\ Goto(c, AfterFees(req[c]))
  /\ UNCHANGED <<gmAccounts, req, action, payer, ipfs, tx, tokens>>

(* parseCustomFeeAliases looks all aliases up at once; a fallback fee      *)
(* follows its royalty fee, but nothing depends on that order.             *)
FeeAliasFound(c) ==
  /\ pc[c] = "fees"
  /\ \E i \in lookups[c] :
       /\ \E a \in UserAccountIdByAlias(req[c].user, collectors[c][i]) :
            collectors' = [collectors EXCEPT ![c][i] = a]
       /\ lookups' = [lookups EXCEPT ![c] = @ \ {i}]
       /\ Goto(c, IF lookups[c] = {i} THEN AfterFees(req[c]) ELSE "fees")
  /\ UNCHANGED <<gmAccounts, req, action, payer, ipfs, tx, tokens>>

FeeAliasUnknown(c) ==
  /\ pc[c] = "fees"
  /\ \E i \in lookups[c] :
       UserAccountIdByAlias(req[c].user, collectors[c][i]) = {}
  /\ Goto(c, "AccountNotFoundError")
  /\ UNCHANGED <<gmAccounts, req, locals, ipfs, tx, tokens>>

-----------------------------------------------------------------------------
(* IpfsService                                                             *)

(* initClient: the modules are imported and a client is created.           *)
CreateClient(c) ==
  /\ pc[c] = "import"
  /\ Goto(c, "addSpace")
  /\ UNCHANGED <<gmAccounts, req, locals, ipfs, tx, tokens>>

AddSpace_Published(c) ==
  /\ pc[c] = "addSpace"
  /\ space' = [space EXCEPT ![c] = "added"]
  /\ client' = c
  /\ Goto(c, "setSpace")
  /\ UNCHANGED <<gmAccounts, req, locals, tx, tokens>>

AddSpace(c) ==
  /\ pc[c] = "addSpace"
  /\ space' = [space EXCEPT ![c] = "added"]
  /\ Goto(c, "setSpace")
  /\ UNCHANGED <<gmAccounts, req, locals, client, tx, tokens>>

(* Whoever gets here last leaves his client to the others.                 *)
SetCurrentSpace(c) ==
  /\ pc[c] = "setSpace"
  /\ space' = [space EXCEPT ![c] = "current"]
  /\ client' = c
  /\ Goto(c, AfterInit(req[c]))
  /\ UNCHANGED <<gmAccounts, req, locals, tx, tokens>>

UploadMetadata(c) ==
  /\ pc[c] = "upload"
  /\ Goto(c, Assembled(req[c]))
  /\ UNCHANGED <<gmAccounts, req, locals, ipfs, tx, tokens>>

-----------------------------------------------------------------------------
(* Submitting                                                              *)

(* Who pays: the payer, or else the account acted on.                      *)
Operator(c) == IF payer[c] # None THEN payer[c] ELSE action[c]

Signers_Operator(c) == {Operator(c)}

(* The operator of the client, and the account acted on besides.           *)
Signers(c) == {Operator(c), action[c]}

SupplyKey_Payer(c) ==
  CASE req[c].supplyKey = "default" -> Operator(c)
    [] req[c].supplyKey \in Accounts -> req[c].supplyKey
    [] OTHER -> None

(* parsePublicKeys: the default key is that of the treasury.               *)
SupplyKey(c) ==
  CASE req[c].supplyKey = "default" -> action[c]
    [] req[c].supplyKey \in Accounts -> req[c].supplyKey
    [] OTHER -> None

Submit(c) ==
  /\ pc[c] = "submit"
  /\ tx' = [tx EXCEPT ![c] =
       [status |-> "pending", account |-> action[c], payer |-> Operator(c),
        signers |-> Signers(c), collectors |-> collectors[c],
        supplyKey |-> SupplyKey(c)]]
  /\ Acknowledge(c, "receipt")
  /\ UNCHANGED <<gmAccounts, req, locals, ipfs, tokens>>

(* setMaxSupply may throw at undefined.                                    *)
MaxSupplyUndefined(c) ==
  /\ pc[c] = "submit"
  /\ req[c].op \in Creates
  /\ TokenParameters(req[c]).max = None
  /\ Goto(c, "unavailable")
  /\ UNCHANGED <<gmAccounts, req, locals, ipfs, tx, tokens>>

Receipt_NotAwaited(c) ==
  /\ pc[c] = "receipt"
  /\ Goto(c, IF tx[c].status = "rejected" THEN "unavailable" ELSE "SUCCESS")
  /\ UNCHANGED <<gmAccounts, req, locals, ipfs, tx, tokens>>

Receipt(c) ==
  /\ pc[c] = "receipt"
  /\ \/ tx[c].status = "accepted" /\ Goto(c, "SUCCESS")
     \/ tx[c].status = "rejected" /\ Goto(c, "unavailable")
  /\ UNCHANGED <<gmAccounts, req, locals, ipfs, tx, tokens>>

CallFails(c) ==
  /\ Faults
  /\ Live(c)
  /\ Goto(c, "unavailable")
  /\ UNCHANGED <<gmAccounts, req, locals, ipfs, tx, tokens>>

Step(c) ==
  \/ MirrorKnows(c) \/ MirrorLacks(c) \/ FindSupplyAccount(c)
  \/ FindAccount(c) \/ FindPayer(c) \/ AccountMissing(c)
  \/ FeeAliasFound(c) \/ FeeAliasUnknown(c)
  \/ CreateClient(c) \/ AddSpace(c) \/ SetCurrentSpace(c) \/ UploadMetadata(c)
  \/ Submit(c) \/ MaxSupplyUndefined(c) \/ Receipt(c) \/ CallFails(c)

-----------------------------------------------------------------------------
(* The ledger, the process, and the whole system.                          *)

(* The ledger wants the signatures of the payer, of the account associated *)
(* or made a treasury, of a new token's renewer, and of the supply key.    *)
SignedFor(c) ==
  LET body == req[c]
      needed == IF body.op \in Creates THEN {tx[c].account, body.renew} \ {None}
                ELSE IF body.op \in Mints THEN {holder[body.token]}
                ELSE {tx[c].account}
  IN {tx[c].payer} \cup needed \subseteq tx[c].signers

(* A finite token needs a maximum that its initial supply does not exceed, *)
(* any other has none, and NFTs have to be minted.                         *)
CreateToken(c) ==
  LET token == TokenParameters(req[c]) IN
  /\ req[c].op \in Creates
  /\ token.finite => Given(token.max) /\ token.initial <= token.max
  /\ Given(token.max) => token.finite
  /\ req[c].op = "createNft" => token.initial = 0
  /\ holder' = [holder EXCEPT ![c] = tx[c].supplyKey]
  /\ supply' = [supply EXCEPT ![c] = token.initial]
  /\ cap' = [cap EXCEPT ![c] = IF token.finite THEN token.max ELSE None]

MintToken(c) ==
  LET token == req[c].token IN
  /\ req[c].op \in Mints
  /\ cap[token] # None => supply[token] + Quantity(req[c]) <= cap[token]
  /\ supply' = [supply EXCEPT ![token] = @ + Quantity(req[c])]
  /\ UNCHANGED <<holder, cap>>

AssociateToken(c) ==
  /\ req[c].op \notin Creates \cup Mints
  /\ UNCHANGED tokens

Accept(c) ==
  /\ tx[c].status = "pending"
  /\ SignedFor(c)
  /\ CreateToken(c) \/ MintToken(c) \/ AssociateToken(c)
  /\ tx' = [tx EXCEPT ![c].status = "accepted"]
  /\ UNCHANGED <<gmAccounts, req, pc, locals, ipfs>>

(* A signature is missing, a fee unpaid, a supply exceeded, ...            *)
Reject(c) ==
  /\ tx[c].status = "pending"
  /\ tx' = [tx EXCEPT ![c].status = "rejected"]
  /\ UNCHANGED <<gmAccounts, req, pc, locals, ipfs, tokens>>

Settle(c) == Accept(c) \/ Reject(c)

(* The process dies with its handlers and its client.                      *)
Crash ==
  /\ Faults
  /\ \E c \in Calls : Live(c)
  /\ pc' = [c \in Calls |-> IF Live(c) THEN "crashed" ELSE pc[c]]
  /\ client' = None
  /\ UNCHANGED <<gmAccounts, req, locals, space, tx, tokens>>

(* Every call has been made and answered, every transaction settled.       *)
Quiescent ==
  /\ \A c \in Calls : pc[c] \in Answers /\ tx[c].status # "pending"
  /\ UNCHANGED vars

Next ==
  \/ RegisterAccount \/ RenameAccount
  \/ \E c \in Calls : Arrive(c) \/ Step(c) \/ Settle(c)
  \/ Crash
  \/ Quiescent

Spec == Init /\ [][Next]_vars

(* Every awaited call returns or times out, the ledger settles or drops    *)
(* what it was sent.                                                       *)
Fairness == \A c \in Calls : WF_vars(Step(c)) /\ WF_vars(Settle(c))

FairSpec == Spec /\ Fairness

-----------------------------------------------------------------------------
(* Safety.                                                                 *)

(* Accounts are found by id without a user filter; yet whatever is sent to *)
(* the ledger acts on, and charges, accounts of the caller only.           *)
OwnAccountsOnly ==
  \A c \in Calls :
    tx[c].status # "unsent" =>
      {tx[c].account, tx[c].payer} \subseteq AccountsOf(req[c].user)

(* A transaction is never sent without the signature of the account that   *)
(* pays for it and of the account it acts on.                              *)
SignaturesSuffice ==
  \A c \in Calls :
    tx[c].status # "unsent" => {tx[c].account, tx[c].payer} \subseteq tx[c].signers

(* The collectors of the custom fees of a new token are account ids; those *)
(* that were named by alias are accounts of the caller, in their places,   *)
(* however renames and lookups interleave.                                 *)
CollectorsResolved ==
  \A c \in Calls :
    tx[c].status # "unsent" =>
      /\ DOMAIN tx[c].collectors = DOMAIN req[c].fees
      /\ \A i \in DOMAIN req[c].fees :
           IF req[c].fees[i] \in Accounts
           THEN tx[c].collectors[i] = req[c].fees[i]
           ELSE tx[c].collectors[i] \in AccountsOf(req[c].user)

(* However many calls initialise the client of IPFS at once, fail or die   *)
(* on the way: what they share has a space, and an upload has a client.    *)
UploadsHaveSpace ==
  /\ client # None => space[client] = "current"
  /\ \A c \in Calls : pc[c] = "upload" => client # None

(* An answer tells what the ledger did: SUCCESS that the transaction was   *)
(* accepted and, without faults, an error that it was not.                 *)
AnswerMatchesLedger ==
  \A c \in Calls :
    /\ pc[c] = "SUCCESS" => tx[c].status = "accepted"
    /\ pc[c] \in Answers \ {"SUCCESS"} /\ ~Faults =>
         tx[c].status \in {"unsent", "rejected"}

(* A token its creator asked to be finite never exceeds what was asked:    *)
(* the maximum, or without one the initial supply, however it is minted.   *)
SupplyCapped ==
  \A c \in Calls :
    LET body == req[c] IN
    /\ tx[c].status = "accepted" /\ body.op \in Creates
    /\ body.finite \/ Given(body.maxSupply)
    => supply[c] <= IF Given(body.maxSupply)
                    THEN body.maxSupply ELSE OrZero(body.initialSupply)

(* Whoever mints a token that was created here acts as the account whose   *)
(* key its creator named: the treasury by default, not who paid.           *)
MintedWithNamedKey ==
  \A m, c \in Calls :
    tx[m].status # "unsent" /\ req[m].op \in Mints /\ req[m].token = c =>
      /\ tx[c].status = "accepted" /\ req[c].op \in Creates
      /\ tx[m].account = IF req[c].supplyKey = "default"
                         THEN tx[c].account ELSE req[c].supplyKey

(* A mint whose account was found and signed for is sent to the ledger,    *)
(* whether its metadata are strings or HIP-412 objects to be uploaded, and *)
(* with metadata that the caller gave.                                     *)
MetadataServed ==
  \A c \in Calls :
    req[c] # None /\ req[c].op = "mintNft" =>
      /\ /\ pc[c] = "unavailable" /\ action[c] # None
         /\ \A a \in Signers(c) : CanSignFor(c, a)
         => tx[c].status # "unsent"
      /\ tx[c].status # "unsent" => None \notin Attached(req[c])

-----------------------------------------------------------------------------
(* The bookkeeping behind these, an inductive invariant.                   *)

BeforeBuild == {"new", "mirror", "supply", "account", "payer"}
BeforeClient == BeforeBuild \cup {"fees", "import", "addSpace", "setSpace"}
BeforeSubmit == BeforeClient \cup {"upload", "submit"}

(* Nothing is sent before "submit", and what a handler then holds is the   *)
(* caller's and complete.                                                  *)
HandlersSound ==
  \A c \in Calls :
    /\ pc[c] \in BeforeSubmit => tx[c].status = "unsent"
    /\ pc[c] \in BeforeBuild => payer[c] = None
    /\ pc[c] = "payer" => action[c] \in Accounts
    /\ pc[c] \in BeforeSubmit \ BeforeBuild =>
         {action[c], Operator(c)} \subseteq AccountsOf(req[c].user)

(* A collector is the one asked for until its alias has been found, and    *)
(* none is left to be found once the handler goes on.                      *)
FeesSound ==
  \A c \in Calls :
    /\ pc[c] # "new" =>
         /\ DOMAIN collectors[c] = DOMAIN req[c].fees
         /\ lookups[c] \subseteq AliasFees(req[c].fees)
         /\ \A i \in DOMAIN req[c].fees :
              IF i \in AliasFees(req[c].fees) \ lookups[c]
              THEN collectors[c][i] \in AccountsOf(req[c].user)
              ELSE collectors[c][i] = req[c].fees[i]
    /\ pc[c] \in BeforeSubmit \ (BeforeBuild \cup {"fees"}) => lookups[c] = {}

(* Nobody shares a client that is still being built.                       *)
ClientsSound == \A c \in Calls : pc[c] \in BeforeClient => client # c

(* A mint acts as the holder the mirror node knew, and a new token is held *)
(* as its creation was sent.                                               *)
MintsSound ==
  \A c \in Calls :
    /\ pc[c] = "account" => req[c].op \notin Mints
    /\ pc[c] \in {"mirror", "supply"} => req[c].op \in Mints
    /\ pc[c] = "supply" => holder[req[c].token] # None
    /\ pc[c] \in BeforeBuild \ {"payer"} => action[c] = None
    /\ action[c] # None /\ req[c].op \in Mints => action[c] = holder[req[c].token]
    /\ tx[c].status # "unsent" => tx[c].account = action[c] /\ tx[c].supplyKey = SupplyKey(c)
    /\ holder[c] # None =>
         /\ tx[c].status = "accepted" /\ req[c].op \in Creates
         /\ holder[c] = tx[c].supplyKey

(* The ledger keeps the cap a token was created with.                      *)
SuppliesSound ==
  /\ \A t \in TokenIds : cap[t] # None => supply[t] <= cap[t]
  /\ \A c \in Calls :
       tx[c].status = "accepted" /\ req[c].op \in Creates =>
         LET token == TokenParameters(req[c]) IN
         /\ cap[c] = IF token.finite THEN token.max ELSE None
         /\ token.finite => Given(token.max)

Bookkeeping ==
  /\ TypeOK
  /\ HandlersSound
  /\ FeesSound
  /\ ClientsSound
  /\ OwnAccountsOnly
  /\ SignaturesSuffice
  /\ CollectorsResolved
  /\ UploadsHaveSpace
  /\ MintsSound
  /\ SuppliesSound

-----------------------------------------------------------------------------
(* What GoMint promises about acting for its users.                        *)

Rights == INSTANCE Delegation WITH
  owner <- [a \in Accounts |-> gmAccounts[a].user],
  caller <- [c \in Calls |-> IF pc[c] = "new" THEN None ELSE req[c].user],
  effect <- [c \in Calls |->
    IF tx[c].status = "accepted"
    THEN [account |-> tx[c].account, payer |-> tx[c].payer] ELSE None]

RightsSpec == Rights!Spec

-----------------------------------------------------------------------------
(* Liveness.                                                               *)

(* Every call is answered.                                                 *)
Answered == \A c \in Calls : pc[c] # "new" ~> pc[c] \in Answers
=============================================================================
