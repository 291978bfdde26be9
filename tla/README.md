# Verification of the GoMint API

TLA+ models of the GoMint API (`src/src/`), the TLC configurations that check
them on small instances, and theorems about them that TLAPS checks for every
value of the constants. The models are translated from the TypeScript code; where
a comment, a DTO or an error text says something else, the code is what is
modelled and the disagreement is shown by a run of its own.

Contents: [the system](#1-the-system), [the modules](#2-modules-and-the-code-they-model),
[the runs](#3-runs), [fairness](#4-fairness), [the proofs](#5-proofs),
[what is left out](#6-not-modelled), [the plan](#7-plan).

To repeat everything, in this directory:

    tlc -workers 2 -config AccountFaults.cfg MCAccountService   # and so on
    tlapm AccountServiceProofs.tla                              # and so on

## 1. The system

GoMint is a NestJS server that opens accounts on the Hedera ledger for users,
keeps their private keys, and creates, mints, associates and trades tokens for
them. It is one Node process: a handler runs uninterrupted from one `await` to the
next and any number of handlers interleave at their awaits. Its lasting state is
in MySQL (`gm_users`, `gm_keys`, `gm_accounts`, `gm_deals`, `gm_api_keys`). TypeORM's
`save()` writes in a transaction of its own; no transaction spans two steps of a handler,
nor the read that precedes a write. The ledger, the mirror node (a delayed,
read-only view of the ledger) and IPFS are reached over the network.

| Component | State | Operations | Talks to |
| --- | --- | --- | --- |
| Accounts (`account/`) | `gm_accounts`: id, alias, user, keys | create an account, rename it (alias), list, associate tokens, resolve aliases and custom-fee aliases | keys, clients, Hedera API |
| Custodial keys (`key/`) | `gm_keys`: encrypted private key, user, account | store a new key; decrypt a user's escrow key; decrypt an account's keys | called by accounts, clients, deals |
| Clients and signers (`client/`) | none | decide who pays; build an SDK client with the payer's keys and the list of other signers | accounts, keys |
| Hedera API (`hedera-api/`) | none | submit a transaction, await its receipt, add signatures | the ledger |
| Deals (`deal/`) | `gm_deals`: id = SHA-256 of the JSON, the JSON | publish a deal; return a deal as a frozen, partly signed transaction | accounts, keys, mirror node |
| Tokens (`token/`, `hedera-api/hedera-token-api`) | none | create and mint fungible and non-fungible tokens, associate them | accounts, clients, Hedera API, mirror node, IPFS |
| IPFS (`ipfs/`) | `client`, shared by all calls | create the client on first use; upload metadata | web3.storage |
| Mirror node (`hedera-api/hedera-mirrornode-api`) | none | supply key of a token; serials an account owns | the mirror node |
| Authentication (`auth/`) | `gm_api_keys`; JWTs held by callers | sign up, sign in, generate, list and delete API keys, the guards | users |
| Users (`user/`) | `gm_users`: escrow key, network, credentials | create, find | keys |
| Configuration, logging, migrations | read once | none after the start | |

An *escrow key* is generated for each user and encrypts that user's private keys.
A user who chose an *encryption key* at sign-up has the escrow key itself encrypted
under it and sends the encryption key in a header with each call; for the others
the escrow key lies in the table as it is. So for a user with an encryption key
the ability to sign comes and goes with the header.

What is hard here, and what a correct system has to bring about:

- **Accounts.** `createAccount` counts the user's accounts, checks the alias, finds
  and decrypts the payer, stores the key, submits, awaits the receipt and saves the
  row: up to seven awaits and three separate writes, one of them to a ledger that cannot
  be rolled back. Every interleaving of two creations and a rename, every failure
  and a crash in between must leave: no ledger account whose key is not stored, no
  row without a key, no link from a key to an account it does not control, no
  account paid for by somebody else than its user or GoMint, no balance paid by
  GoMint, and no acknowledged account that is gone later.
- **Aliases** are checked at one await and used at another, may read as account
  ids, and are changed by renames that do not check at all.
- **Deals.** The lookups of all aliases of a deal run in parallel on one shared
  object while accounts are renamed; sums are checked before names are replaced and
  never again; one encryption key has to do for the keys of all signers. Published
  deals must stay resolvable and balanced, the bytes must be those of a stored deal,
  and whoever the ledger asks to sign, and whose key GoMint holds, must have signed them.
- **Tokens.** Accounts are found by id whoever owns them; what protects them is that
  their keys do not decrypt. The fees' aliases are looked up in parallel. Concurrent
  first uploads race to build one shared client. Whatever is sent must act on and
  charge the caller's accounts only, with sufficient signatures, and the answer must
  agree with what the ledger did.
- **Authentication.** A guard decides at one await for whom the handler acts at later
  ones, while sessions expire, keys are deleted and users sign up. TypeORM drops a
  condition whose value is `undefined`, so a handler that got no user would act on
  everybody's rows. Whoever acts as a user must go back to that user's password, a user
  name must be given once, and a key must be deleted once, by its user, and be refused
  by every guard that looks at it afterwards.

`PROJECT.json` lists the hazards one by one with the lines where they bite and the
properties that cover them.

## 2. Modules and the code they model

    KeyCustody       <==  AccountService  <-- MCAccountService, AccountServiceProofs
    AccountRegistry  <==       "                <-- AccountSerialProofs
    DealBook         <==  DealService     <-- MCDealService, DealServiceProofs (with Sums)
       \---- Deals ----/
    Delegation       <==  TokenService    <-- MCTokenService, TokenServiceProofs
    Credentials      <==  AuthService     <-- MCAuthService, AuthServiceProofs

    AuthService + AccountService  =  GoMintApi  <-- MCGoMintApi, GoMintApiProofs

`<==` is a refinement: the abstract specification on the left is a PROPERTY of a run
and a theorem about the detailed one on the right. `<--` is EXTENDS. The modules meet
in four places:

- `AccountRegistry` is what the deal and token handlers take for granted of
  `gm_accounts` while other calls register and rename accounts. `DealService` and
  `TokenService` take its actions for those steps (`RegisterAccount`, `RenameAccount`),
  and `AccountService` implements it (`RegistrySpec`).
- `EscrowKeys` is the part of KeyService that `AccountService` and `TokenService` share.
- `NodeProcess` declares what `AuthService` and `AccountService` share because they run in
  one process: the bound on handlers in flight, whether there are faults, and `None`.
- `GoMintApi` composes authentication with the account handlers; see below.

The conventions are the same everywhere. Each call has a request (`req`, `creq`,
...) and a stage (`pc`, ...): the name of the `await` it is in, or the error or
answer it ended with. The action of a stage is the awaited call taking effect and
*all* the code up to the next await, so a step is exactly what runs uninterrupted.
A failing call is the action `...Fails`; a write whose answer gets lost is the
second disjunct of `Acknowledge`; `Crash` ends all handlers and keeps the tables
and the ledger. Definitions with a suffix, as `SaveKey_Deferred`, are plausible
mistakes next to the definition they alter; no specification uses them, and each
shows that some property would notice the mistake. `Quiescent` is the stuttering
end of a run where all calls have been answered, so that TLC's deadlock check stays
on: it reports a state in which some call can never continue.

### AccountService and KeyCustody

`AccountService` models `POST /account` and `PATCH /account/:accountId`:
`AccountService.createAccount`, `AccountMediator.update`, the parts of `KeyService`
and `ClientService` they use, the two tables and the ledger.

| Stage or action | Code (account/account.service.ts unless named) |
| --- | --- |
| `Arrive`, `ArriveUpdate` | account.controller.ts:59, :94 |
| `Count` | the count of the user's accounts and `NoPayerIdError`, :43-59 |
| `AliasRejected`, `EscrowDenied`, `AliasFree` | accountAliasExists :178-188 and decryptUserEscrowKey (key/key.service.ts:173), called at :61-71 |
| `PayerMissing`, `PayerUnusable`, `LoadPayer` | getUserAccountByAlias of the payer :288-308, the client built with its keys (client/client.service.ts:37), called at :73-90 |
| `SaveKey` | the generated key, encrypted and stored, key/key.service.ts:35-53; the transaction is then built, :105-113, which may throw, as at an account to stake to that is no account id |
| `Submit`, `Receipt` | the transaction, its balance reset for a free account, and its receipt, :105-119 |
| `LoadRow`, `SaveAccount`, `RowRefused` | `save()` of the row with its key, :120-130: a SELECT, then the INSERT or UPDATE, which the database refuses if the alias exceeds its varchar(255) or another handler has inserted the id since |
| `GetUserAccountById`, `UpdateAlias`, `AliasTooLong` | account.mediator.ts:14-22 with :365-376 and :351-363 |
| `OpenAccount`, `RejectTx` | the ledger, which may settle a transaction at any time, also one whose handler is gone |

Data that is abstracted: a private key is named by the creation that generates it;
encryption is the name of the escrow key it was done under (`"good"` or
`"garbage"`); an account id is a number per network, counting from 1, since ids
repeat across Hedera's networks, of which there are at most two. Aliases longer than the
column are the set `LongAliases`; nothing before the database looks at their length.
`AccountAliasExists` follows TypeORM, which drops a condition whose value is `undefined`.
`LoadRow` and `SaveAccount` follow TypeORM's `save()`: read the row of the primary key
(`found`), then insert it, or update the columns that differ from what was read and unlink
the keys that were read and that the entity does not list.

`KeyCustody` is the promise: a key goes into the vault, then an account may be
opened on it, then the account may be registered, and nothing is taken back.
`AccountRegistry` is the other one: an account is registered once, for one user, and
from then on only its alias changes.

`EscrowKeys` models what an encryption key in the header yields: `DecryptString` gives
the escrow key, an error, or, for a wrong key under which the padding happens to be
valid, garbage (key/key.service.ts:211-239); `Decrypts` says which stored keys open under
what was obtained (:181-200).

### Deals, DealService and DealBook

`Deals` holds the pure part: legs, sums, substitutions, the required signers, and
reference definitions of whom the ledger asks to sign (`LedgerSigners`: the account that
pays the fee, and `NetDebits`, those that give an asset away) and of one deal being an
instance of another (`Instantiates`). `DealService` models `createDeal`
(`ArriveDeal` ... `SaveDeal`, deal/deal.service.ts:40-77, :197-259, :353-371) and
`getDealBytes` (`ArriveFetch` ... `SignersLocked`, :79-195, :261-351). Every alias
lookup is a step of its own; `Promise.all` is the set `lookups` that shrinks. The
three lists of the DTO are one sequence of legs; a deal is its own id (SHA-256 is
taken to be injective); amounts are integers; the 1000 characters of the column are
a number of legs (`MaxLegs`). Accounts are registered and renamed by two actions that
stand for the effect of AccountService on what deals read: an unused id gets a user
and an alias, and a registered one changes its alias only (`AccountRegistry`).

`DealBook` is the promise: a growing set of balanced deals between known parties, and
transactions each of which is one published deal with its open places filled in.

### TokenService and Delegation

`TokenService` models `POST /token`, `POST /token/mint`,
`POST /account/association` and `POST /token/association`, as one machine with
six kinds of call, because they share everything from the lookup of accounts to the
receipt: `MirrorKnows`/`MirrorLacks` and `FindSupplyAccount` (mints), `FindAccount`,
`FindPayer`, `AccountMissing`, `Build` (buildClientAndSigningKeys),
`FeeAliasFound`/`FeeAliasUnknown` (parseCustomFeeAliases), `CreateClient`,
`AddSpace`, `SetCurrentSpace`, `UploadMetadata` (IpfsService), `Submit`, `Receipt`.
`Accept` and `Reject` are the ledger: it accepts only what the payer, the account
acted on, the renewer of a new token and, for a mint, the holder of the supply key signed,
keeps `supply` and `cap` of each token within its rules, and may reject anything.

| Operator or action | Code (hedera-api/hedera-token-api unless named) |
| --- | --- |
| `Invalid` | the validators of token/dto/token-create.dto.ts:21-83 and token-mint.dto.ts:14-57 |
| `TokenParameters` | initialSupply, maxSupply and supplyType, :132-156 |
| `SupplyKey`, `KeyMalformed` | parsePublicKeys, :160-184; the default key is the treasury's |
| `MaxSupplyUndefined` | setMaxSupply of an undefined maximum, which the SDK may refuse, :57 |
| `Malformed` | what the SDK takes for an account id, :102-106; a fee in a token without an amount, :264-267 |
| `Uploads`, `Unbound`, `Quantity`, `Attached` | what a mint uploads, how many it makes and of what, :78-100, :186-195 |

The token a call creates is named by the call, so that a later call can mint it: `holder`,
`supply` and `cap` are the ledger's record of it, which the mirror node shows, at times
late.

Assumed of the accounts: each registered account has one key, stored under the escrow
key of its user, and ids are those of one network. For users of one network that is
what AccountService guarantees (`LinkSound`, `RowHasKey`, `AcknowledgedAccountUsable`),
save for keys stored under garbage, see `KeyUnreadable.cfg` below, which can only make
a call fail that would otherwise be made.

`Delegation` is the promise: an account belongs to one user for good, and a call has at
most one effect on the ledger, on and at the expense of accounts of its caller.

### AuthService and Credentials

`AuthService` models the routes of `/auth`, with their guards, and one route behind
ApiKeyGuard (`"use"`, as those of `/token` are). A user is named by the sign-up that made
the row, a session by its sign-in, an API key by the call that generated it. What a call
presents was handed out to somebody before (`HandedOut`), not necessarily to its caller,
or is `Forged`.

| Stage or action | Code |
| --- | --- |
| `ArriveAuth` | the headers the guard asks for before it waits, auth.guard.ts:24-30, :54-59; sign-up and sign-in go to their handlers |
| `SaveUser`, `UserTaken` | UserService.create and the unique columns, user.service.ts:47-66 |
| `FindUser`, `UserUnknown`, `SignToken` | AuthMediator.signIn, auth.mediator.ts:25-39 |
| `VerifyToken`, `TokenInvalid` | JwtGuard, :31-42; with JwtOrApiKeyGuard the second guard follows, :90-102 |
| `ValidateApiKey`, `ApiKeyInvalid` | ApiKeyGuard with validateApiKey, api-key.service.ts:61-80 |
| `FindCaller`, `SaveApiKey` | AuthMediator.generateApiKey, auth.mediator.ts:54-57, api-key.service.ts:19-32 |
| `ListApiKeys` | api-key.service.ts:47-49 |
| `DeleteApiKey`, `ApiKeyMissing` | deleteApiKey, api-key.service.ts:51-59, and TypeORM's reading of an `undefined` user (`Deletable`) |
| `Expire` | `jwtExpiresIn`, app-jwt.module.ts:15 |

Data that is abstracted: the hashed password is a value that sign-up stores and sign-in
compares; tokens are not forgeable and keys not guessable, so `Forged` never verifies.

`Credentials` is the promise: a credential belongs to one user while it is valid and is
void for good afterwards; a call acts for the owner of a credential that is valid at the
moment it is admitted, and issues further ones in nobody else's name.

### GoMintApi

`GoMintApi` puts `POST /account` and `PATCH /account/:accountId` behind their guards. It
extends both `AuthService` and `AccountService`, so that their theorems can be cited; where
both have a thing of the same kind, the name on the side of authentication tells so (`apc`,
`AuthCrash`, `AuthSpec`). A sign-up names the user in both.
`CreateAccount` and `UpdateAccount` are the one step in which a guard lets a call pass and
its handler starts, with the user the guard found (account.controller.ts:66, :103).
`GuardStep` is every other step of authentication, `HandlerStep` every other step of the
account handlers and the ledger, and `ProcessDies` ends the handlers of both.

Each half keeps its own behaviour (`AuthKept`, `AccountsKept`), so what is proved of the
halves is true of the whole, the abstract specifications included (`ApiImplementsCredentials`,
`ApiImplementsCustody`). What only the whole can say is that an effect at the end of a
handler goes back to a password: the guard looked once, and the key may have been deleted,
the session ended and other users' calls admitted since.

## 3. Runs

All bounds are constants in the .cfg files. Two users suffice for every property
that speaks of "the caller and another"; `ann` has an encryption key and `bob` has
none, and both give an account the alias `x`, so that a lookup which forgets its user
finds the wrong account. Requests are chosen sets (`Bodies`, `Proposals`, ...): those of
a component's runs together contain, for every guard of the handler, a request that
passes it and one that does not.

| Run | What it shows | Bounds |
| --- | --- | --- |
| `AccountFaults` | With every failure, lost answer and crash, on one network: keys are stored before accounts exist (`KeyBeforeAccount`), users pay from their own accounts or GoMint pays (`PayerIsOwn`), acknowledged accounts stay usable (`AcknowledgedAccountUsable`), rows change only by their user's rename (`RowsChangeByTheirUser`), KeyCustody and AccountRegistry are implemented (`CustodySpec`, `RegistrySpec`); among the requests is one whose wrong encryption key decrypts to garbage | 3 creations, 1 rename, 2 handlers in flight, 3 account ids |
| `AccountLive` | Two networks, whose ids collide: a linked key controls its account (`LinkSound`), a row has a key (`RowHasKey`); without faults an error means that no account was opened (`ErrorMeansNoAccount`), and what the ledger opens is registered at some time (`LedgerAccountRegistered`), in both cases but for the rows the database refuses (`Unwritable`), of which the run has both kinds; every call is answered (`Answered`) | 2 creations, 1 rename, 2 in flight, 3 aliases of which 1 is too long |
| `DealFaults` | With every failure and crash, renames and registrations at any moment: aliases become accounts of the author and nothing else changes (`AliasesResolvedToOwn`), the bytes are balanced (`BytesBalanced`) and carry every signature that the ledger asks for and GoMint can give, except that of a fee payer who gives nothing away (`SignaturesComplete`); DealBook is implemented (`BookSpec`) | 2 publications of 4 deals, 1 fetch of 5 queries, 3 rows, 2 renames |
| `DealStable` | Without renames and faults: one alias resolves to one account throughout a deal (`SameAliasSameAccount`), every call is answered | 1 publication, 1 fetch |
| `TokenFaults` | With every failure and crash and with renames: what is sent acts on and charges accounts of the caller (`OwnAccountsOnly`), has its collectors resolved (`CollectorsResolved`), the shared IPFS client always has its space (`UploadsHaveSpace`), a finite token never exceeds the maximum asked for (`SupplyCapped`) and is minted with the key its creator named (`MintedWithNamedKey`); Delegation is implemented (`RightsSpec`) | 2 calls out of 25 requests, 3 rows, 2 renames |
| `TokenLive` | Without faults the answer tells what the ledger did (`AnswerMatchesLedger`), every call is answered | 2 calls out of 4 requests |
| `AuthFaults` | With every failure, lost answer, expiry and crash: names are unique and acknowledged users kept (`UsersDistinct`), whoever acts as a user goes back to a password (`TracedToPassword`), one deletion of a key succeeds (`OneDeletionAcknowledged`), by its user (`KeysDeletedByOwner`), and the key is refused afterwards (`DeletedKeyRefused`); Credentials is implemented (`CredentialsSpec`) | 2 sign-ups, 2 sign-ins, 2 generations, 2 calls that delete, list or use; 2 in flight |
| `GoMintCalls` | Guards and account handlers together, with every fault: an account creation on the ledger goes back to the password of the user it is for and of the one who pays (`TransactionsTraced`), so does each registered row (`RowsTraced`) and each change of one (`RowChangesTraced`), though keys are deleted meanwhile: a call that was admitted before the deletion finishes after it | 2 users, 2 keys, 3 creations, 1 rename, 1 deletion; one call at a guard and one in a handler at a time |

Two concurrent calls are what the races need: each handler is independent of the
others except through a table, the ledger or the IPFS client, and each property
relates at most two calls. Three creations in `AccountFaults` let a third be paid by
the account of the first while a second is under way, and need three account ids.
`AuthFaults` needs eight calls because a credential has a history: a user, a session, a
key, and two calls that compete for it; only two have to be in flight together.
`GoMintCalls` has a constraint, `SetUpFirst`: the six calls that set the users and keys up
come one after the other and succeed before the five that use them, since `AuthFaults`
has the former interleave and fail. Of these bob's first creation arrives after ann's, and
his second, which names the account opened first as its payer, be it his or ann's, after his
first has succeeded. Otherwise the five, their handlers, the expiry of sessions and the faults
are unconstrained.
One fetch is enough for deals, as fetches write nothing that others read. Fees and
legs lists are long enough to hold the same alias twice, an id, and, for deals, an
account that is credited and debited in the same token.

`Bookkeeping` (`AuthBookkeeping` in `AuthService`) is checked in each `...Faults` run because
it is the inductive invariant of the proofs; TLC found it wrong cheaply where it was. Its conjuncts include the type
invariant and properties that have theorems but no entry of their own in the table:
`GoMintNeverFunds`, `DealsSound`, `SignaturesSuffice`.

### What the code does not do

Four runs show where the code departs from what its comments or error texts say, each
with one property and the shortest counterexample TLC finds:

- `FreeTwice`: two first accounts requested at once are both paid for by GoMint. The
  count of account.service.ts:49 is as old as the whole call when the row is saved.
- `RowTakenOver`: ids repeat across networks and the primary key of `gm_accounts` has no
  network: `save()` overwrites the other user's row and unlinks its key.
- `DealLost`: an error of saving a deal is logged and the deal id answered all the same
  (deal.service.ts:70-74); a deal of more than 1000 characters is never stored.
- `MetadataLost`: a method is passed to `map` without its object
  (hedera-token-api.service.ts:91-93): a list of metadata that holds an object fails.

What each of them needs in order to happen is proved, see `FreeOnceSerially`,
`AcknowledgedUsable`, `ShortDealsAreStored` and `OtherMetadataServed` in section 5: without
it the promise is kept.

### Further configurations

They belong to the same models and are kept for whoever works on these parts.

- `AccountSerial.cfg` (passes): one call at a time and without renames, `FreeAccountOnce`
  and `AliasUnambiguous` do hold. The checks of `createAccount` are right and the
  interleaving is what breaks them; AccountSerialProofs proves it for any number of calls.
- `AliasRequired.cfg` (violates `OptionalAlias`): a second account without alias is refused
  with `AccountAliasAlreadyExistsError`, since TypeORM drops the `undefined` condition at
  account.service.ts:181, while account-create.dto.ts:16-19 declares the alias optional.
- `AliasTwice.cfg` (violates `AliasUnambiguous`): a rename does not check whether the alias
  is taken, account.service.ts:351.
- `AliasShadowed.cfg` (violates `AliasResolves`): an alias may be another account's id,
  which getUserAccountByAlias prefers, account.service.ts:290.
- `KeyUnreadable.cfg` (violates `KeysReadable`): a wrong encryption key decrypts with valid
  padding about once in 256 times, and the new account's key is stored under the garbage,
  key.service.ts:231. The ledger account remains manageable, as its key list contains
  GoMint's own key.
- `OpenedLost.cfg` (violates `OpenedIsSaved`): account.service.ts:122 says 'save account and
  attach user and key', but an alias of more than 255 characters, which no check precedes
  (account-create.dto.ts:16-19), is refused by the database after the ledger opened the
  account and charged for it. The call is answered 503 and the account is never registered.
- `FeePayerUnsigned.cfg` (violates `FeePayerSigned`): deal.service.ts:108-111 has `payerId ||
  receiverId` pay the fee, whose signature the ledger asks for, but findRequiredSigners looks
  among the legs only (:149-165). If GoMint keeps the fee payer's key and it gives nothing
  away in the deal, it does not sign.
- `OldAlias.cfg` (violates `OldAliasReturned`): of two concurrent renames, one answers with
  an old alias that it did not replace, account.mediator.ts:19.
- `DuplicateSignUp.cfg` (violates `DuplicateReported`): a sign-up under a taken name is
  answered with an internal error and not as a duplicate: user.service.ts:61 compares the
  error's message with `'ER_DUP_ENTRY'`, which in the MySQL driver is its code.
- `ListIgnored.cfg` (violates `MetadataServed`): a mint with both an amount and a list passes
  the controller (token.controller.ts:119-122), the list is ignored and the `undefined`
  metadata uploaded and minted, hedera-token-api.service.ts:86-89.

## 4. Fairness

`Fairness` is weak fairness of each handler's steps and of the ledger's verdict on each
transaction. The event loop of Node runs every ready continuation; the awaited calls are
database queries, HTTP requests and SDK calls, all of which return or time out, and a
timeout is the handler's error step. Hedera either executes a transaction within its
validity or drops it, whereupon the SDK reports it expired: `Settle`. No fairness is
assumed of callers (`Arrive`), of registrations and renames by others, of faults or of
crashes. The liveness runs have `Faults = FALSE`: with faults a
call could be answered by `CallFails` in every stage, and the property would say nothing of
the other actions. The fairness is over
the disjunction of a handler's steps, so it does not promise any particular outcome.

## 5. Proofs

Each `...ServiceProofs` module shows `Spec => []Bookkeeping` in the order `Init => Bookkeeping`,
then one lemma per conjunct that every step preserves it, each with a step per action, and
derives the rest. The constants are arbitrary but for the ASSUMEs of the module, which TLC
evaluates in every run: any number of users, calls, accounts, requests, legs and fees. Where
a theorem assumes more it says so; the last column names the run, or else the steps, that break
the property without it.

| Assumption | Theorems | Without it |
| --- | --- | --- |
| `OneNetwork`: all users are on one network | `AcknowledgedUsable`, `RowsChangeByUser`, `ImplementsCustody`, `ImplementsRegistry`, `RowChangesAreTraced`, `ApiImplementsCustody` | `RowTakenOver` |
| no faults, and no row that the database refuses (`Unwritable`) | `ErrorsOpenNothing` | a lost answer after the submission, `OpenedLost.cfg` |
| distinct aliases, no renames | `OneAliasOneAccount` | a rename between two lookups |
| one handler at a time, no faults, `OneNetwork`, no alias longer than its column | `FreeOnceSerially` | `FreeTwice`; a first account that was opened and not registered is not counted, and the next is free again |
| the fee payer gives something away | `SignersSuffice`, for the fee payer only | `FeePayerUnsigned.cfg` |
| one handler at a time, no renames | `AliasesSerially` | `AliasTwice.cfg` |
| the same, and no alias chosen that reads as an account id | `AliasesResolveSerially` | `AliasShadowed.cfg` |
| one handler at a time | `OldAliasSerially` | `OldAlias.cfg` |
| no request with the colliding encryption key | `KeysReadBack` | `KeyUnreadable.cfg` |
| no faults, deals that fit in their column | `ShortDealsAreStored` | `DealLost` |
| no faults, no list with an object in it, no amount without metadata | `OtherMetadataServed` | `MetadataLost`, `ListIgnored.cfg` |

**AccountServiceProofs.** `KeyBeforeAccount` and `LinkSound` are not inductive by
themselves. `HandlerPhases` says what the tables and the ledger hold of a creation at each
stage, `PayerDecided` and `PayerHeld` carry the decision who pays from the count to the
transaction, `IdsFresh` and `IdsUnique` say that a network hands out an id once. Theorems:
`TypeCorrect`, `BookkeepingCorrect`, `KeysNeverLost`, `LinksSound`, `RowsHaveKeys`,
`PayersOwn`, `FreeAccountsEmpty` hold without further assumption, in particular with
colliding ids. `AcknowledgedUsable`, `RowsChangeByUser` and `ImplementsCustody` assume
`OneNetwork`; `RowTakenOver` shows that they need it. So does `ImplementsRegistry`, which
discharges what the other modules assume of `gm_accounts`. `ErrorsOpenNothing` assumes that
there are no faults; its invariant `ErrorsSettled` says that an answered error's transaction
was never sent or has been rejected, or that its row was one the database refuses
(`Unwritable`), which a creation remains once it is (`StaysUnwritable`). The lemma in the
middle is `SavedRowIsNew`: on one network `SaveAccount` never meets an existing row, because a
row's id comes from a key that is linked already. `FoundSound` says that a row
`LoadRow` found still has exactly the keys it read when `SaveAccount` writes: with at most two
networks there is no third account of that id to come in between.

`KeysReadBack` finds that a key is stored under garbage in one case only, that of a wrong
encryption key whose padding happens to be valid.

**AccountSerialProofs.** What the checks of `createAccount` and `update` achieve when no
other call comes in between. `Serial`, that at most one handler is in flight, is an invariant
if the bound is 1; from it follows that what a handler read still holds when it acts on it:
`AliasStillFree` after the check of the alias, `CountStillRight` after the count,
`OldAliasStillThere` after the row to rename was read. `AliasesSerially`, `OldAliasSerially`
and `FreeOnceSerially` need one each. `FreeOnceSerially` needs two more: `FreeIfFirst`, that
GoMint only pays for users it counted no account of, and `ErrorsSettled`, that an answered
error left no account behind, which is why it excludes faults and aliases that are too long.
With one handler and one network nothing is registered between the two halves of `save()`
(`FoundStillThere`), so that the other refusal cannot happen (`SavedSerially`). `AliasesResolveSerially` adds
`IdsNameThemselves`, that an alias which is an account id is that of the account itself.

**DealServiceProofs.** `DraftsSound` (a draft's open aliases are those still being looked
up, and its sums are zero throughout) and `FetchesSound` (the transaction at each stage is
an instance of the stored deal) strengthen `DealsSound` and `AliasesResolvedToOwn`. That
substitutions keep the sums is `BalanceOfTransfers`: `Balanced` depends on token, nft and
amount of the legs and on nothing else. `BytesAreBalanced` follows from an instance of a
balanced deal being balanced; `ImplementsDealBook` is the refinement. `OneAliasOneAccount`
assumes `DistinctAliases`, that no account is renamed and no two of the accounts that may be
registered share user and alias: `RowsAsGiven` and `LookupsAsGiven` carry that through
lookups at different moments. `SignersSuffice` relates two different sums: the code asks for
the signature of whoever is debited in some transfer, the ledger for that of whoever is
debited on balance, and of the fee payer. A sum is negative only if a summand is
(`SumIsNatural`), so the code asks for enough as far as the assets go, and of the ledger's
signers the bytes may lack the fee payer only. `ShortDealsAreStored` has the invariant `ShortDealsStored`: an insert of a deal
that fits and whose call got an id has happened.

**Sums.** `SumFunctionOnSet` of the community modules is a recursive function over the
subsets of a set. That there is a function which satisfies the recursion, on which everything
else depends, is shown by an induction over finite sets in the form of a minimal
counterexample (`MinimalSubset`, from WFMin, which has no operator as a parameter):
`PartialSumsAgree` and `PartialSumsExist`. `SumOfFirstAndRest`, `SumIsInteger` and
`SumIsNatural` are what the deals use.

**TokenServiceProofs.** `HandlersSound` (what a handler found is the caller's once keys
were decrypted), `FeesSound` (collectors found and still to be found) and `ClientsSound`
(a client that is still being built is shared with nobody) strengthen the four safety
properties; `MintsSound` and `SuppliesSound` tie the ledger's record of a new token to the
request that created it, for `SuppliesStayCapped` and `MintsUseNamedKey`; `OwnersKept`, that registered accounts keep their owners, carries ownership
over other users' steps. `AnswersMatchLedger` is inductive together with `Bookkeeping`. `OtherMetadataServed` takes
the two shapes of a mint that MetadataLost and ListIgnored are about out of the requests
(`Servable`), and shows of all others that a mint which has found its account is only given
up if some account that should sign is not the caller's, or its key not decrypted
(`MintsExcused`).
`ImplementsDelegation` is the refinement.

**AuthServiceProofs.** `StagesSound` (which routes reach which stage, and when no caller is
known yet) and `CredentialsSound` (a session is the caller's of a sign-in with the right
password, a key's row names the caller of the call that generated it, the target of an
acknowledged deletion is gone) strengthen the properties. `NextCallSteps` says once, for
each kind of change to one call, which action makes it; the lemmas after it argue from
that instead of going through all actions again. That nothing revives a key is there:
only the generation of a key writes its row, and it has ended. `ImplementsCredentials` is
the refinement: sign-in, generation and admission map to steps of their own and every other
step to voiding some credentials, possibly none.

**GoMintApiProofs.** `AuthKept` and `AccountsKept` show that each step of the composition
is a step of each half, or leaves its variables alone. So each theorem about a half is one
about the composition, and none here has a hypothesis about the halves. `ApiBookkeeping` is
the invariant that connects them: a handler runs for the user its guard found. With it
`TransactionsAreTraced`, `RowsAreTraced` and `RowChangesAreTraced` follow from the invariants of the two halves. `ApiImplementsCredentials` and
`ApiImplementsCustody` are the three refinements for the composition.

Only model-checked: liveness (`Answered` of each handler, `LedgerAccountRegistered`), which is
out of the prover's reach. All other properties of the passing runs have theorems.

## 6. Not modelled

- Liveness of `/auth`: its handlers have no loop and wait for nobody. `EncryptionKeyGuard`
  asks for a header only and is part of the requests of the other modules. `GET /auth/user`
  reads what `profile` stands for.
- `KeyService.create`, `save` and `KeyBuilder`: no caller in the repository.
- Listings (`GET /account`, `/key`, `/auth/api-key`): they change nothing.
- Cryptography: encryption is modelled by what it preserves (who can decrypt), hashes by
  being injective.
- Wording, logging, response objects, validation of DTO fields by class-validator beyond
  the types of the requests.
- Names, symbols, decimals, expiry and the keys of a token other than its supply key: they
  reach the ledger only, whose verdict is nondeterministic, so every verdict they could lead
  to is covered.
- Guards in front of the deal and token handlers: `GoMintApi` has those of `/account`, which
  are all kinds there are; the others hand over a user in the same way.
- Floating point: amounts are integers; `validateAmounts` adds JavaScript numbers.
- Configuration, start-up, migrations.

## 7. Plan

Done: the accounts, the deals, the token handlers and authentication, each with its abstract
specification, its runs and its proofs; the accounts as the other handlers see them, as a
refinement; token parameters; the composition of authentication with the accounts, with
unconditional theorems; the signatures of deals, with the lemmas on sums that they need; and
what the promises that some run breaks do hold under.

Left for whoever goes on:

1. The deal and token handlers in `GoMintApi`. They are composed like the accounts; what is
   new is that two kinds of handler then read rows that a third one writes, which
   `AccountRegistry` covers.
2. The hazards at account.service.ts:62 and account.mediator.ts:19 have theorems for serial
   calls but no property of a passing run: renames break them in any run that has them.
3. Retries. No request says what it repeats, so a duplicate of a call whose answer was lost
   is a second call like any other; a property about it would need callers that retry.
