----------------------------- MODULE DealService -----------------------------
(***************************************************************************)
(* POST /deal and GET /deal/bytes/:dealId of the GoMint API: createDeal    *)
(* and getDealBytes of DealService, the table gm_deals, and the rows of    *)
(* gm_accounts the handlers read while others register and rename them.    *)
(*                                                                         *)
(* A deal id is the SHA-256 of the deal's JSON: here the deal is its own   *)
(* id.  The handlers of one Node process interleave at their awaits; the   *)
(* lookups of the aliases of one deal are issued together and each reads   *)
(* the table at a moment of its own.                                       *)
(***************************************************************************)
EXTENDS Deals, FiniteSets

CONSTANTS
  Users,             \* rows of the users table
  hasEncryptionKey,  \* whether a user's escrow key is itself encrypted
  Rows,              \* accounts that may be registered: [id, user, alias]
  Renames,           \* aliases an account may be given: [id, alias]
  Publications,      \* calls of createDeal
  Proposals,         \* the requests they may carry: [user, deal]
  Fetches,           \* calls of getDealBytes
  Queries,           \* their parameters: [receiverId, payerId, serial, header]
  MaxLegs,           \* what fits in the 1000 characters of gm_deals.dealJson
  Faults             \* whether calls fail and the process crashes

ASSUME ConstantsAssumption ==
  /\ hasEncryptionKey \in [Users -> BOOLEAN]
  /\ Rows \subseteq [id: Accounts, user: Users, alias: Aliases]
  /\ Renames \subseteq [id: Accounts, alias: Aliases]
  /\ Proposals \subseteq [user: Users, deal: Deal]
  /\ Queries \subseteq
       [receiverId: Accounts \cup Placeholders,
        payerId: Accounts \cup Placeholders \cup {None},
        serial: Serials \cup {None}, header: Users \cup {None}]
  /\ MaxLegs \in Nat
  /\ Faults \in BOOLEAN
  /\ None \notin Users /\ None \notin Proposals /\ None \notin Queries

VARIABLES
  gmAccounts,        \* table gm_accounts
  gmDeals,           \* table gm_deals
  creq, cpc,         \* request and stage of each createDeal
  draft,             \* its createDealDto
  lookups,           \* the legs whose alias is still being looked up
  freq, fid, fpc,    \* parameters, deal id and stage of each getDealBytes
  data,              \* its dealData, then the transaction made of it
  signed             \* the accounts whose keys have signed it

publications == <<creq, cpc, draft, lookups>>
fetches == <<freq, fid, fpc, data, signed>>
vars == <<gmAccounts, gmDeals, creq, cpc, draft, lookups, freq, fid, fpc, data, signed>>

PublishStages == {"swap", "save"}
PublishAnswers == {"published", "unavailable", "crashed"}
FetchStages == {"find", "serial", "signers"}
FetchAnswers ==
  {"signed", "DealNotFoundError", "NotNftOwnerError", "EncryptionKeyNotProvidedError",
   "DecryptionFailedError", "unavailable", "crashed"}

Registry == INSTANCE AccountRegistry WITH Names <- Aliases, rows <- gmAccounts

TypeOK ==
  /\ gmAccounts \in [Accounts -> [user: Users \cup {None}, alias: Aliases \cup {None}]]
  /\ gmDeals \subseteq Deal
  /\ creq \in [Publications -> Proposals \cup {None}]
  /\ cpc \in [Publications -> {"new"} \cup PublishStages \cup PublishAnswers]
  /\ draft \in [Publications -> Deal \cup {None}]
  /\ lookups \in [Publications -> SUBSET Nat]
  /\ freq \in [Fetches -> Queries \cup {None}]
  /\ fid \in [Fetches -> Deal \cup {None}]
  /\ fpc \in [Fetches -> {"new"} \cup FetchStages \cup FetchAnswers]
  /\ data \in [Fetches -> Deal \cup {None}]
  /\ signed \in [Fetches -> SUBSET Accounts]
  /\ \A c \in Publications :
       cpc[c] # "new" => creq[c] \in Proposals /\ draft[c] \in Deal
  /\ \A f \in Fetches : fpc[f] # "new" => freq[f] \in Queries /\ fid[f] \in Deal
  /\ \A f \in Fetches : fpc[f] \in {"serial", "signers", "signed"} => data[f] \in Deal

Init ==
  /\ Registry!Init
  /\ gmDeals = {}
  /\ creq = [c \in Publications |-> None]
  /\ cpc = [c \in Publications |-> "new"]
  /\ draft = [c \in Publications |-> None]
  /\ lookups = [c \in Publications |-> {}]
  /\ freq = [f \in Fetches |-> None]
  /\ fid = [f \in Fetches |-> None]
  /\ fpc = [f \in Fetches |-> "new"]
  /\ data = [f \in Fetches |-> None]
  /\ signed = [f \in Fetches |-> {}]

-----------------------------------------------------------------------------
(* The accounts, as others register and rename them meanwhile.             *)

Registered(a) == Registry!Registered(a)

RegisterAccount ==
  /\ \E row \in Rows : Registry!Register(row.id, row.user, row.alias)
  /\ UNCHANGED <<gmDeals, publications, fetches>>

RenameAccount ==
  /\ \E rename \in Renames : Registry!Rename(rename.id, rename.alias)
  /\ UNCHANGED <<gmDeals, publications, fetches>>

UserAccountIdByAlias_AnyUser(user, alias) ==
  {a \in Accounts : Registered(a) /\ gmAccounts[a].alias = alias}

(* getUserAccountIdByAlias: the first row that matches.                    *)
UserAccountIdByAlias(user, alias) ==
  {a \in Accounts : gmAccounts[a] = [user |-> user, alias |-> alias]}
-----------------------------------------------------------------------------
(* createDeal                                                              *)

PublishTo(c, stage) == cpc' = [cpc EXCEPT ![c] = stage]

ArriveDeal_Unvalidated(c) ==
  /\ cpc[c] = "new"
  /\ \E req \in Proposals :
       /\ creq' = [creq EXCEPT ![c] = req]
       /\ draft' = [draft EXCEPT ![c] = req.deal]
       /\ lookups' = [lookups EXCEPT ![c] = AliasLegs(req.deal)]
       /\ PublishTo(c, IF AliasLegs(req.deal) = {} THEN "save" ELSE "swap")
  /\ UNCHANGED <<gmAccounts, gmDeals, fetches>>

(* The deal is validated and its lookups are issued before the first await. *)
ArriveDeal(c) ==
  /\ cpc[c] = "new"
  /\ \E req \in Proposals :
       /\ creq' = [creq EXCEPT ![c] = req]
       /\ draft' = [draft EXCEPT ![c] = req.deal]
       /\ IF Balanced(req.deal)
          THEN /\ lookups' = [lookups EXCEPT ![c] = AliasLegs(req.deal)]
               /\ PublishTo(c, IF AliasLegs(req.deal) = {} THEN "save" ELSE "swap")
          ELSE UNCHANGED lookups /\ PublishTo(c, "unavailable")
  /\ UNCHANGED <<gmAccounts, gmDeals, fetches>>

AliasFound_First(c) ==
  /\ cpc[c] = "swap"
  /\ \E i \in lookups[c] :
       /\ \E a \in UserAccountIdByAlias(creq[c].user, draft[c].legs[i].account) :
            draft' = [draft EXCEPT ![c] = SetAccount(@, i, a)]
       /\ lookups' = [lookups EXCEPT ![c] = @ \ {i}]
       /\ PublishTo(c, "save")
  /\ UNCHANGED <<gmAccounts, gmDeals, creq, fetches>>

AliasFound(c) ==
  /\ cpc[c] = "swap"
  /\ \E i \in lookups[c] :
       /\ \E a \in UserAccountIdByAlias(creq[c].user, draft[c].legs[i].account) :
            draft' = [draft EXCEPT ![c] = SetAccount(@, i, a)]
       /\ lookups' = [lookups EXCEPT ![c] = @ \ {i}]
       /\ PublishTo(c, IF lookups[c] = {i} THEN "save" ELSE "swap")
  /\ UNCHANGED <<gmAccounts, gmDeals, creq, fetches>>

AliasUnknown_Retried(c) ==
  /\ cpc[c] = "swap"
  /\ \E i \in lookups[c] :
       UserAccountIdByAlias(creq[c].user, draft[c].legs[i].account) = {}
  /\ UNCHANGED vars

(* The first lookup that fails fails the call; the others still end, but   *)
(* their dto is not used any more.                                         *)
AliasUnknown(c) ==
  /\ cpc[c] = "swap"
  /\ \E i \in lookups[c] :
       UserAccountIdByAlias(creq[c].user, draft[c].legs[i].account) = {}
  /\ PublishTo(c, "unavailable")
  /\ UNCHANGED <<gmAccounts, gmDeals, creq, draft, lookups, fetches>>

LookupFails(c) ==
  /\ Faults
  /\ cpc[c] = "swap"
  /\ PublishTo(c, "unavailable")
  /\ UNCHANGED <<gmAccounts, gmDeals, creq, draft, lookups, fetches>>

SaveDeal_Requested(c) ==
  /\ cpc[c] = "save"
  /\ gmDeals' = gmDeals \cup {creq[c].deal}
  /\ PublishTo(c, "published")
  /\ UNCHANGED <<gmAccounts, creq, draft, lookups, fetches>>

(* The insert succeeds, finds the deal there already, or fails; the        *)
(* handler logs the error and answers the deal id all the same.            *)
SaveDeal(c) ==
  /\ cpc[c] = "save"
  /\ \/ /\ Len(draft[c].legs) <= MaxLegs
        /\ gmDeals' = gmDeals \cup {draft[c]}
     \/ /\ Len(draft[c].legs) > MaxLegs \/ Faults
        /\ UNCHANGED gmDeals
  /\ PublishTo(c, "published")
  /\ UNCHANGED <<gmAccounts, creq, draft, lookups, fetches>>

PublishStep(c) ==
  AliasFound(c) \/ AliasUnknown(c) \/ LookupFails(c) \/ SaveDeal(c)

-----------------------------------------------------------------------------
(* getDealBytes                                                            *)

FetchTo(f, stage) == fpc' = [fpc EXCEPT ![f] = stage]

FeePayer(query) == IF query.payerId = None THEN query.receiverId ELSE query.payerId

(* The receiver, then the payer, who is the receiver unless named.         *)
SwapParties(d, query) ==
  SwapAccountId(SwapAccountId(d, "receiver", query.receiverId),
                "payer", FeePayer(query))

(* transferTransaction: the SDK throws at what is no account id or serial  *)
(* number; the query of the signers follows with no await in between.      *)
Freeze(f, d) ==
  IF Executable(d) /\ FeePayer(freq[f]) \in Accounts
  THEN data' = [data EXCEPT ![f] = d] /\ FetchTo(f, "signers")
  ELSE UNCHANGED data /\ FetchTo(f, "unavailable")

(* Whoever was answered a deal id may ask for the bytes.                   *)
ArriveFetch(f) ==
  /\ fpc[f] = "new"
  /\ \E query \in Queries : freq' = [freq EXCEPT ![f] = query]
  /\ \E c \in Publications :
       cpc[c] = "published" /\ fid' = [fid EXCEPT ![f] = draft[c]]
  /\ FetchTo(f, "find")
  /\ UNCHANGED <<gmAccounts, gmDeals, publications, data, signed>>

DealMissing(f) ==
  /\ fpc[f] = "find"
  /\ fid[f] \notin gmDeals
  /\ FetchTo(f, "DealNotFoundError")
  /\ UNCHANGED <<gmAccounts, gmDeals, publications, freq, fid, data, signed>>

(* injectNftSerialNumber asks the mirror node only if it has to.           *)
DealFound(f) ==
  /\ fpc[f] = "find"
  /\ fid[f] \in gmDeals
  /\ LET d == SwapParties(fid[f], freq[f]) IN
       IF LacksSerial(d) /\ freq[f].serial = None
       THEN data' = [data EXCEPT ![f] = d] /\ FetchTo(f, "serial")
       ELSE Freeze(f, SetSerial(d, freq[f].serial))
  /\ UNCHANGED <<gmAccounts, gmDeals, publications, freq, fid, signed>>

(* The mirror node lists the NFTs of the token that the sender owns, and   *)
(* one of them is taken at random.                                         *)
PickSerial(f) ==
  /\ fpc[f] = "serial"
  /\ \E nfts \in SUBSET Serials :
       IF nfts = {}
       THEN FetchTo(f, "NotNftOwnerError") /\ UNCHANGED data
       ELSE \E serial \in nfts : Freeze(f, SetSerial(data[f], serial))
  /\ UNCHANGED <<gmAccounts, gmDeals, publications, freq, fid, signed>>

Protected(a) == hasEncryptionKey[gmAccounts[a].user]

(* Those of the required signers that GoMint holds the keys of.            *)
SignerAccounts(f) == {a \in Accounts : a \in RequiredSigners(data[f]) /\ Registered(a)}

(* One encryption key comes with the call, whoever owns the signers.       *)
SignBytes(f) ==
  /\ fpc[f] = "signers"
  /\ \A a \in SignerAccounts(f) : Protected(a) => freq[f].header = gmAccounts[a].user
  /\ signed' = [signed EXCEPT ![f] = SignerAccounts(f)]
  /\ FetchTo(f, "signed")
  /\ UNCHANGED <<gmAccounts, gmDeals, publications, freq, fid, data>>

(* Under a wrong key decryption fails, or by chance yields what is no key. *)
SignersLocked(f) ==
  /\ fpc[f] = "signers"
  /\ \E a \in SignerAccounts(f) : Protected(a) /\ freq[f].header # gmAccounts[a].user
  /\ IF freq[f].header = None
     THEN FetchTo(f, "EncryptionKeyNotProvidedError")
     ELSE FetchTo(f, "DecryptionFailedError") \/ FetchTo(f, "unavailable")
  /\ UNCHANGED <<gmAccounts, gmDeals, publications, freq, fid, data, signed>>

FetchFails(f) ==
  /\ Faults
  /\ fpc[f] \in FetchStages
  /\ FetchTo(f, "unavailable")
  /\ UNCHANGED <<gmAccounts, gmDeals, publications, freq, fid, data, signed>>

FetchStep(f) ==
  \/ DealMissing(f) \/ DealFound(f) \/ PickSerial(f)
  \/ SignBytes(f) \/ SignersLocked(f) \/ FetchFails(f)

-----------------------------------------------------------------------------

Crash ==
  /\ Faults
  /\ \/ \E c \in Publications : cpc[c] \in PublishStages
     \/ \E f \in Fetches : fpc[f] \in FetchStages
  /\ cpc' = [c \in Publications |->
       IF cpc[c] \in PublishStages THEN "crashed" ELSE cpc[c]]
  /\ fpc' = [f \in Fetches |-> IF fpc[f] \in FetchStages THEN "crashed" ELSE fpc[f]]
  /\ UNCHANGED <<gmAccounts, gmDeals, creq, draft, lookups, freq, fid, data, signed>>

(* Every call has been answered, or there is no deal to ask for.           *)
Quiescent ==
  /\ \A c \in Publications : cpc[c] \in PublishAnswers
  /\ \A f \in Fetches :
       \/ fpc[f] \in FetchAnswers
       \/ fpc[f] = "new" /\ \A c \in Publications : cpc[c] # "published"
  /\ UNCHANGED vars

Next ==
  \/ RegisterAccount \/ RenameAccount
  \/ \E c \in Publications : ArriveDeal(c) \/ PublishStep(c)
  \/ \E f \in Fetches : ArriveFetch(f) \/ FetchStep(f)
  \/ Crash
  \/ Quiescent

Spec == Init /\ [][Next]_vars

(* The database and the mirror node answer every call, or the call fails.  *)
Fairness ==
  /\ \A c \in Publications : WF_vars(PublishStep(c))
  /\ \A f \in Fetches : WF_vars(FetchStep(f))

FairSpec == Spec /\ Fairness

-----------------------------------------------------------------------------
(* Safety.                                                                 *)

(* What is saved is a deal createDeal accepts, between accounts and        *)
(* placeholders: nothing a later reader of gm_deals could resolve in       *)
(* another way than its author meant.                                      *)
DealsSound == \A d \in gmDeals : Balanced(d) /\ AliasLegs(d) = {}

(* However lookups, renames and other users' calls interleave, an alias    *)
(* that has been looked up was replaced by an account of the deal's author *)
(* and the rest of the deal is what was asked for.                         *)
AliasesResolvedToOwn ==
  \A c \in Publications :
    cpc[c] \in {"swap", "save", "published"} =>
      LET asked == creq[c].deal
          got == draft[c]
      IN /\ got.serials = asked.serials
         /\ DOMAIN got.legs = DOMAIN asked.legs
         /\ \A i \in DOMAIN asked.legs :
              /\ got.legs[i] = [asked.legs[i] EXCEPT !.account = got.legs[i].account]
              /\ IF i \in AliasLegs(asked) \ lookups[c]
                 THEN /\ got.legs[i].account \in Accounts
                      /\ gmAccounts[got.legs[i].account].user = creq[c].user
                 ELSE got.legs[i].account = asked.legs[i].account

(* Legs that name the same alias end up on the same account: what the      *)
(* seller gives and is paid is not split by lookups reading the table at   *)
(* different times.                                                        *)
SameAliasSameAccount ==
  \A c \in Publications :
    cpc[c] \in {"save", "published"} =>
      \A i, j \in DOMAIN creq[c].deal.legs :
        creq[c].deal.legs[i].account = creq[c].deal.legs[j].account =>
          draft[c].legs[i].account = draft[c].legs[j].account

(* Bytes that are handed out move nothing out of thin air: the check made  *)
(* on the request holds of the transaction after every substitution.       *)
BytesBalanced ==
  \A f \in Fetches : fpc[f] = "signed" => Balanced(data[f])

(* A deal id that was answered identifies a stored deal.                   *)
PublishedDealStored ==
  \A c \in Publications : cpc[c] = "published" => draft[c] \in gmDeals

(* Of the signatures the ledger asks for, those GoMint holds the keys of   *)
(* when it signs are on the bytes, whatever nets out and whatever the      *)
(* placeholders stand for.  The one that may lack is the fee payer's: the  *)
(* signers are looked for among the legs, and the account that pays for    *)
(* the transaction may give nothing away in any of them.                   *)
SignaturesComplete ==
  [][\A f \in Fetches :
       fpc[f] = "signers" /\ fpc'[f] = "signed" =>
         \A a \in LedgerSigners(data[f], FeePayer(freq[f])) :
           Registered(a) /\ a \notin signed'[f] =>
             a = FeePayer(freq[f]) /\ a \notin NetDebits(data[f])]_vars

(* The same without the exception.  It does not hold: the receiver of a    *)
(* present, who pays the fee unless another payer is named, may well be an *)
(* account GoMint keeps, and its key is not asked for.                     *)
FeePayerSigned ==
  [][\A f \in Fetches :
       fpc[f] = "signers" /\ fpc'[f] = "signed" =>
         {a \in LedgerSigners(data[f], FeePayer(freq[f])) : Registered(a)}
           \subseteq signed'[f]]_vars

(* What the handlers have in hand, and with the above an inductive         *)
(* invariant: a draft on its way to the table ...                          *)
DraftsSound ==
  \A c \in Publications :
    cpc[c] \in {"swap", "save", "published"} =>
      /\ Balanced(draft[c])
      /\ AliasLegs(draft[c]) = lookups[c]
      /\ cpc[c] # "swap" => lookups[c] = {}

(* ... and a transaction on its way to the caller.                         *)
FetchesSound ==
  \A f \in Fetches :
    /\ fpc[f] \in {"serial", "signers", "signed"} => fid[f] \in gmDeals
    /\ fpc[f] = "serial" => data[f] = SwapParties(fid[f], freq[f])
    /\ fpc[f] \in {"signers", "signed"} =>
         Executable(data[f]) /\ Instantiates(data[f], fid[f])
    /\ signed[f] # {} => fpc[f] = "signed"
    /\ \A a \in signed[f] : Registered(a)

Bookkeeping ==
  /\ TypeOK
  /\ DealsSound
  /\ DraftsSound
  /\ AliasesResolvedToOwn
  /\ FetchesSound

(* The deals published and the transactions issued are those of a DealBook.*)
Book == INSTANCE DealBook WITH
  Issues <- Fetches,
  published <- gmDeals,
  issued <- [f \in Fetches |-> IF fpc[f] = "signed" THEN data[f] ELSE None]

BookSpec == Book!Spec

(* Every call is answered.                                                 *)
Answered ==
  /\ \A c \in Publications : cpc[c] # "new" ~> cpc[c] \in PublishAnswers
  /\ \A f \in Fetches : fpc[f] # "new" ~> fpc[f] \in FetchAnswers
=============================================================================
