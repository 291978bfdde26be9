-------------------------- MODULE DealServiceProofs ---------------------------
(***************************************************************************)
(* What holds of DealService for every number of users, accounts, deals    *)
(* and calls, and for deals of every length.                               *)
(***************************************************************************)
EXTENDS DealService, Sums, SequenceTheorems, TLAPS

-----------------------------------------------------------------------------
(* Deals: what a substitution of accounts and serial numbers preserves.    *)

LEMMA LegsOf ==
  ASSUME NEW d \in Deal, NEW i \in DOMAIN d.legs
  PROVE  d.legs[i] \in Leg
  BY DEF Deal

LEMMA DealParts ==
  ASSUME NEW d \in Deal, NEW x
  PROVE  /\ [d EXCEPT !.legs = x] = [legs |-> x, serials |-> d.serials]
         /\ [d EXCEPT !.serials = x] = [legs |-> d.legs, serials |-> x]
  BY DEF Deal

(* Whether a deal is balanced depends on tokens and amounts only.          *)
LEMMA BalanceOfTransfers ==
  ASSUME NEW b, NEW d, DOMAIN b.legs = DOMAIN d.legs,
         \A i \in DOMAIN d.legs :
           /\ b.legs[i].token = d.legs[i].token
           /\ b.legs[i].nft = d.legs[i].nft
           /\ b.legs[i].amount = d.legs[i].amount
  PROVE  Balanced(b) <=> Balanced(d)
  <1>1. Amounts(b) = Amounts(d) BY DEF Amounts
  <1>2. \A token : Fungible(b, token) = Fungible(d, token) BY DEF Fungible
  <1> QED BY <1>1, <1>2 DEF Balanced

LEMMA SetAccountFacts ==
  ASSUME NEW d \in Deal, NEW i \in AliasLegs(d), NEW a \in Accounts
  PROVE  /\ SetAccount(d, i, a) \in Deal
         /\ SetAccount(d, i, a).serials = d.serials
         /\ DOMAIN SetAccount(d, i, a).legs = DOMAIN d.legs
         /\ \A j \in DOMAIN d.legs :
              SetAccount(d, i, a).legs[j] =
                IF j = i THEN [d.legs[j] EXCEPT !.account = a] ELSE d.legs[j]
         /\ AliasLegs(SetAccount(d, i, a)) = AliasLegs(d) \ {i}
         /\ Balanced(SetAccount(d, i, a)) <=> Balanced(d)
  <1> DEFINE b == SetAccount(d, i, a)
  <1>1. i \in DOMAIN d.legs /\ d.legs \in Seq(Leg) BY DEF AliasLegs, Deal
  <1>2. [d.legs[i] EXCEPT !.account = a] \in Leg
    BY <1>1, LegsOf DEF Leg, Refs
  <1>3. b.legs = [d.legs EXCEPT ![i] = [d.legs[i] EXCEPT !.account = a]]
    BY <1>1 DEF SetAccount, Deal
  <1>4. b.serials = d.serials BY DEF SetAccount, Deal
  <1>5. b.legs \in Seq(Leg) /\ DOMAIN b.legs = DOMAIN d.legs
    BY <1>1, <1>2, <1>3
  <1>6. b = [legs |-> b.legs, serials |-> b.serials]
    <2> DEFINE x == [d.legs EXCEPT ![i].account = a]
    <2>1. b = [d EXCEPT !.legs = x] BY DEF SetAccount
    <2> HIDE DEF b, x
    <2> QED BY <2>1, DealParts
  <1>7. b \in Deal BY <1>4, <1>5, <1>6 DEF Deal
  <1>8. \A j \in DOMAIN d.legs :
          b.legs[j] = IF j = i THEN [d.legs[j] EXCEPT !.account = a] ELSE d.legs[j]
    BY <1>3
  <1>9. AliasLegs(b) = AliasLegs(d) \ {i}
    <2>1. b.legs[i].account = a
      BY <1>1, <1>8, LegsOf DEF Leg
    <2>2. a \notin Aliases BY NamesAssumption
    <2> HIDE DEF b
    <2>3. ASSUME NEW j \in DOMAIN d.legs
          PROVE  b.legs[j].account \in Aliases <=> d.legs[j].account \in Aliases /\ j # i
      BY <1>8, <2>1, <2>2, <2>3
    <2> QED BY <1>5, <2>3 DEF AliasLegs
  <1>10. Balanced(b) <=> Balanced(d)
    <2>1. \A j \in DOMAIN d.legs :
            /\ b.legs[j].token = d.legs[j].token
            /\ b.legs[j].nft = d.legs[j].nft
            /\ b.legs[j].amount = d.legs[j].amount
      <3> HIDE DEF b
      <3> QED BY <1>8, LegsOf DEF Leg
    <2> HIDE DEF b
    <2> QED BY <1>5, <2>1, BalanceOfTransfers
  <1> QED BY <1>4, <1>5, <1>7, <1>8, <1>9, <1>10

LEMMA SwapAccountIdFacts ==
  ASSUME NEW d \in Deal, NEW placeholder, NEW a \in Accounts \cup Placeholders
  PROVE  /\ SwapAccountId(d, placeholder, a) \in Deal
         /\ SwapAccountId(d, placeholder, a).serials = d.serials
         /\ DOMAIN SwapAccountId(d, placeholder, a).legs = DOMAIN d.legs
         /\ \A j \in DOMAIN d.legs :
              SwapAccountId(d, placeholder, a).legs[j] =
                IF d.legs[j].account = placeholder
                THEN [d.legs[j] EXCEPT !.account = a] ELSE d.legs[j]
  <1> DEFINE b == SwapAccountId(d, placeholder, a)
             leg(j) == IF d.legs[j].account = placeholder
                       THEN [d.legs[j] EXCEPT !.account = a] ELSE d.legs[j]
  <1>1. d.legs \in Seq(Leg) BY DEF Deal
  <1>2. \A j \in DOMAIN d.legs : leg(j) \in Leg
    BY LegsOf DEF Leg, Refs
  <1>3. b.legs = [j \in DOMAIN d.legs |-> leg(j)] /\ b.serials = d.serials
    BY DEF SwapAccountId, Deal
  <1>4. DOMAIN d.legs = 1 .. Len(d.legs) /\ Len(d.legs) \in Nat BY <1>1
  <1> HIDE DEF leg
  <1>5. b.legs \in Seq(Leg) BY <1>2, <1>3, <1>4
  <1>6. b = [legs |-> b.legs, serials |-> b.serials]
    <2> DEFINE x == [j \in DOMAIN d.legs |->
                       IF d.legs[j].account = placeholder
                       THEN [d.legs[j] EXCEPT !.account = a] ELSE d.legs[j]]
    <2>1. b = [d EXCEPT !.legs = x] BY DEF SwapAccountId
    <2> HIDE DEF b, x
    <2> QED BY <2>1, DealParts
  <1>7. b \in Deal BY <1>3, <1>5, <1>6 DEF Deal
  <1> QED BY <1>3, <1>7 DEF leg

LEMMA SetSerialFacts ==
  ASSUME NEW d \in Deal, NEW serial \in Serials \cup {None}
  PROVE  /\ SetSerial(d, serial) \in Deal
         /\ SetSerial(d, serial).legs = d.legs
         /\ DOMAIN SetSerial(d, serial).serials = DOMAIN d.serials
         /\ \A k \in DOMAIN d.serials :
              d.serials[k] # None => SetSerial(d, serial).serials[k] = d.serials[k]
  <1>1. CASE LacksSerial(d)
    <2> DEFINE b == [d EXCEPT !.serials[1] = serial]
    <2>1. b = [legs |-> d.legs, serials |-> [d.serials EXCEPT ![1] = serial]]
      BY DealParts
    <2>2. [d.serials EXCEPT ![1] = serial] \in Seq(Serials \cup {None})
      <3> DEFINE S == Serials \cup {None}
      <3>1. d.serials \in Seq(S) BY DEF Deal
      <3> HIDE DEF S
      <3>2. serial \in S BY DEF S
      <3>3. 1 \in 1 .. Len(d.serials) BY <1>1, <3>1, EmptySeq DEF LacksSerial
      <3>4. [d.serials EXCEPT ![1] = serial] \in Seq(S) BY <3>1, <3>2, <3>3, ExceptSeq
      <3> QED BY <3>4 DEF S
    <2>3. d.serials[1] = None BY <1>1 DEF LacksSerial
    <2>4. b.legs = d.legs /\ b \in Deal BY <2>1, <2>2 DEF Deal
    <2>5. /\ DOMAIN b.serials = DOMAIN d.serials
          /\ \A k \in DOMAIN d.serials : k # 1 => b.serials[k] = d.serials[k]
      BY <2>1
    <2>6. SetSerial(d, serial) = b BY <1>1 DEF SetSerial
    <2> HIDE DEF b
    <2> QED BY <2>3, <2>4, <2>5, <2>6
  <1>2. CASE ~LacksSerial(d)
    BY <1>2 DEF SetSerial
  <1> QED BY <1>1, <1>2

LEMMA QueryTypes ==
  ASSUME NEW query \in Queries
  PROVE  /\ query.receiverId \in Accounts \cup Placeholders
         /\ FeePayer(query) \in Accounts \cup Placeholders
         /\ query.serial \in Serials \cup {None}
  BY ConstantsAssumption DEF FeePayer

(* Whatever parties a query names, naming them fills in a deal's           *)
(* placeholders and touches nothing else.                                  *)
LEMMA SwapPartiesFacts ==
  ASSUME NEW d \in Deal, NEW query \in Queries
  PROVE  /\ SwapParties(d, query) \in Deal
         /\ SwapParties(d, query).serials = d.serials
         /\ Instantiates(SwapParties(d, query), d)
  <1> DEFINE e == SwapAccountId(d, "receiver", query.receiverId)
             b == SwapAccountId(e, "payer", FeePayer(query))
  <1>1. /\ e \in Deal /\ e.serials = d.serials /\ DOMAIN e.legs = DOMAIN d.legs
        /\ \A j \in DOMAIN d.legs :
             e.legs[j] = IF d.legs[j].account = "receiver"
                         THEN [d.legs[j] EXCEPT !.account = query.receiverId]
                         ELSE d.legs[j]
    BY SwapAccountIdFacts, QueryTypes
  <1> HIDE DEF e
  <1>2. /\ b \in Deal /\ b.serials = e.serials /\ DOMAIN b.legs = DOMAIN e.legs
        /\ \A j \in DOMAIN e.legs :
             b.legs[j] = IF e.legs[j].account = "payer"
                         THEN [e.legs[j] EXCEPT !.account = FeePayer(query)]
                         ELSE e.legs[j]
    BY <1>1, SwapAccountIdFacts, QueryTypes
  <1>3. SwapParties(d, query) = b BY DEF SwapParties, e
  <1> HIDE DEF b
  <1>4. \A j \in DOMAIN d.legs :
          /\ b.legs[j].token = d.legs[j].token
          /\ b.legs[j].nft = d.legs[j].nft
          /\ b.legs[j].amount = d.legs[j].amount
    <2>1. ASSUME NEW j \in DOMAIN d.legs
          PROVE  /\ e.legs[j].token = d.legs[j].token
                 /\ e.legs[j].nft = d.legs[j].nft
                 /\ e.legs[j].amount = d.legs[j].amount
      BY <1>1, LegsOf DEF Leg
    <2>2. ASSUME NEW j \in DOMAIN d.legs
          PROVE  /\ b.legs[j].token = e.legs[j].token
                 /\ b.legs[j].nft = e.legs[j].nft
                 /\ b.legs[j].amount = e.legs[j].amount
      BY <1>1, <1>2, LegsOf DEF Leg
    <2> QED BY <2>1, <2>2
  <1>5. \A j \in DOMAIN d.legs :
          /\ e.legs[j].account = IF d.legs[j].account = "receiver"
                                 THEN query.receiverId ELSE d.legs[j].account
          /\ b.legs[j].account = IF e.legs[j].account = "payer"
                                 THEN FeePayer(query) ELSE e.legs[j].account
    BY <1>1, <1>2, LegsOf DEF Leg
  <1>6. Instantiates(b, d)
    BY <1>1, <1>2, <1>4, <1>5 DEF Instantiates, Placeholders
  <1> QED BY <1>1, <1>2, <1>3, <1>6

LEMMA SetSerialInstantiates ==
  ASSUME NEW d \in Deal, NEW b \in Deal, NEW serial \in Serials \cup {None},
         Instantiates(b, d)
  PROVE  Instantiates(SetSerial(b, serial), d)
  <1>1. /\ SetSerial(b, serial).legs = b.legs
        /\ DOMAIN SetSerial(b, serial).serials = DOMAIN b.serials
        /\ \A k \in DOMAIN b.serials :
             b.serials[k] # None => SetSerial(b, serial).serials[k] = b.serials[k]
    BY SetSerialFacts
  <1> QED BY <1>1 DEF Instantiates

LEMMA InstantiatesBalanced ==
  ASSUME NEW b, NEW d, Instantiates(b, d), Balanced(d)
  PROVE  Balanced(b)
  BY BalanceOfTransfers DEF Instantiates

-----------------------------------------------------------------------------
(* Types.                                                                  *)

LEMMA PublicationTypes ==
  ASSUME TypeOK, NEW c \in Publications, cpc[c] # "new"
  PROVE  /\ creq[c] \in Proposals
         /\ creq[c].user \in Users
         /\ creq[c].deal \in Deal
         /\ draft[c] \in Deal
  BY ConstantsAssumption DEF TypeOK

LEMMA FetchTypes ==
  ASSUME TypeOK, NEW f \in Fetches, fpc[f] # "new"
  PROVE  freq[f] \in Queries /\ fid[f] \in Deal
  BY DEF TypeOK

LEMMA FindTypes ==
  ASSUME NEW user, NEW alias, NEW a \in UserAccountIdByAlias(user, alias)
  PROVE  a \in Accounts /\ gmAccounts[a].user = user
  BY DEF UserAccountIdByAlias

(* What is frozen is a deal the SDK accepts, or the fetch ends there.      *)
LEMMA FreezeCases ==
  ASSUME TypeOK, NEW f \in Fetches, NEW d \in Deal, Freeze(f, d)
  PROVE  \/ /\ Executable(d)
            /\ data' = [data EXCEPT ![f] = d]
            /\ fpc' = [fpc EXCEPT ![f] = "signers"]
         \/ /\ data' = data
            /\ fpc' = [fpc EXCEPT ![f] = "unavailable"]
  BY DEF Freeze, FetchTo

LEMMA InitTypeOK == Init => TypeOK
  BY DEF Init, TypeOK, Registry!Init, Registry!NoRow

(* Every step keeps the types, given that lookups are about alias legs.    *)
LEMMA NextTypeOK ==
  ASSUME TypeOK, DraftsSound, [Next]_vars
  PROVE  TypeOK'
  <1> USE DEF PublishStages, PublishAnswers, FetchStages, FetchAnswers, publications, fetches
  <1>1. CASE RegisterAccount
    <2>1. gmAccounts' \in [Accounts -> [user: Users \cup {None}, alias: Aliases \cup {None}]]
      BY <1>1, ConstantsAssumption DEF TypeOK, RegisterAccount, Registry!Register
    <2> QED BY <1>1, <2>1 DEF TypeOK, RegisterAccount
  <1>2. CASE RenameAccount
    <2>1. gmAccounts' \in [Accounts -> [user: Users \cup {None}, alias: Aliases \cup {None}]]
      BY <1>2, ConstantsAssumption DEF TypeOK, RenameAccount, Registry!Rename
    <2> QED BY <1>2, <2>1 DEF TypeOK, RenameAccount
  <1>3. ASSUME NEW c \in Publications, ArriveDeal(c) PROVE TypeOK'
    <2>1. PICK req \in Proposals :
            /\ creq' = [creq EXCEPT ![c] = req]
            /\ draft' = [draft EXCEPT ![c] = req.deal]
            /\ \/ /\ lookups' = [lookups EXCEPT ![c] = AliasLegs(req.deal)]
                  /\ cpc' = [cpc EXCEPT ![c] =
                       IF AliasLegs(req.deal) = {} THEN "save" ELSE "swap"]
               \/ lookups' = lookups /\ cpc' = [cpc EXCEPT ![c] = "unavailable"]
      BY <1>3 DEF ArriveDeal, PublishTo
    <2>2. req.deal \in Deal BY ConstantsAssumption
    <2>3. AliasLegs(req.deal) \subseteq Nat BY <2>2 DEF AliasLegs, Deal
    <2>4. UNCHANGED <<gmAccounts, gmDeals, fetches>> BY <1>3 DEF ArriveDeal
    <2>5. lookups' \in [Publications -> SUBSET Nat] BY <2>1, <2>3 DEF TypeOK
    <2>6. /\ creq' \in [Publications -> Proposals \cup {None}]
          /\ draft' \in [Publications -> Deal \cup {None}]
          /\ cpc' \in [Publications -> {"new"} \cup PublishStages \cup PublishAnswers]
      BY <2>1, <2>2 DEF TypeOK
    <2>7. \A p \in Publications : cpc'[p] # "new" => creq'[p] \in Proposals /\ draft'[p] \in Deal
      BY <2>1, <2>2 DEF TypeOK
    <2> QED BY <2>4, <2>5, <2>6, <2>7 DEF TypeOK
  <1>4. ASSUME NEW c \in Publications, AliasFound(c) PROVE TypeOK'
    <2>1. PICK i \in lookups[c] :
            /\ \E a \in UserAccountIdByAlias(creq[c].user, draft[c].legs[i].account) :
                 draft' = [draft EXCEPT ![c] = SetAccount(draft[c], i, a)]
            /\ lookups' = [lookups EXCEPT ![c] = lookups[c] \ {i}]
            /\ cpc' = [cpc EXCEPT ![c] = IF lookups[c] = {i} THEN "save" ELSE "swap"]
      BY <1>4 DEF AliasFound, PublishTo
    <2>2. PICK a \in Accounts : draft' = [draft EXCEPT ![c] = SetAccount(draft[c], i, a)]
      BY <2>1, FindTypes
    <2>3. draft[c] \in Deal BY <1>4, PublicationTypes DEF AliasFound
    <2>4. SetAccount(draft[c], i, a) \in Deal
      <3>1. i \in AliasLegs(draft[c]) BY <1>4, <2>1 DEF DraftsSound, AliasFound
      <3> QED BY <2>3, <3>1, SetAccountFacts
    <2>5. UNCHANGED <<gmAccounts, gmDeals, creq, fetches>> BY <1>4 DEF AliasFound
    <2>6. cpc[c] = "swap" BY <1>4 DEF AliasFound
    <2> HIDE DEF publications
    <2> QED BY <2>1, <2>2, <2>4, <2>5, <2>6 DEF TypeOK
  <1>5. ASSUME NEW c \in Publications, AliasUnknown(c) \/ LookupFails(c) PROVE TypeOK'
    BY <1>5 DEF TypeOK, AliasUnknown, LookupFails, PublishTo
  <1>6. ASSUME NEW c \in Publications, SaveDeal(c) PROVE TypeOK'
    <2>1. draft[c] \in Deal BY <1>6, PublicationTypes DEF SaveDeal
    <2> QED BY <1>6, <2>1 DEF TypeOK, SaveDeal, PublishTo
  <1>7. ASSUME NEW f \in Fetches, ArriveFetch(f) PROVE TypeOK'
    <2>1. PICK query \in Queries : freq' = [freq EXCEPT ![f] = query]
      BY <1>7 DEF ArriveFetch
    <2>2. PICK d \in Deal : fid' = [fid EXCEPT ![f] = d]
      BY <1>7, PublicationTypes DEF ArriveFetch
    <2>3. fpc' = [fpc EXCEPT ![f] = "find"] /\ UNCHANGED <<gmAccounts, gmDeals, publications, data, signed>>
      BY <1>7 DEF ArriveFetch, FetchTo
    <2> QED BY <2>1, <2>2, <2>3 DEF TypeOK
  <1>8. ASSUME NEW f \in Fetches, DealFound(f) PROVE TypeOK'
    <2> DEFINE d == SwapParties(fid[f], freq[f])
    <2>1. /\ d \in Deal
          /\ SetSerial(d, freq[f].serial) \in Deal
      BY <1>8, FetchTypes, QueryTypes, SwapPartiesFacts, SetSerialFacts DEF DealFound
    <2>2. \/ data' = [data EXCEPT ![f] = d] /\ fpc' = [fpc EXCEPT ![f] = "serial"]
          \/ Freeze(f, SetSerial(d, freq[f].serial))
      BY <1>8 DEF DealFound, FetchTo
    <2>3. PICK e \in Deal :
            \/ /\ data' = [data EXCEPT ![f] = e]
               /\ fpc' = [fpc EXCEPT ![f] = "serial"] \/ fpc' = [fpc EXCEPT ![f] = "signers"]
            \/ data' = data /\ fpc' = [fpc EXCEPT ![f] = "unavailable"]
      <3> HIDE DEF d
      <3> QED BY <2>1, <2>2, FreezeCases
    <2>4. UNCHANGED <<gmAccounts, gmDeals, publications, freq, fid, signed>>
      BY <1>8 DEF DealFound
    <2>5. fpc[f] = "find" BY <1>8 DEF DealFound
    <2> HIDE DEF d
    <2>6. data' \in [Fetches -> Deal \cup {None}] BY <2>3 DEF TypeOK
    <2>7. CASE /\ data' = [data EXCEPT ![f] = e]
               /\ fpc' = [fpc EXCEPT ![f] = "serial"] \/ fpc' = [fpc EXCEPT ![f] = "signers"]
      BY <2>4, <2>5, <2>6, <2>7 DEF TypeOK
    <2>8. CASE data' = data /\ fpc' = [fpc EXCEPT ![f] = "unavailable"]
      BY <2>4, <2>5, <2>8 DEF TypeOK
    <2> QED BY <2>3, <2>7, <2>8
  <1>9. ASSUME NEW f \in Fetches, PickSerial(f) PROVE TypeOK'
    <2>1. data[f] \in Deal BY <1>9 DEF TypeOK, PickSerial
    <2>2. PICK e \in Deal :
            \/ data' = [data EXCEPT ![f] = e] /\ fpc' = [fpc EXCEPT ![f] = "signers"]
            \/ /\ data' = data
               /\ \/ fpc' = [fpc EXCEPT ![f] = "unavailable"]
                  \/ fpc' = [fpc EXCEPT ![f] = "NotNftOwnerError"]
      BY <1>9, <2>1, SetSerialFacts, FreezeCases DEF PickSerial, FetchTo
    <2>3. UNCHANGED <<gmAccounts, gmDeals, publications, freq, fid, signed>> /\ fpc[f] = "serial"
      BY <1>9 DEF PickSerial
    <2> QED BY <2>2, <2>3 DEF TypeOK
  <1>10. ASSUME NEW f \in Fetches, SignBytes(f) PROVE TypeOK'
    <2>1. SignerAccounts(f) \subseteq Accounts BY DEF SignerAccounts
    <2> QED BY <1>10, <2>1 DEF TypeOK, SignBytes, FetchTo
  <1>11. ASSUME NEW f \in Fetches, DealMissing(f) \/ SignersLocked(f) \/ FetchFails(f)
         PROVE  TypeOK'
    BY <1>11 DEF TypeOK, DealMissing, SignersLocked, FetchFails, FetchTo
  <1>12. CASE Crash
    BY <1>12 DEF TypeOK, Crash
  <1>13. CASE Quiescent \/ UNCHANGED vars
    BY <1>13 DEF TypeOK, Quiescent, vars
  <1> QED BY <1>1, <1>2, <1>3, <1>4, <1>5, <1>6, <1>7, <1>8, <1>9, <1>10, <1>11, <1>12, <1>13
       DEF Next, PublishStep, FetchStep

-----------------------------------------------------------------------------
(* What a step does to one row, to one createDeal, to one getDealBytes.    *)

LEMMA OwnersKept ==
  ASSUME TypeOK, [Next]_vars, NEW a \in Accounts, Registered(a)
  PROVE  gmAccounts'[a].user = gmAccounts[a].user
  <1>1. CASE RegisterAccount
    <2>1. PICK row \in Rows :
            /\ ~Registered(row.id)
            /\ gmAccounts' = [gmAccounts EXCEPT ![row.id] =
                 [user |-> row.user, alias |-> row.alias]]
      BY <1>1 DEF RegisterAccount, Registry!Register, Registered
    <2> QED BY <2>1 DEF TypeOK
  <1>2. CASE RenameAccount
    BY <1>2, ConstantsAssumption DEF TypeOK, RenameAccount, Registry!Rename
  <1>3. CASE ~RegisterAccount /\ ~RenameAccount
    <2>1. gmAccounts' = gmAccounts
      BY <1>3 DEF Next, vars, PublishStep, FetchStep, ArriveDeal, AliasFound, AliasUnknown,
           LookupFails, SaveDeal, ArriveFetch, DealMissing, DealFound, PickSerial,
           SignBytes, SignersLocked, FetchFails, Crash, Quiescent
    <2> QED BY <2>1
  <1> QED BY <1>1, <1>2, <1>3

PublicationHalts(c) ==
  /\ creq'[c] = creq[c] /\ draft'[c] = draft[c] /\ lookups'[c] = lookups[c]
  /\ cpc'[c] \in {cpc[c], "unavailable", "crashed"}

LEMMA PublicationSteps ==
  ASSUME TypeOK, [Next]_vars, NEW c \in Publications
  PROVE  ArriveDeal(c) \/ AliasFound(c) \/ SaveDeal(c) \/ PublicationHalts(c)
  <1> USE DEF PublicationHalts, PublishTo
  <1>1. CASE UNCHANGED publications BY <1>1 DEF publications
  <1>2. ASSUME NEW p \in Publications, p # c,
               ArriveDeal(p) \/ AliasFound(p) \/ SaveDeal(p)
        PROVE  PublicationHalts(c)
    BY <1>2 DEF TypeOK, ArriveDeal, AliasFound, SaveDeal
  <1>3. ASSUME NEW p \in Publications, AliasUnknown(p) \/ LookupFails(p)
        PROVE  PublicationHalts(c)
    BY <1>3 DEF TypeOK, AliasUnknown, LookupFails
  <1>4. CASE Crash BY <1>4 DEF Crash
  <1>5. ASSUME NEW f \in Fetches, ArriveFetch(f) \/ FetchStep(f)
        PROVE  UNCHANGED publications
    BY <1>5 DEF ArriveFetch, FetchStep, DealMissing, DealFound, PickSerial, SignBytes,
         SignersLocked, FetchFails
  <1>6. CASE RegisterAccount \/ RenameAccount \/ Quiescent \/ UNCHANGED vars
    BY <1>6 DEF RegisterAccount, RenameAccount, Quiescent, vars, publications
  <1> QED BY <1>1, <1>2, <1>3, <1>4, <1>5, <1>6 DEF Next, PublishStep

FetchHalts(f) ==
  /\ freq'[f] = freq[f] /\ fid'[f] = fid[f] /\ data'[f] = data[f] /\ signed'[f] = signed[f]
  /\ \/ fpc'[f] = fpc[f]
     \/ /\ fpc[f] \in FetchStages
        /\ fpc'[f] \in FetchAnswers \ {"signed"}

LEMMA FetchSteps ==
  ASSUME TypeOK, [Next]_vars, NEW f \in Fetches
  PROVE  ArriveFetch(f) \/ DealFound(f) \/ PickSerial(f) \/ SignBytes(f) \/ FetchHalts(f)
  <1> USE DEF FetchHalts, FetchTo
  <1>1. CASE UNCHANGED fetches BY <1>1 DEF fetches
  <1>2. ASSUME NEW g \in Fetches, g # f, ArriveFetch(g) \/ SignBytes(g)
        PROVE  FetchHalts(f)
    BY <1>2 DEF TypeOK, ArriveFetch, SignBytes
  <1>3. ASSUME NEW g \in Fetches, g # f, DealFound(g) \/ PickSerial(g)
        PROVE  FetchHalts(f)
    BY <1>3 DEF TypeOK, DealFound, PickSerial, Freeze
  <1>4. ASSUME NEW g \in Fetches, DealMissing(g) \/ SignersLocked(g) \/ FetchFails(g)
        PROVE  FetchHalts(f)
    BY <1>4 DEF TypeOK, DealMissing, SignersLocked, FetchFails, FetchStages, FetchAnswers
  <1>5. CASE Crash BY <1>5 DEF Crash, FetchAnswers
  <1>6. ASSUME NEW c \in Publications, ArriveDeal(c) \/ PublishStep(c)
        PROVE  UNCHANGED fetches
    BY <1>6 DEF ArriveDeal, PublishStep, AliasFound, AliasUnknown, LookupFails, SaveDeal
  <1>7. CASE RegisterAccount \/ RenameAccount \/ Quiescent \/ UNCHANGED vars
    BY <1>7 DEF RegisterAccount, RenameAccount, Quiescent, vars, fetches
  <1> QED BY <1>1, <1>2, <1>3, <1>4, <1>5, <1>6, <1>7 DEF Next, FetchStep

(* The table of deals only grows, by the draft of a deal being saved.      *)
LEMMA DealsGrow ==
  ASSUME [Next]_vars
  PROVE  \/ gmDeals' = gmDeals
         \/ \E c \in Publications :
              cpc[c] = "save" /\ gmDeals' = gmDeals \cup {draft[c]}
  <1>1. ASSUME NEW c \in Publications, SaveDeal(c)
        PROVE  \/ gmDeals' = gmDeals
               \/ cpc[c] = "save" /\ gmDeals' = gmDeals \cup {draft[c]}
    BY <1>1 DEF SaveDeal
  <1>2. ASSUME \A c \in Publications : ~SaveDeal(c)
        PROVE  gmDeals' = gmDeals
    BY <1>2 DEF Next, vars, RegisterAccount, RenameAccount, PublishStep, FetchStep,
         ArriveDeal, AliasFound, AliasUnknown, LookupFails, ArriveFetch, DealMissing,
         DealFound, PickSerial, SignBytes, SignersLocked, FetchFails, Crash, Quiescent
  <1> QED BY <1>1, <1>2

-----------------------------------------------------------------------------
(* The invariant, conjunct by conjunct.                                    *)

LEMMA NextDealsSound ==
  ASSUME Bookkeeping, [Next]_vars
  PROVE  DealsSound'
  <1>1. \A c \in Publications :
          cpc[c] = "save" => Balanced(draft[c]) /\ AliasLegs(draft[c]) = {}
    BY DEF Bookkeeping, DraftsSound
  <1> QED BY <1>1, DealsGrow DEF Bookkeeping, DealsSound

LEMMA NextDraftsSound ==
  ASSUME Bookkeeping, [Next]_vars
  PROVE  DraftsSound'
  <1>0. TypeOK /\ DraftsSound BY DEF Bookkeeping
  <1> SUFFICES ASSUME NEW c \in Publications, cpc'[c] \in {"swap", "save", "published"}
               PROVE  /\ Balanced(draft'[c])
                      /\ AliasLegs(draft'[c]) = lookups'[c]
                      /\ cpc'[c] # "swap" => lookups'[c] = {}
    BY DEF DraftsSound
  <1>1. CASE ArriveDeal(c)
    BY <1>0, <1>1 DEF TypeOK, ArriveDeal, PublishTo
  <1>2. CASE AliasFound(c)
    <2>1. PICK i \in lookups[c] :
            /\ \E a \in UserAccountIdByAlias(creq[c].user, draft[c].legs[i].account) :
                 draft' = [draft EXCEPT ![c] = SetAccount(draft[c], i, a)]
            /\ lookups' = [lookups EXCEPT ![c] = lookups[c] \ {i}]
            /\ cpc' = [cpc EXCEPT ![c] = IF lookups[c] = {i} THEN "save" ELSE "swap"]
      BY <1>2 DEF AliasFound, PublishTo
    <2>2. PICK a \in Accounts : draft' = [draft EXCEPT ![c] = SetAccount(draft[c], i, a)]
      BY <2>1, FindTypes
    <2>3. draft[c] \in Deal /\ cpc[c] = "swap"
      BY <1>0, <1>2, PublicationTypes DEF AliasFound
    <2>4. Balanced(draft[c]) /\ AliasLegs(draft[c]) = lookups[c]
      BY <1>0, <2>3 DEF DraftsSound
    <2>5. /\ Balanced(SetAccount(draft[c], i, a))
          /\ AliasLegs(SetAccount(draft[c], i, a)) = lookups[c] \ {i}
      BY <2>3, <2>4, SetAccountFacts
    <2>6. draft'[c] = SetAccount(draft[c], i, a) /\ lookups'[c] = lookups[c] \ {i}
      BY <1>0, <2>1, <2>2 DEF TypeOK
    <2>7. cpc'[c] # "swap" => lookups[c] = {i}
      BY <1>0, <2>1 DEF TypeOK
    <2> QED BY <2>5, <2>6, <2>7
  <1>3. CASE SaveDeal(c)
    BY <1>0, <1>3 DEF TypeOK, DraftsSound, SaveDeal, PublishTo
  <1>4. CASE PublicationHalts(c)
    BY <1>0, <1>4 DEF DraftsSound, PublicationHalts
  <1> QED BY <1>0, <1>1, <1>2, <1>3, <1>4, PublicationSteps

LEMMA NextAliasesResolved ==
  ASSUME Bookkeeping, [Next]_vars
  PROVE  AliasesResolvedToOwn'
  <1>0. TypeOK /\ DraftsSound /\ AliasesResolvedToOwn BY DEF Bookkeeping
  <1> SUFFICES ASSUME NEW c \in Publications, cpc'[c] \in {"swap", "save", "published"}
               PROVE  LET asked == creq'[c].deal
                          got == draft'[c]
                      IN /\ got.serials = asked.serials
                         /\ DOMAIN got.legs = DOMAIN asked.legs
                         /\ \A i \in DOMAIN asked.legs :
                              /\ got.legs[i] =
                                   [asked.legs[i] EXCEPT !.account = got.legs[i].account]
                              /\ IF i \in AliasLegs(asked) \ lookups'[c]
                                 THEN /\ got.legs[i].account \in Accounts
                                      /\ gmAccounts'[got.legs[i].account].user = creq'[c].user
                                 ELSE got.legs[i].account = asked.legs[i].account
    BY DEF AliasesResolvedToOwn
  <1>1. CASE ArriveDeal(c)
    <2>1. PICK req \in Proposals :
            /\ creq'[c] = req /\ draft'[c] = req.deal
            /\ lookups'[c] = AliasLegs(req.deal)
      BY <1>0, <1>1 DEF TypeOK, ArriveDeal, PublishTo
    <2>2. req.deal \in Deal BY ConstantsAssumption
    <2>3. \A i \in DOMAIN req.deal.legs :
            req.deal.legs[i] = [req.deal.legs[i] EXCEPT !.account = req.deal.legs[i].account]
      BY <2>2, LegsOf DEF Leg
    <2> QED BY <2>1, <2>3
  <1> DEFINE asked == creq[c].deal
             got == draft[c]
  <1>2. ASSUME cpc[c] \in {"swap", "save", "published"}
        PROVE  /\ asked \in Deal /\ got \in Deal /\ creq[c].user \in Users
               /\ got.serials = asked.serials
               /\ DOMAIN got.legs = DOMAIN asked.legs
               /\ \A i \in DOMAIN asked.legs :
                    /\ got.legs[i] = [asked.legs[i] EXCEPT !.account = got.legs[i].account]
                    /\ i \in AliasLegs(asked) \ lookups[c] =>
                         /\ got.legs[i].account \in Accounts
                         /\ gmAccounts[got.legs[i].account].user = creq[c].user
                         /\ gmAccounts'[got.legs[i].account].user = creq[c].user
                    /\ i \notin AliasLegs(asked) \ lookups[c] =>
                         got.legs[i].account = asked.legs[i].account
    <2>1. asked \in Deal /\ got \in Deal /\ creq[c].user \in Users
      BY <1>0, <1>2, PublicationTypes
    <2>2. creq[c].user # None BY <2>1, ConstantsAssumption
    <2>3. \A a \in Accounts :
            gmAccounts[a].user = creq[c].user => gmAccounts'[a].user = creq[c].user
      BY <1>0, <2>2, OwnersKept DEF Registered, Registry!Registered
    <2> QED BY <1>0, <1>2, <2>1, <2>3 DEF AliasesResolvedToOwn
  <1>3. CASE AliasFound(c)
    <2>1. PICK i \in lookups[c] :
            \E a \in UserAccountIdByAlias(creq[c].user, draft[c].legs[i].account) :
              /\ draft' = [draft EXCEPT ![c] = SetAccount(draft[c], i, a)]
              /\ lookups' = [lookups EXCEPT ![c] = lookups[c] \ {i}]
      BY <1>3 DEF AliasFound
    <2>2. PICK a \in Accounts :
            /\ gmAccounts[a].user = creq[c].user
            /\ draft' = [draft EXCEPT ![c] = SetAccount(draft[c], i, a)]
            /\ lookups' = [lookups EXCEPT ![c] = lookups[c] \ {i}]
      BY <2>1, FindTypes
    <2>3. cpc[c] = "swap" /\ gmAccounts' = gmAccounts /\ creq' = creq
      BY <1>3 DEF AliasFound
    <2>4. i \in AliasLegs(got) BY <1>0, <2>3 DEF DraftsSound
    <2> DEFINE b == SetAccount(got, i, a)
    <2>5. /\ b.serials = got.serials
          /\ DOMAIN b.legs = DOMAIN got.legs
          /\ \A j \in DOMAIN got.legs :
               b.legs[j] = IF j = i THEN [got.legs[j] EXCEPT !.account = a] ELSE got.legs[j]
      BY <1>2, <2>3, <2>4, SetAccountFacts
    <2>6. draft'[c] = b /\ lookups'[c] = lookups[c] \ {i}
      BY <1>0, <2>2 DEF TypeOK
    <2> HIDE DEF b
    <2>7. i \in DOMAIN asked.legs /\ i \in AliasLegs(asked)
      <3>1. i \in DOMAIN asked.legs BY <1>2, <2>3, <2>4 DEF AliasLegs
      <3>2. got.legs[i].account \in Aliases BY <2>4 DEF AliasLegs
      <3>3. asked.legs[i].account = got.legs[i].account BY <1>2, <2>3, <3>1
      <3> QED BY <3>1, <3>2, <3>3 DEF AliasLegs
    <2>8. ASSUME NEW j \in DOMAIN asked.legs, j # i
          PROVE  /\ b.legs[j] = [asked.legs[j] EXCEPT !.account = b.legs[j].account]
                 /\ IF j \in AliasLegs(asked) \ lookups'[c]
                    THEN /\ b.legs[j].account \in Accounts
                         /\ gmAccounts'[b.legs[j].account].user = creq[c].user
                    ELSE b.legs[j].account = asked.legs[j].account
      <3>1. b.legs[j] = got.legs[j] BY <1>2, <2>3, <2>5, <2>8
      <3>2. j \in AliasLegs(asked) \ lookups'[c] <=> j \in AliasLegs(asked) \ lookups[c]
        BY <2>6, <2>8
      <3> QED BY <1>2, <2>3, <3>1, <3>2
    <2>9. /\ b.legs[i].account = a
          /\ b.legs[i] = [asked.legs[i] EXCEPT !.account = a]
      <3>1. asked.legs[i] \in Leg /\ got.legs[i] \in Leg
        BY <1>2, <2>3, <2>7, LegsOf
      <3>2. b.legs[i] = [got.legs[i] EXCEPT !.account = a]
        BY <1>2, <2>3, <2>5, <2>7
      <3>3. got.legs[i] = [asked.legs[i] EXCEPT !.account = got.legs[i].account]
        BY <1>2, <2>3, <2>7
      <3> QED BY <3>1, <3>2, <3>3 DEF Leg
    <2>10. i \in AliasLegs(asked) \ lookups'[c] BY <2>6, <2>7
    <2>11. \A j \in DOMAIN asked.legs :
             /\ b.legs[j] = [asked.legs[j] EXCEPT !.account = b.legs[j].account]
             /\ IF j \in AliasLegs(asked) \ lookups'[c]
                THEN /\ b.legs[j].account \in Accounts
                     /\ gmAccounts'[b.legs[j].account].user = creq[c].user
                ELSE b.legs[j].account = asked.legs[j].account
      BY <2>2, <2>3, <2>8, <2>9, <2>10
    <2>12. b.serials = asked.serials /\ DOMAIN b.legs = DOMAIN asked.legs
      BY <1>2, <2>3, <2>5
    <2>13. creq'[c].deal = asked /\ creq'[c].user = creq[c].user /\ draft'[c] = b
      BY <2>3, <2>6
    <2> HIDE DEF asked, got
    <2> QED BY <2>11, <2>12, <2>13
  <1>4. CASE SaveDeal(c)
    <2>1. cpc[c] = "save" /\ UNCHANGED <<creq, draft, lookups>> BY <1>4 DEF SaveDeal
    <2> QED BY <1>2, <2>1
  <1>5. CASE PublicationHalts(c)
    <2>1. cpc[c] \in {"swap", "save", "published"} BY <1>5 DEF PublicationHalts
    <2> QED BY <1>2, <1>5, <2>1 DEF PublicationHalts
  <1> QED BY <1>0, <1>1, <1>3, <1>4, <1>5, PublicationSteps

LEMMA NextFetchesSound ==
  ASSUME Bookkeeping, [Next]_vars
  PROVE  FetchesSound'
  <1>0. TypeOK /\ FetchesSound BY DEF Bookkeeping
  <1>1. gmDeals \subseteq gmDeals' BY DealsGrow
  <1>2. \A a \in Accounts : Registered(a) => gmAccounts'[a].user # None
    BY <1>0, OwnersKept DEF Registered, Registry!Registered
  <1> SUFFICES ASSUME NEW f \in Fetches
               PROVE  /\ fpc'[f] \in {"serial", "signers", "signed"} => fid'[f] \in gmDeals'
                      /\ fpc'[f] = "serial" => data'[f] = SwapParties(fid'[f], freq'[f])
                      /\ fpc'[f] \in {"signers", "signed"} =>
                           Executable(data'[f]) /\ Instantiates(data'[f], fid'[f])
                      /\ signed'[f] # {} => fpc'[f] = "signed"
                      /\ \A a \in signed'[f] : gmAccounts'[a].user # None
    BY DEF FetchesSound, Registered, Registry!Registered
  <1>3. signed[f] \subseteq Accounts /\ \A a \in signed[f] : gmAccounts'[a].user # None
    BY <1>0, <1>2 DEF TypeOK, FetchesSound
  <1>4. CASE ArriveFetch(f)
    <2>1. fpc[f] = "new" /\ fpc'[f] = "find" /\ signed'[f] = signed[f]
      BY <1>0, <1>4 DEF TypeOK, ArriveFetch, FetchTo
    <2> QED BY <1>0, <2>1 DEF FetchesSound
  <1>5. CASE DealFound(f)
    <2> DEFINE d == SwapParties(fid[f], freq[f])
               e == SetSerial(d, freq[f].serial)
    <2>1. /\ fid[f] \in gmDeals /\ fpc[f] = "find"
          /\ UNCHANGED <<gmDeals, freq, fid, signed>>
      BY <1>5 DEF DealFound
    <2>2. freq[f] \in Queries /\ fid[f] \in Deal
      BY <1>0, <2>1, FetchTypes
    <2>3. d \in Deal /\ Instantiates(d, fid[f])
      BY <2>2, SwapPartiesFacts
    <2>4. \/ data' = [data EXCEPT ![f] = d] /\ fpc' = [fpc EXCEPT ![f] = "serial"]
          \/ Freeze(f, e)
      BY <1>5 DEF DealFound, FetchTo
    <2> HIDE DEF d
    <2>5. e \in Deal /\ Instantiates(e, fid[f])
      BY <2>2, <2>3, QueryTypes, SetSerialFacts, SetSerialInstantiates
    <2> HIDE DEF e
    <2>6. \/ data'[f] = d /\ fpc'[f] = "serial"
          \/ Executable(e) /\ data'[f] = e /\ fpc'[f] = "signers"
          \/ fpc'[f] = "unavailable"
      BY <1>0, <2>4, <2>5, FreezeCases DEF TypeOK
    <2>7. signed[f] = {} BY <1>0, <2>1 DEF FetchesSound
    <2> QED BY <2>1, <2>5, <2>6, <2>7 DEF d
  <1>6. CASE PickSerial(f)
    <2>1. fpc[f] = "serial" /\ UNCHANGED <<gmDeals, freq, fid, signed>>
      BY <1>6 DEF PickSerial
    <2>2. freq[f] \in Queries /\ fid[f] \in Deal /\ data[f] \in Deal
      BY <1>0, <2>1, FetchTypes DEF TypeOK
    <2>3. Instantiates(data[f], fid[f]) /\ fid[f] \in gmDeals
      BY <1>0, <2>1, <2>2, SwapPartiesFacts DEF FetchesSound
    <2>4. \/ \E serial \in Serials : Freeze(f, SetSerial(data[f], serial))
          \/ fpc' = [fpc EXCEPT ![f] = "NotNftOwnerError"]
      BY <1>6 DEF PickSerial, FetchTo
    <2>5. \A serial \in Serials :
            /\ SetSerial(data[f], serial) \in Deal
            /\ Instantiates(SetSerial(data[f], serial), fid[f])
      BY <2>2, <2>3, SetSerialFacts, SetSerialInstantiates
    <2>6. \/ /\ fpc'[f] = "signers"
             /\ Executable(data'[f]) /\ Instantiates(data'[f], fid[f])
          \/ fpc'[f] \in {"unavailable", "NotNftOwnerError"}
      BY <1>0, <2>4, <2>5, FreezeCases DEF TypeOK
    <2>7. signed[f] = {} BY <1>0, <2>1 DEF FetchesSound
    <2> QED BY <2>1, <2>3, <2>6, <2>7
  <1>7. CASE SignBytes(f)
    <2>1. /\ fpc[f] = "signers" /\ fpc'[f] = "signed" /\ signed'[f] = SignerAccounts(f)
          /\ UNCHANGED <<gmAccounts, gmDeals, freq, fid, data>>
      BY <1>0, <1>7 DEF TypeOK, SignBytes, FetchTo
    <2>2. \A a \in SignerAccounts(f) : gmAccounts[a].user # None
      BY DEF SignerAccounts, Registered, Registry!Registered
    <2> QED BY <1>0, <2>1, <2>2 DEF FetchesSound
  <1>8. CASE FetchHalts(f)
    BY <1>0, <1>1, <1>3, <1>8 DEF FetchHalts, FetchesSound, FetchStages, FetchAnswers
  <1> QED BY <1>0, <1>4, <1>5, <1>6, <1>7, <1>8, FetchSteps

LEMMA InitBookkeeping == Init => Bookkeeping
  <1> SUFFICES ASSUME Init PROVE Bookkeeping OBVIOUS
  <1>1. TypeOK BY InitTypeOK
  <1>2. DealsSound /\ DraftsSound /\ AliasesResolvedToOwn /\ FetchesSound
    BY DEF Init, DealsSound, DraftsSound, AliasesResolvedToOwn, FetchesSound
  <1> QED BY <1>1, <1>2 DEF Bookkeeping

-----------------------------------------------------------------------------

(* The handlers of deals keep their books, whatever the interleaving.      *)
THEOREM BookkeepingCorrect == Spec => []Bookkeeping
  <1>1. Bookkeeping /\ [Next]_vars => Bookkeeping'
    <2> SUFFICES ASSUME Bookkeeping, [Next]_vars PROVE Bookkeeping' OBVIOUS
    <2>1. TypeOK' BY NextTypeOK DEF Bookkeeping
    <2> QED BY <2>1, NextDealsSound, NextDraftsSound, NextAliasesResolved,
               NextFetchesSound DEF Bookkeeping
  <1> QED BY InitBookkeeping, <1>1, PTL DEF Spec

THEOREM TypeCorrect == Spec => []TypeOK
  <1>1. Bookkeeping => TypeOK BY DEF Bookkeeping
  <1> QED BY <1>1, BookkeepingCorrect, PTL

(* Every stored deal is balanced and between accounts and placeholders.    *)
THEOREM StoredDealsSound == Spec => []DealsSound
  <1>1. Bookkeeping => DealsSound BY DEF Bookkeeping
  <1> QED BY <1>1, BookkeepingCorrect, PTL

(* Aliases stand for accounts of the deal's author.                        *)
THEOREM AliasesOwn == Spec => []AliasesResolvedToOwn
  <1>1. Bookkeeping => AliasesResolvedToOwn BY DEF Bookkeeping
  <1> QED BY <1>1, BookkeepingCorrect, PTL

(* Bytes are balanced: they instantiate a stored deal, which is, and what  *)
(* is substituted does not enter the sums.                                 *)
THEOREM BytesAreBalanced == Spec => []BytesBalanced
  <1>1. Bookkeeping => BytesBalanced
    <2> SUFFICES ASSUME Bookkeeping, NEW f \in Fetches, fpc[f] = "signed"
                 PROVE  Balanced(data[f])
      BY DEF BytesBalanced
    <2>1. fid[f] \in gmDeals /\ Instantiates(data[f], fid[f])
      BY DEF Bookkeeping, FetchesSound
    <2>2. Balanced(fid[f]) BY <2>1 DEF Bookkeeping, DealsSound
    <2> QED BY <2>1, <2>2, InstantiatesBalanced
  <1> QED BY <1>1, BookkeepingCorrect, PTL

-----------------------------------------------------------------------------
(* One alias, one account, as long as aliases are distinct and kept.       *)

DistinctAliases ==
  /\ Renames = {}
  /\ \A r, s \in Rows : r.user = s.user /\ r.alias = s.alias => r.id = s.id

RowsAsGiven ==
  \A a \in Accounts :
    Registered(a) =>
      [id |-> a, user |-> gmAccounts[a].user, alias |-> gmAccounts[a].alias] \in Rows

(* The row that the alias of leg i was replaced by the id of.              *)
RowFor(c, i) ==
  [id |-> draft[c].legs[i].account, user |-> creq[c].user,
   alias |-> creq[c].deal.legs[i].account]

LookupsAsGiven ==
  \A c \in Publications :
    cpc[c] \in {"swap", "save", "published"} =>
      \A i \in AliasLegs(creq[c].deal) \ lookups[c] : RowFor(c, i) \in Rows

LEMMA NextRowsAsGiven ==
  ASSUME DistinctAliases, TypeOK, RowsAsGiven, [Next]_vars
  PROVE  RowsAsGiven'
  <1>1. CASE RegisterAccount
    <2>1. PICK row \in Rows : Registry!Register(row.id, row.user, row.alias)
      BY <1>1 DEF RegisterAccount
    <2>2. row = [id |-> row.id, user |-> row.user, alias |-> row.alias]
      BY ConstantsAssumption
    <2>3. \A a \in Accounts :
            gmAccounts'[a] = IF a = row.id THEN [user |-> row.user, alias |-> row.alias]
                             ELSE gmAccounts[a]
      BY <2>1 DEF Registry!Register, TypeOK
    <2> QED BY <2>2, <2>3 DEF RowsAsGiven, Registered, Registry!Registered
  <1>2. ~RenameAccount BY DEF RenameAccount, DistinctAliases
  <1>3. CASE UNCHANGED gmAccounts
    BY <1>3 DEF RowsAsGiven, Registered, Registry!Registered
  <1> QED
    BY <1>1, <1>2, <1>3
    DEF Next, vars, PublishStep, FetchStep, ArriveDeal, AliasFound, AliasUnknown,
        LookupFails, SaveDeal, ArriveFetch, DealMissing, DealFound, PickSerial, SignBytes,
        SignersLocked, FetchFails, Crash, Quiescent

LEMMA NextLookupsAsGiven ==
  ASSUME Bookkeeping, RowsAsGiven, LookupsAsGiven, [Next]_vars
  PROVE  LookupsAsGiven'
  <1>0. TypeOK /\ DraftsSound /\ AliasesResolvedToOwn BY DEF Bookkeeping
  <1> SUFFICES ASSUME NEW c \in Publications, cpc'[c] \in {"swap", "save", "published"},
                      NEW j \in AliasLegs(creq'[c].deal) \ lookups'[c]
               PROVE  RowFor(c, j)' \in Rows
    BY DEF LookupsAsGiven
  <1>1. CASE ArriveDeal(c)
    <2>1. PICK req \in Proposals :
            creq'[c] = req /\ lookups'[c] = AliasLegs(req.deal)
      BY <1>0, <1>1 DEF TypeOK, ArriveDeal, PublishTo
    <2> QED BY <2>1
  <1>2. CASE AliasFound(c)
    <2>1. PICK i \in lookups[c] :
            \E a \in UserAccountIdByAlias(creq[c].user, draft[c].legs[i].account) :
              /\ draft' = [draft EXCEPT ![c] = SetAccount(draft[c], i, a)]
              /\ lookups' = [lookups EXCEPT ![c] = lookups[c] \ {i}]
      BY <1>2 DEF AliasFound
    <2>2. PICK a \in UserAccountIdByAlias(creq[c].user, draft[c].legs[i].account) :
            /\ draft' = [draft EXCEPT ![c] = SetAccount(draft[c], i, a)]
            /\ lookups' = [lookups EXCEPT ![c] = lookups[c] \ {i}]
      BY <2>1
    <2>3. cpc[c] = "swap" /\ creq' = creq BY <1>2 DEF AliasFound
    <2>4. creq[c].user \in Users /\ draft[c] \in Deal
      BY <1>0, <2>3, PublicationTypes
    <2>5. i \in AliasLegs(draft[c]) BY <1>0, <2>3 DEF DraftsSound
    <2>6. /\ a \in Accounts
          /\ gmAccounts[a] = [user |-> creq[c].user, alias |-> draft[c].legs[i].account]
      BY <2>2 DEF UserAccountIdByAlias
    <2>7. [id |-> a, user |-> creq[c].user, alias |-> draft[c].legs[i].account] \in Rows
      BY <2>4, <2>6, ConstantsAssumption
      DEF RowsAsGiven, Registered, Registry!Registered
    <2>8. /\ DOMAIN draft[c].legs = DOMAIN creq[c].deal.legs
          /\ \A k \in DOMAIN creq[c].deal.legs :
               k \in lookups[c] => draft[c].legs[k].account = creq[c].deal.legs[k].account
      BY <1>0, <2>3 DEF AliasesResolvedToOwn
    <2>9. /\ draft'[c] = SetAccount(draft[c], i, a)
          /\ lookups'[c] = lookups[c] \ {i}
      BY <1>0, <2>2 DEF TypeOK
    <2>10. \A k \in DOMAIN draft[c].legs :
             draft'[c].legs[k] =
               IF k = i THEN [draft[c].legs[k] EXCEPT !.account = a] ELSE draft[c].legs[k]
      BY <2>4, <2>5, <2>6, <2>9, SetAccountFacts
    <2>11. j \in DOMAIN draft[c].legs BY <2>3, <2>8 DEF AliasLegs
    <2>12. CASE j = i
      <3>1. draft[c].legs[i] \in Leg BY <2>4, <2>11, <2>12, LegsOf
      <3>2. draft'[c].legs[j].account = a BY <2>10, <2>11, <2>12, <3>1 DEF Leg
      <3>3. creq[c].deal.legs[j].account = draft[c].legs[i].account
        BY <2>1, <2>8, <2>11, <2>12
      <3> QED BY <2>3, <2>7, <3>2, <3>3 DEF RowFor
    <2>13. CASE j # i
      <3>1. RowFor(c, j) \in Rows BY <2>3, <2>9, <2>13 DEF LookupsAsGiven
      <3>2. draft'[c].legs[j] = draft[c].legs[j] BY <2>10, <2>11, <2>13
      <3> QED BY <2>3, <3>1, <3>2 DEF RowFor
    <2> QED BY <2>12, <2>13
  <1>3. CASE SaveDeal(c)
    <2>1. cpc[c] = "save" /\ UNCHANGED <<creq, draft, lookups>> BY <1>3 DEF SaveDeal
    <2> QED BY <2>1 DEF LookupsAsGiven, RowFor
  <1>4. CASE PublicationHalts(c)
    <2>1. cpc[c] \in {"swap", "save", "published"} BY <1>4 DEF PublicationHalts
    <2> QED BY <1>4, <2>1 DEF PublicationHalts, LookupsAsGiven, RowFor
  <1> QED BY <1>0, <1>1, <1>2, <1>3, <1>4, PublicationSteps

(* However the lookups of a deal interleave with registrations: if no two  *)
(* accounts of a user share an alias and none is renamed, legs that name   *)
(* the same alias end up on the same account.                              *)
THEOREM OneAliasOneAccount ==
  ASSUME DistinctAliases
  PROVE  Spec => []SameAliasSameAccount
  <1>1. Init => RowsAsGiven /\ LookupsAsGiven
    BY DEF Init, Registry!Init, Registry!NoRow, RowsAsGiven, LookupsAsGiven, Registered,
       Registry!Registered
  <1>2. Bookkeeping /\ RowsAsGiven /\ LookupsAsGiven /\ [Next]_vars
        => RowsAsGiven' /\ LookupsAsGiven'
    BY NextRowsAsGiven, NextLookupsAsGiven DEF Bookkeeping
  <1>3. Bookkeeping /\ LookupsAsGiven => SameAliasSameAccount
    <2> SUFFICES ASSUME Bookkeeping, LookupsAsGiven,
                        NEW c \in Publications, cpc[c] \in {"save", "published"},
                        NEW i \in DOMAIN creq[c].deal.legs,
                        NEW j \in DOMAIN creq[c].deal.legs,
                        creq[c].deal.legs[i].account = creq[c].deal.legs[j].account
                 PROVE  draft[c].legs[i].account = draft[c].legs[j].account
      BY DEF SameAliasSameAccount
    <2>1. lookups[c] = {} BY DEF Bookkeeping, DraftsSound
    <2>2. CASE creq[c].deal.legs[i].account \in Aliases
      <3>1. i \in AliasLegs(creq[c].deal) /\ j \in AliasLegs(creq[c].deal)
        BY <2>2 DEF AliasLegs
      <3>2. RowFor(c, i) \in Rows /\ RowFor(c, j) \in Rows
        BY <2>1, <3>1 DEF LookupsAsGiven
      <3> QED BY <3>2 DEF DistinctAliases, RowFor
    <2>3. CASE creq[c].deal.legs[i].account \notin Aliases
      <3>1. i \notin AliasLegs(creq[c].deal) /\ j \notin AliasLegs(creq[c].deal)
        BY <2>3 DEF AliasLegs
      <3>2. /\ draft[c].legs[i].account = creq[c].deal.legs[i].account
            /\ draft[c].legs[j].account = creq[c].deal.legs[j].account
        BY <3>1 DEF Bookkeeping, AliasesResolvedToOwn
      <3> QED BY <3>2
    <2> QED BY <2>2, <2>3
  <1> QED BY <1>1, <1>2, <1>3, BookkeepingCorrect, PTL DEF Spec

-----------------------------------------------------------------------------
(* The service implements the book.                                        *)

LEMMA BookInit == Init => Book!Init
  BY DEF Init, Book!Init

(* The book and the service mean the same by a deal.                       *)
LEMMA SameDeals ==
  ASSUME NEW d
  PROVE  /\ d \in Deal => d \in Book!Deal
         /\ Balanced(d) => Book!Balanced(d)
         /\ AliasLegs(d) = {} => Book!AliasLegs(d) = {}
  <1>1. Book!Leg = Leg
    BY DEF Book!Leg, Leg, Book!Refs, Refs, Book!Placeholders, Placeholders
  <1>2. Book!Deal = Deal BY <1>1 DEF Book!Deal, Deal
  <1>3. Book!Amounts(d) = Amounts(d) BY DEF Book!Amounts, Amounts
  <1>4. \A token : Book!Fungible(d, token) = Fungible(d, token)
    BY DEF Book!Fungible, Fungible
  <1>5. \A f, S : Book!SumFunctionOnSet(f, S) = SumFunctionOnSet(f, S)
    BY DEF Book!SumFunctionOnSet, SumFunctionOnSet, Book!FoldFunctionOnSet,
       FoldFunctionOnSet, Book!MapThenFoldSet, MapThenFoldSet
  <1>6. Book!Balanced(d) <=> Balanced(d)
    BY <1>3, <1>4, <1>5 DEF Book!Balanced, Balanced
  <1>7. Book!AliasLegs(d) = AliasLegs(d) BY DEF Book!AliasLegs, AliasLegs
  <1> QED BY <1>2, <1>6, <1>7

LEMMA BookStep ==
  ASSUME Bookkeeping, [Next]_vars
  PROVE  [Book!Next]_(Book!vars)
  <1> DEFINE issued == [f \in Fetches |-> IF fpc[f] = "signed" THEN data[f] ELSE None]
  <1>0. TypeOK /\ DealsSound /\ DraftsSound /\ FetchesSound BY DEF Bookkeeping
  <1>1. ASSUME NEW f \in Fetches, SignBytes(f) PROVE Book!Issue(f)
    <2>1. /\ fpc[f] = "signers" /\ fpc' = [fpc EXCEPT ![f] = "signed"]
          /\ UNCHANGED <<gmDeals, fid, data>>
      BY <1>1 DEF SignBytes, FetchTo
    <2>2. data[f] \in Deal /\ data[f] # None
      BY <1>0, <2>1, NamesAssumption DEF TypeOK
    <2>3. Executable(data[f]) /\ Instantiates(data[f], fid[f]) /\ fid[f] \in gmDeals
      BY <1>0, <2>1 DEF FetchesSound
    <2>4. issued[f] = None /\ issued'[f] = data[f]
      BY <1>0, <2>1 DEF TypeOK
    <2>5. issued' = [issued EXCEPT ![f] = data[f]]
      BY <1>0, <2>1 DEF TypeOK
    <2>6. issued' = [issued EXCEPT ![f] = issued'[f]] BY <2>4, <2>5
    <2> QED BY <2>1, <2>2, <2>3, <2>4, <2>6
         DEF Book!Issue, Book!Executable, Book!Instantiates, Executable, Instantiates,
             Book!Placeholders, Placeholders
  <1>2. ASSUME \A f \in Fetches : ~SignBytes(f) PROVE issued' = issued
    <2>1. ASSUME NEW f \in Fetches PROVE issued'[f] = issued[f]
      <3>1. CASE ArriveFetch(f)
        BY <1>0, <3>1 DEF TypeOK, ArriveFetch, FetchTo
      <3>2. CASE DealFound(f)
        BY <1>0, <3>2 DEF TypeOK, DealFound, Freeze, FetchTo
      <3>3. CASE PickSerial(f)
        BY <1>0, <3>3 DEF TypeOK, PickSerial, Freeze, FetchTo
      <3>4. CASE FetchHalts(f)
        BY <3>4 DEF FetchHalts, FetchStages
      <3> QED BY <1>0, <1>2, <3>1, <3>2, <3>3, <3>4, FetchSteps
    <2> QED BY <2>1
  <1>3. ASSUME NEW c \in Publications, cpc[c] = "save", gmDeals' = gmDeals \cup {draft[c]}
        PROVE  draft[c] \in gmDeals' /\ Book!Publishable(draft[c])
    <2>1. draft[c] \in Deal /\ Balanced(draft[c]) /\ AliasLegs(draft[c]) = {}
      BY <1>0, <1>3, PublicationTypes DEF DraftsSound
    <2> QED BY <1>3, <2>1, SameDeals DEF Book!Publishable
  <1>4. ASSUME NEW f \in Fetches, SignBytes(f) PROVE gmDeals' = gmDeals
    BY <1>4 DEF SignBytes
  <1>5. CASE gmDeals' = gmDeals /\ \A f \in Fetches : ~SignBytes(f)
    BY <1>2, <1>5 DEF Book!vars
  <1>6. CASE gmDeals' # gmDeals
    <2>1. issued' = issued BY <1>2, <1>4, <1>6
    <2>2. PICK c \in Publications : cpc[c] = "save" /\ gmDeals' = gmDeals \cup {draft[c]}
      BY <1>6, DealsGrow
    <2> QED BY <1>3, <2>1, <2>2 DEF Book!Publish, Book!Next
  <1> QED BY <1>1, <1>4, <1>5, <1>6 DEF Book!Next

(* What is published stays, balanced and resolved, and every transaction   *)
(* handed out is one of the published deals with its open places filled.   *)
THEOREM ImplementsDealBook == Spec => BookSpec
  <1>1. Bookkeeping /\ [Next]_vars => [Book!Next]_(Book!vars)
    BY BookStep
  <1> QED BY BookInit, <1>1, BookkeepingCorrect, PTL DEF Spec, BookSpec, Book!Spec

-----------------------------------------------------------------------------
(* Whose signatures the ledger asks for.                                   *)

(* An account that gives nothing away in any leg is not debited in sum: the*)
(* signers that findRequiredSigners collects leg by leg include whomever   *)
(* the ledger finds debited when it has added the legs up.                 *)
LEMMA NetDebitorsAreSigners ==
  ASSUME NEW d \in Deal
  PROVE  NetDebits(d) \subseteq RequiredSigners(d)
  <1>1. \A i \in DOMAIN d.legs : d.legs[i].amount \in Int /\ d.legs[i].nft \in Nat
    BY LegsOf DEF Leg
  <1>2. ASSUME NEW a \in Accounts, NEW token \in Tokens, a \notin RequiredSigners(d)
        PROVE  ~(SumFunctionOnSet(Amounts(d),
                   {i \in Fungible(d, token) : d.legs[i].account = a}) < 0)
    <2> DEFINE own == {i \in Fungible(d, token) : d.legs[i].account = a}
    <2>1. IsFiniteSet(own)
      <3>1. d.legs \in Seq(Leg) BY DEF Deal
      <3>2. DOMAIN d.legs = 1 .. Len(d.legs) /\ Len(d.legs) \in Nat BY <3>1
      <3>3. IsFiniteSet(1 .. Len(d.legs)) BY <3>2, FS_Interval
      <3>4. own \subseteq 1 .. Len(d.legs) BY <3>2 DEF Fungible
      <3> HIDE DEF own
      <3> QED BY <3>3, <3>4, FS_Subset
    <2>2. \A i \in own : Amounts(d)[i] \in Nat
      BY <1>1, <1>2 DEF Amounts, Fungible, RequiredSigners
    <2> HIDE DEF own
    <2>3. SumFunctionOnSet(Amounts(d), own) \in Nat BY <2>1, <2>2, SumIsNatural
    <2> QED BY <2>3 DEF own
  <1>3. ASSUME NEW a \in Accounts, NEW i \in DOMAIN d.legs,
               d.legs[i].amount < 0, d.legs[i].account = a
        PROVE  a \in RequiredSigners(d)
    BY <1>3 DEF RequiredSigners
  <1> QED BY <1>2, <1>3 DEF NetDebits

(* Of the registered accounts the ledger wants to hear from, only a fee    *)
(* payer that gives nothing away is left unsigned for by getDealBytes.     *)
THEOREM SignersSuffice == Spec => SignaturesComplete
  <1> DEFINE Complete ==
        \A f \in Fetches :
          fpc[f] = "signers" /\ fpc'[f] = "signed" =>
            \A a \in LedgerSigners(data[f], FeePayer(freq[f])) :
              Registered(a) /\ a \notin signed'[f] =>
                a = FeePayer(freq[f]) /\ a \notin NetDebits(data[f])
  <1>1. Bookkeeping /\ [Next]_vars => [Complete]_vars
    <2> SUFFICES ASSUME Bookkeeping, [Next]_vars, NEW f \in Fetches,
                        fpc[f] = "signers", fpc'[f] = "signed",
                        NEW a \in LedgerSigners(data[f], FeePayer(freq[f])),
                        Registered(a), a \notin signed'[f]
        PROVE  a = FeePayer(freq[f]) /\ a \notin NetDebits(data[f])
      OBVIOUS
    <2>0. TypeOK BY DEF Bookkeeping
    <2>1. SignBytes(f)
      BY <2>0, FetchSteps
      DEF FetchHalts, ArriveFetch, DealFound, PickSerial, FetchTo, TypeOK, FetchStages
    <2>2. signed'[f] = SignerAccounts(f) BY <2>0, <2>1 DEF SignBytes, TypeOK
    <2>3. data[f] \in Deal BY <2>0 DEF TypeOK
    <2>4. NetDebits(data[f]) \subseteq RequiredSigners(data[f])
      BY <2>3, NetDebitorsAreSigners
    <2>5. a \notin NetDebits(data[f])
      BY <2>2, <2>4 DEF SignerAccounts, NetDebits
    <2> QED BY <2>5 DEF LedgerSigners
  <1> QED BY <1>1, BookkeepingCorrect, PTL DEF Spec, SignaturesComplete

-----------------------------------------------------------------------------
(* Which deals are lost.                                                   *)

(* A deal that fits in its column is stored when its id is answered.       *)
ShortDealsStored ==
  \A c \in Publications :
    cpc[c] = "published" /\ Len(creq[c].deal.legs) <= MaxLegs => draft[c] \in gmDeals

(* Aliases are replaced by accounts: the legs stay as many as they were.   *)
LEMMA DraftsAsLong ==
  ASSUME Bookkeeping, NEW c \in Publications, cpc[c] \in {"swap", "save", "published"}
  PROVE  Len(draft[c].legs) = Len(creq[c].deal.legs)
  <1>1. draft[c].legs \in Seq(Leg) /\ creq[c].deal.legs \in Seq(Leg)
    BY PublicationTypes DEF Bookkeeping, Deal
  <1>2. DOMAIN draft[c].legs = DOMAIN creq[c].deal.legs
    BY DEF Bookkeeping, AliasesResolvedToOwn
  <1> QED BY <1>1, <1>2

LEMMA NextShortDealsStored ==
  ASSUME ~Faults, Bookkeeping, ShortDealsStored, [Next]_vars
  PROVE  ShortDealsStored'
  <1>0. TypeOK BY DEF Bookkeeping
  <1> SUFFICES ASSUME NEW c \in Publications, cpc'[c] = "published",
                      Len(creq'[c].deal.legs) <= MaxLegs
      PROVE  draft'[c] \in gmDeals'
    BY DEF ShortDealsStored
  <1>1. CASE ArriveDeal(c)
    BY <1>0, <1>1 DEF ArriveDeal, PublishTo, TypeOK
  <1>2. CASE AliasFound(c)
    BY <1>0, <1>2 DEF AliasFound, PublishTo, TypeOK
  <1>3. CASE SaveDeal(c)
    <2>1. cpc[c] = "save" /\ creq' = creq /\ draft' = draft BY <1>3 DEF SaveDeal
    <2>2. Len(draft[c].legs) <= MaxLegs BY <2>1, DraftsAsLong
    <2>3. Len(draft[c].legs) \in Nat /\ MaxLegs \in Nat
      BY <1>0, <2>1, PublicationTypes, ConstantsAssumption DEF Deal
    <2> QED BY <1>3, <2>1, <2>2, <2>3 DEF SaveDeal
  <1>4. CASE PublicationHalts(c)
    <2>1. draft[c] \in gmDeals BY <1>4 DEF PublicationHalts, ShortDealsStored
    <2> QED BY <1>4, <2>1, DealsGrow DEF PublicationHalts
  <1> QED BY <1>0, <1>1, <1>2, <1>3, <1>4, PublicationSteps

(* createDeal answers an id even when the insert failed. Without faults it *)
(* only fails for a deal that does not fit in the column of its JSON: if   *)
(* the deals proposed all do, whoever is answered an id can use it.        *)
THEOREM ShortDealsAreStored ==
  ASSUME ~Faults, \A p \in Proposals : Len(p.deal.legs) <= MaxLegs
  PROVE  Spec => []PublishedDealStored
  <1>1. Init => ShortDealsStored BY DEF Init, ShortDealsStored
  <1>2. Bookkeeping /\ ShortDealsStored /\ [Next]_vars => ShortDealsStored'
    BY NextShortDealsStored
  <1>3. Bookkeeping /\ ShortDealsStored => PublishedDealStored
    <2> SUFFICES ASSUME Bookkeeping, ShortDealsStored,
                        NEW c \in Publications, cpc[c] = "published"
        PROVE  draft[c] \in gmDeals
      BY DEF PublishedDealStored
    <2>1. creq[c] \in Proposals BY PublicationTypes DEF Bookkeeping
    <2> QED BY <2>1 DEF ShortDealsStored
  <1> QED BY <1>1, <1>2, <1>3, BookkeepingCorrect, PTL DEF Spec
=============================================================================
