------------------------ MODULE AccountServiceProofs ------------------------
(***************************************************************************)
(* What holds of AccountService for every number of users, requests,       *)
(* networks and account ids.                                               *)
(***************************************************************************)
EXTENDS AccountService, TLAPS

(* decryptUserEscrowKey yields a usable string or one of its two errors.   *)
LEMMA EscrowOutcome ==
  ASSUME NEW u \in Users, NEW header \in Headers
  PROVE  DecryptUserEscrowKey(u, header) \in
           {"good", "garbage", "DecryptionFailedError", "EncryptionKeyNotProvidedError"}
  BY ConstantsAssumption DEF DecryptUserEscrowKey, DecryptString, Headers

(* A request that has arrived names a user and a header.                   *)
LEMMA Requests ==
  ASSUME TypeOK, NEW r \in Creations, pc[r] # "new"
  PROVE  /\ creq[r] \in Bodies
         /\ UserOf(r) \in Users
         /\ creq[r].header \in Headers
         /\ creq[r].alias \in AliasStrings \cup {None}
         /\ creq[r].funded \in BOOLEAN
  <1>1. creq[r] \in Bodies BY DEF TypeOK
  <1>2. creq[r] \in Body BY <1>1, ConstantsAssumption
  <1> QED BY <1>1, <1>2 DEF Body, UserOf

(* So does an update.                                                      *)
LEMMA UpdateRequests ==
  ASSUME TypeOK, NEW u \in Updates, upc[u] # "new"
  PROVE  /\ ureq[u] \in Renames
         /\ ureq[u].user \in Users
         /\ ureq[u].id \in AccountIds
         /\ ureq[u].alias \in AliasStrings
  <1>1. ureq[u] \in Renames BY DEF TypeOK
  <1>2. ureq[u] \in Rename BY <1>1, ConstantsAssumption
  <1> QED BY <1>1, <1>2 DEF Rename

LEMMA InitTypeOK == Init => TypeOK
  BY ConstantsAssumption DEF Init, TypeOK, Registry!Init, Registry!NoRow, NoTx, NoKey,
     NotFound, NoAccount, GoMint, EscrowKeys

(* Every step keeps the types.                                             *)
LEMMA NextTypeOK ==
  ASSUME TypeOK, [Next]_vars
  PROVE  TypeOK'
  <1> USE DEF Stages, Answers, EscrowErrors
  <1>1. ASSUME NEW r \in Creations, Arrive(r) PROVE TypeOK'
    BY <1>1 DEF TypeOK, Arrive, Goto, locals, tables, ledger, updates
  <1>2. ASSUME NEW r \in Creations, Count(r) PROVE TypeOK'
    BY <1>2 DEF TypeOK, Count, Goto, locals, tables, ledger, updates
  <1>3. ASSUME NEW r \in Creations, AliasRejected(r) PROVE TypeOK'
    BY <1>3 DEF TypeOK, AliasRejected, Goto, locals, tables, ledger, updates
  <1>4. ASSUME NEW r \in Creations, EscrowDenied(r) PROVE TypeOK'
    BY <1>4 DEF TypeOK, EscrowDenied, Goto, locals, tables, ledger, updates
  <1>5. ASSUME NEW r \in Creations, AliasFree(r) PROVE TypeOK'
    <2>1. DecryptUserEscrowKey(UserOf(r), creq[r].header) \in
            {"good", "garbage", "DecryptionFailedError", "EncryptionKeyNotProvidedError"}
      BY <1>5, Requests, EscrowOutcome DEF AliasFree
    <2> QED BY <1>5, <2>1 DEF TypeOK, AliasFree, Goto, locals, tables, ledger, updates,
         EscrowKeys, EscrowErrors
  <1>6. ASSUME NEW r \in Creations, PayerMissing(r) PROVE TypeOK'
    BY <1>6 DEF TypeOK, PayerMissing, Goto, locals, tables, ledger, updates
  <1>7. ASSUME NEW r \in Creations, PayerUnusable(r) PROVE TypeOK'
    BY <1>7 DEF TypeOK, PayerUnusable, Goto, locals, tables, ledger, updates
  <1>8. ASSUME NEW r \in Creations, LoadPayer(r) PROVE TypeOK'
    <2>1. UserAccountByAlias(UserOf(r), creq[r].payerId) \subseteq AccountIds
      BY DEF UserAccountByAlias, AccountsOf
    <2> QED BY <1>8, <2>1 DEF TypeOK, LoadPayer, Goto, locals, tables, ledger, updates
  <1>9. ASSUME NEW r \in Creations, SaveKey(r) PROVE TypeOK'
    BY <1>9 DEF TypeOK, SaveKey, Goto, locals, tables, ledger, updates
  <1>10. ASSUME NEW r \in Creations, Submit(r) PROVE TypeOK'
    <2>1. creq[r].funded \in BOOLEAN BY <1>10, Requests DEF Submit
    <2> QED BY <1>10, <2>1 DEF TypeOK, Submit, Acknowledge, Goto, locals, tables, updates
  <1>11. ASSUME NEW r \in Creations, Receipt(r) PROVE TypeOK'
    BY <1>11 DEF TypeOK, Receipt, Goto, locals, tables, ledger, updates
  <1>12. ASSUME NEW r \in Creations, SaveAccount(r) PROVE TypeOK'
    <2>1. UserOf(r) \in Users /\ creq[r].alias \in AliasStrings \cup {None}
      BY <1>12, Requests DEF SaveAccount
    <2>2. gmAccounts' \in [AccountIds -> [user: Users \cup {None},
                                          alias: AliasStrings \cup {None}]]
      <3> DEFINE name(old) == IF found[r].alias = AliasOf(r) THEN old ELSE AliasOf(r)
      <3>1. ASSUME chain[r] \in AccountIds
            PROVE  name(gmAccounts[chain[r]].alias) \in AliasStrings \cup {None}
        BY <2>1, <3>1 DEF TypeOK, AliasOf, AliasStrings
      <3>2. gmAccounts' = [gmAccounts EXCEPT ![chain[r]] =
              [user |-> UserOf(r), alias |-> name(gmAccounts[chain[r]].alias)]]
        BY <1>12 DEF SaveAccount
      <3> HIDE DEF name
      <3> QED BY <2>1, <3>1, <3>2 DEF TypeOK
    <2>3. gmKeys' \in [Creations -> [saved: BOOLEAN, escrow: EscrowKeys,
                                     account: {NoAccount} \cup AccountIds]]
      <3>1. ASSUME NEW k \in Creations, NEW a \in {NoAccount} \cup AccountIds
            PROVE  [gmKeys[k] EXCEPT !.account = a] \in
                     [saved: BOOLEAN, escrow: EscrowKeys,
                      account: {NoAccount} \cup AccountIds]
        <4>1. gmKeys[k] \in [saved: BOOLEAN, escrow: EscrowKeys,
                             account: {NoAccount} \cup AccountIds]
          BY DEF TypeOK
        <4> QED BY <4>1
      <3>2. ASSUME NEW k \in Creations
            PROVE  /\ gmKeys[k].account \in {NoAccount} \cup AccountIds
                   /\ chain[r] \in {NoAccount} \cup AccountIds
        BY DEF TypeOK
      <3> QED BY <1>12, <3>1, <3>2 DEF SaveAccount
    <2> QED BY <1>12, <2>2, <2>3
         DEF TypeOK, SaveAccount, Acknowledge, Goto, locals, ledger, updates
  <1>13. ASSUME NEW r \in Creations, RowRefused(r) \/ CallFails(r) PROVE TypeOK'
    BY <1>13 DEF TypeOK, RowRefused, CallFails, Live, Goto, locals, tables, ledger, updates
  <1>14. ASSUME NEW r \in Creations, OpenAccount(r) PROVE TypeOK'
    <2>1. nextId' \in [Networks -> 1 .. MaxAccountId + 1]
      <3> DEFINE n == network[UserOf(r)]
      <3>1. nextId[n] + 1 \in 1 .. MaxAccountId + 1
        BY <1>14, ConstantsAssumption DEF OpenAccount, AccountIds
      <3>2. nextId' = [nextId EXCEPT ![n] = nextId[n] + 1]
        BY <1>14 DEF OpenAccount
      <3> HIDE DEF n
      <3> QED BY <3>1, <3>2 DEF TypeOK
    <2>2. tx' \in [Creations -> [status: {"unsent", "pending", "settled"},
                                payer: {GoMint} \cup AccountIds, funded: BOOLEAN]]
      BY <1>14 DEF TypeOK, OpenAccount
    <2>3. chain' \in [Creations -> {NoAccount} \cup AccountIds]
      BY <1>14 DEF TypeOK, OpenAccount
    <2> QED BY <1>14, <2>1, <2>2, <2>3
         DEF TypeOK, OpenAccount, AccountIds, NoAccount, creations, locals, tables, updates
  <1>15. ASSUME NEW r \in Creations, RejectTx(r) PROVE TypeOK'
    BY <1>15 DEF TypeOK, RejectTx, creations, locals, tables, updates
  <1>16. ASSUME NEW u \in Updates, ArriveUpdate(u) PROVE TypeOK'
    BY <1>16 DEF TypeOK, ArriveUpdate, UGoto, UpdateStages, creations, locals, tables, ledger
  <1>17. ASSUME NEW u \in Updates, GetUserAccountById(u) PROVE TypeOK'
    <2>1. ureq[u].id \in AccountIds BY <1>17, UpdateRequests DEF GetUserAccountById
    <2>2. ureq[u].id \in AccountsOf(ureq[u].user) =>
            gmAccounts[ureq[u].id].alias \in AliasStrings \cup {None}
      BY <2>1 DEF TypeOK
    <2> QED BY <1>17, <2>2
         DEF TypeOK, GetUserAccountById, UGoto, UpdateStages, UpdateAnswers,
             creations, locals, tables, ledger
  <1>18. ASSUME NEW u \in Updates, UpdateAlias(u) PROVE TypeOK'
    <2>1. ureq[u].alias \in AliasStrings /\ ureq[u].id \in AccountIds
      BY <1>18, UpdateRequests DEF UpdateAlias
    <2>2. [gmAccounts EXCEPT ![ureq[u].id].alias = ureq[u].alias] \in
            [AccountIds -> [user: Users \cup {None}, alias: AliasStrings \cup {None}]]
      BY <2>1 DEF TypeOK
    <2> QED BY <1>18, <2>2
         DEF TypeOK, UpdateAlias, UGoto, UpdateStages, UpdateAnswers,
             creations, locals, tables, ledger
  <1>19. ASSUME NEW u \in Updates, AliasTooLong(u) \/ UpdateFails(u) PROVE TypeOK'
    BY <1>19 DEF TypeOK, AliasTooLong, UpdateFails, UpdateLive, UGoto, UpdateStages,
                 UpdateAnswers, creations, locals, tables, ledger
  <1>20. CASE Crash
    BY <1>20 DEF TypeOK, Crash, Live, UpdateLive, UpdateStages, UpdateAnswers,
                 locals, tables, ledger
  <1>21. CASE UNCHANGED vars
    BY <1>21 DEF TypeOK, vars
  <1>22. ASSUME NEW r \in Creations, LoadRow(r) PROVE TypeOK'
    <2> DEFINE row == IF Registered(chain[r])
                      THEN [user |-> gmAccounts[chain[r]].user,
                            alias |-> gmAccounts[chain[r]].alias,
                            keys |-> KeysOf(chain[r])]
                      ELSE NotFound
    <2>1. chain[r] \in AccountIds
      BY <1>22 DEF TypeOK, LoadRow
    <2>2. row \in [user: Users \cup {None}, alias: AliasStrings \cup {None},
                   keys: SUBSET Creations]
      BY <2>1 DEF TypeOK, NotFound, KeysOf
    <2>3. found' = [found EXCEPT ![r] = row] BY <1>22 DEF LoadRow
    <2> HIDE DEF row
    <2> QED BY <1>22, <2>2, <2>3 DEF TypeOK, LoadRow, Goto, tables, ledger, updates
  <1> QED
    BY <1>1, <1>2, <1>3, <1>4, <1>5, <1>6, <1>7, <1>8, <1>9, <1>10, <1>11, <1>12,
       <1>13, <1>14, <1>15, <1>16, <1>17, <1>18, <1>19, <1>20, <1>21, <1>22
    DEF Next, CreateStep, UpdateStep, Settle, Quiescent

(* The variables keep their types, for every instance.                     *)
THEOREM TypeCorrect == Spec => []TypeOK
  BY InitTypeOK, NextTypeOK, PTL DEF Spec

-----------------------------------------------------------------------------
(* Frames: which steps change what.                                        *)

(* The request of a creation that has arrived is never replaced.           *)
LEMMA RequestsStay ==
  ASSUME TypeOK, [Next]_vars, NEW k \in Creations, pc[k] # "new"
  PROVE  pc'[k] # "new" /\ UserOf(k)' = UserOf(k)
  <1> USE DEF UserOf, Goto, Acknowledge, creations, updates
  <1>1. ASSUME NEW r \in Creations, Arrive(r) PROVE pc'[k] # "new" /\ creq'[k] = creq[k]
    BY <1>1 DEF TypeOK, Arrive
  <1>2. ASSUME NEW r \in Creations, CreateStep(r) PROVE pc'[k] # "new" /\ creq' = creq
    <2>1. CASE EscrowDenied(r)
      BY <2>1 DEF TypeOK, EscrowDenied, EscrowErrors
    <2> QED
      BY <1>2, <2>1 DEF TypeOK, CreateStep, Count, AliasRejected, AliasFree, PayerMissing,
         PayerUnusable, LoadPayer, SaveKey, Submit, Receipt, LoadRow, SaveAccount,
         RowRefused, CallFails
  <1>3. ASSUME NEW r \in Creations, Settle(r) PROVE pc' = pc /\ creq' = creq
    BY <1>3 DEF Settle, OpenAccount, RejectTx
  <1>4. ASSUME NEW u \in Updates, ArriveUpdate(u) \/ UpdateStep(u)
        PROVE  pc' = pc /\ creq' = creq
    BY <1>4 DEF ArriveUpdate, UpdateStep, GetUserAccountById, AliasTooLong, UpdateAlias,
       UpdateFails
  <1>5. CASE Crash
    BY <1>5 DEF TypeOK, Crash
  <1>6. CASE UNCHANGED vars
    BY <1>6 DEF vars
  <1> QED BY <1>1, <1>2, <1>3, <1>4, <1>5, <1>6 DEF Next, Quiescent

(* A key that is linked, or whose account is on the ledger, is stored, and *)
(* its creation has a user.                                                *)
LEMMA LinkedKeys ==
  ASSUME Bookkeeping, NEW k \in Creations,
         gmKeys[k].account # NoAccount \/ chain[k] # NoAccount
  PROVE  /\ gmKeys[k].saved
         /\ pc[k] # "new"
         /\ UserOf(k) \in Users /\ UserOf(k) # None
         /\ chain[k] \in AccountIds
  <1>1. gmKeys[k].saved /\ chain[k] \in AccountIds
    BY DEF Bookkeeping, LinkSound, KeyBeforeAccount, TypeOK, AccountIds, NoAccount
  <1>2. pc[k] # "new" BY <1>1 DEF Bookkeeping, HandlerPhases, BeforeKey
  <1>3. UserOf(k) \in Users BY <1>2, Requests DEF Bookkeeping
  <1> QED BY <1>1, <1>2, <1>3, ConstantsAssumption

(* A row has a user as long as it has a linked key.                        *)
LEMMA RegisteredIsLinked ==
  ASSUME Bookkeeping, NEW a \in AccountIds
  PROVE  Registered(a) <=> \E k \in Creations : gmKeys[k].account = a
  <1>1. ASSUME NEW k \in Creations, gmKeys[k].account = a PROVE Registered(a)
    <2>1. gmKeys[k].account # NoAccount BY <1>1 DEF AccountIds, NoAccount
    <2>2. gmAccounts[a].user = UserOf(k) BY <1>1, <2>1 DEF Bookkeeping, LinkSound
    <2> QED BY <2>1, <2>2, LinkedKeys DEF Registered, Registry!Registered
  <1> QED BY <1>1 DEF Bookkeeping, RowHasKey, KeysOf

(* save() links the new key, unlinks the others, and leaves the rest.      *)
LEMMA SaveAccountLinks ==
  ASSUME Bookkeeping, NEW r \in Creations, SaveAccount(r), NEW k \in Creations
  PROVE  /\ gmKeys'[k].saved = gmKeys[k].saved
         /\ gmKeys'[k].account =
              IF k = r THEN chain[r]
              ELSE IF gmKeys[k].account = chain[r] THEN NoAccount ELSE gmKeys[k].account
  <1>1. gmKeys'[k] = [gmKeys[k] EXCEPT !.account =
          IF k = r THEN chain[r]
          ELSE IF k \in found[r].keys THEN NoAccount ELSE gmKeys[k].account]
    BY DEF SaveAccount
  <1>2. gmKeys[k] \in [saved: BOOLEAN, escrow: EscrowKeys,
                       account: {NoAccount} \cup AccountIds]
    BY DEF Bookkeeping, TypeOK
  <1>3. pc[r] = "writeAccount" /\ chain[r] # NoAccount /\ chain[r] \in AccountIds
    BY DEF SaveAccount, Bookkeeping, HandlerPhases, TypeOK
  <1>4. k \in found[r].keys <=> gmKeys[k].account = chain[r]
    <2>1. CASE found[r].user = None
      <3>1. found[r].keys = {} BY <2>1 DEF Bookkeeping, FoundSound, NotFound
      <3>2. ~Registered(chain[r]) BY <2>1 DEF SaveAccount, Writable
      <3> QED BY <1>3, <3>1, <3>2, RegisteredIsLinked
    <2>2. CASE found[r].user # None
      <3>1. KeysOf(chain[r]) = found[r].keys BY <1>3, <2>2 DEF Bookkeeping, FoundSound
      <3> QED BY <1>3, <3>1, LinkedKeys DEF KeysOf
    <2> QED BY <2>1, <2>2
  <1> QED BY <1>1, <1>2, <1>4

(* Only these steps touch the tables, the ledger or the requests.          *)
LEMMA DataSteps ==
  ASSUME [Next]_vars
  PROVE  \/ \E r \in Creations :
              Arrive(r) \/ SaveKey(r) \/ Submit(r) \/ SaveAccount(r)
              \/ OpenAccount(r) \/ RejectTx(r)
         \/ \E u \in Updates : UpdateAlias(u)
         \/ UNCHANGED <<creq, gmKeys, gmAccounts, tx, chain, nextId>>
  <1> USE DEF locals, tables, ledger, creations, updates
  <1> QED
    BY DEF Next, CreateStep, UpdateStep, Settle, Quiescent, vars, Count, AliasRejected,
       EscrowDenied, AliasFree, PayerMissing, PayerUnusable, LoadPayer, Receipt,
       LoadRow, RowRefused, CallFails, ArriveUpdate, GetUserAccountById, AliasTooLong,
       UpdateFails, Crash

LEMMA RenamesKeepUsers ==
  ASSUME TypeOK, NEW u \in Updates, UpdateAlias(u)
  PROVE  \A a \in AccountIds : gmAccounts'[a].user = gmAccounts[a].user
  <1>1. CASE gmAccounts' = [gmAccounts EXCEPT ![ureq[u].id].alias = ureq[u].alias]
    <2>1. gmAccounts \in [AccountIds -> [user: Users \cup {None},
                                         alias: AliasStrings \cup {None}]]
      BY DEF TypeOK
    <2> QED BY <1>1, <2>1
  <1>2. CASE gmAccounts' = gmAccounts BY <1>2
  <1> QED BY <1>1, <1>2 DEF UpdateAlias

-----------------------------------------------------------------------------
(* The inductive invariant, conjunct by conjunct.                          *)

LEMMA InitBookkeeping == Init => Bookkeeping
  <1> SUFFICES ASSUME Init PROVE Bookkeeping
    OBVIOUS
  <1>1. TypeOK BY InitTypeOK
  <1>2. HandlerPhases
    BY DEF Init, HandlerPhases, NoKey, NoTx
  <1>3. KeyBeforeAccount
    BY DEF Init, KeyBeforeAccount, NoTx
  <1>4. LinkSound
    BY DEF Init, LinkSound, NoKey
  <1>5. RowHasKey
    BY DEF Init, RowHasKey, Registered, Registry!Init, Registry!Registered, Registry!NoRow
  <1>6. PayerDecided /\ PayerHeld /\ GoMintNeverFunds
    BY DEF Init, PayerDecided, PayerHeld, GoMintNeverFunds, NoTx
  <1>7. IdsFresh /\ IdsUnique /\ FoundSound
    BY DEF Init, IdsFresh, IdsUnique, FoundSound, NotFound
  <1> QED BY <1>1, <1>2, <1>3, <1>4, <1>5, <1>6, <1>7 DEF Bookkeeping

(* The stage of a handler keeps step with the tables and the ledger.       *)
LEMMA NextHandlerPhases ==
  ASSUME Bookkeeping, [Next]_vars
  PROVE  HandlerPhases'
  <1> USE DEF HandlerPhases, BeforeKey, Stages, Goto, Acknowledge, locals, tables, ledger,
              creations, updates
  <1>0. TypeOK /\ HandlerPhases BY DEF Bookkeeping
  <1>1. ASSUME NEW r \in Creations, Arrive(r) PROVE HandlerPhases'
    BY <1>0, <1>1 DEF TypeOK, Arrive
  <1>2. ASSUME NEW r \in Creations, Count(r) PROVE HandlerPhases'
    BY <1>0, <1>2 DEF TypeOK, Count
  <1>3. ASSUME NEW r \in Creations, AliasRejected(r) \/ AliasFree(r) PROVE HandlerPhases'
    BY <1>0, <1>3 DEF TypeOK, AliasRejected, AliasFree
  <1>4. ASSUME NEW r \in Creations, EscrowDenied(r) PROVE HandlerPhases'
    <2>1. DecryptUserEscrowKey(UserOf(r), creq[r].header) \in
            {"DecryptionFailedError", "EncryptionKeyNotProvidedError"}
      BY <1>0, <1>4, Requests, EscrowOutcome DEF EscrowDenied, EscrowErrors
    <2> QED BY <1>0, <1>4, <2>1 DEF TypeOK, EscrowDenied
  <1>5. ASSUME NEW r \in Creations, PayerMissing(r) \/ PayerUnusable(r) \/ LoadPayer(r)
        PROVE HandlerPhases'
    BY <1>0, <1>5 DEF TypeOK, PayerMissing, PayerUnusable, LoadPayer
  <1>6. ASSUME NEW r \in Creations, SaveKey(r) PROVE HandlerPhases'
    BY <1>0, <1>6 DEF TypeOK, SaveKey
  <1>7. ASSUME NEW r \in Creations, Submit(r) PROVE HandlerPhases'
    BY <1>0, <1>7 DEF TypeOK, Submit
  <1>8. ASSUME NEW r \in Creations, Receipt(r) PROVE HandlerPhases'
    BY <1>0, <1>8 DEF TypeOK, Receipt
  <1>9. ASSUME NEW r \in Creations, SaveAccount(r) PROVE HandlerPhases'
    <2>1. \A k \in Creations :
            /\ gmKeys'[k].saved = gmKeys[k].saved
            /\ k # r /\ gmKeys[k].account = NoAccount => gmKeys'[k].account = NoAccount
      BY <1>9, SaveAccountLinks
    <2>2. /\ pc'[r] \in {"created", "unavailable"}
          /\ \A k \in Creations : k # r => pc'[k] = pc[k]
      BY <1>0, <1>9 DEF TypeOK, SaveAccount
    <2>3. pc[r] = "writeAccount" /\ UNCHANGED <<tx, chain>>
      BY <1>9 DEF SaveAccount
    <2>4. gmKeys[r].saved /\ chain[r] # NoAccount
      BY <1>0, <2>3
    <2> QED BY <1>0, <2>1, <2>2, <2>3, <2>4
  <1>10. ASSUME NEW r \in Creations, LoadRow(r) \/ RowRefused(r) \/ CallFails(r)
         PROVE HandlerPhases'
    BY <1>0, <1>10 DEF TypeOK, LoadRow, RowRefused, CallFails
  <1>11. ASSUME NEW r \in Creations, OpenAccount(r) PROVE HandlerPhases'
    BY <1>0, <1>11 DEF TypeOK, OpenAccount
  <1>12. ASSUME NEW r \in Creations, RejectTx(r) PROVE HandlerPhases'
    BY <1>0, <1>12 DEF TypeOK, RejectTx
  <1>13. ASSUME NEW u \in Updates,
                ArriveUpdate(u) \/ UpdateStep(u)
         PROVE HandlerPhases'
    BY <1>0, <1>13 DEF ArriveUpdate, UpdateStep, GetUserAccountById, AliasTooLong, UpdateAlias,
       UpdateFails
  <1>14. CASE Crash
    BY <1>0, <1>14 DEF Crash
  <1>15. CASE UNCHANGED vars
    BY <1>0, <1>15 DEF vars
  <1> QED
    BY <1>1, <1>2, <1>3, <1>4, <1>5, <1>6, <1>7, <1>8, <1>9, <1>10, <1>11, <1>12,
       <1>13, <1>14, <1>15
    DEF Next, CreateStep, UpdateStep, Settle, Quiescent

(* The key is stored first, and never removed.                             *)
LEMMA NextKeyBeforeAccount ==
  ASSUME Bookkeeping, [Next]_vars
  PROVE  KeyBeforeAccount'
  <1> USE DEF KeyBeforeAccount, locals, tables, ledger, updates, creations
  <1>0. TypeOK /\ HandlerPhases /\ KeyBeforeAccount BY DEF Bookkeeping
  <1>1. ASSUME NEW r \in Creations, Arrive(r) PROVE KeyBeforeAccount'
    BY <1>0, <1>1 DEF Arrive
  <1>2. ASSUME NEW r \in Creations, SaveKey(r) PROVE KeyBeforeAccount'
    BY <1>0, <1>2 DEF TypeOK, SaveKey
  <1>3. ASSUME NEW r \in Creations, Submit(r) PROVE KeyBeforeAccount'
    BY <1>0, <1>3 DEF TypeOK, HandlerPhases, Submit
  <1>4. ASSUME NEW r \in Creations, SaveAccount(r) PROVE KeyBeforeAccount'
    BY <1>0, <1>4, SaveAccountLinks DEF SaveAccount
  <1>5. ASSUME NEW r \in Creations, OpenAccount(r) \/ RejectTx(r) PROVE KeyBeforeAccount'
    BY <1>0, <1>5 DEF TypeOK, OpenAccount, RejectTx
  <1>6. ASSUME NEW u \in Updates, UpdateAlias(u) PROVE KeyBeforeAccount'
    BY <1>0, <1>6 DEF UpdateAlias
  <1>7. CASE UNCHANGED <<creq, gmKeys, gmAccounts, tx, chain, nextId>>
    BY <1>0, <1>7
  <1> QED BY <1>1, <1>2, <1>3, <1>4, <1>5, <1>6, <1>7, DataSteps

(* Links follow the ledger: a key is linked only by its own handler, to    *)
(* the account the receipt named, whose row is written in the same save.   *)
LEMMA NextLinkSound ==
  ASSUME Bookkeeping, [Next]_vars
  PROVE  LinkSound'
  <1> USE DEF locals, tables, ledger, updates, creations
  <1>0. TypeOK /\ HandlerPhases /\ KeyBeforeAccount /\ LinkSound BY DEF Bookkeeping
  <1>a. \A k \in Creations : gmKeys[k].saved => UserOf(k)' = UserOf(k)
    BY <1>0, RequestsStay DEF HandlerPhases, BeforeKey
  <1>1. ASSUME NEW r \in Creations, Arrive(r) PROVE LinkSound'
    BY <1>0, <1>a, <1>1 DEF LinkSound, Arrive
  <1>2. ASSUME NEW r \in Creations, SaveKey(r) PROVE LinkSound'
    BY <1>0, <1>a, <1>2 DEF TypeOK, LinkSound, SaveKey
  <1>3. ASSUME NEW r \in Creations, Submit(r) \/ RejectTx(r) PROVE LinkSound'
    BY <1>0, <1>a, <1>3 DEF LinkSound, Submit, RejectTx
  <1>4. ASSUME NEW r \in Creations, SaveAccount(r) PROVE LinkSound'
    <2>1. gmKeys[r].saved /\ chain[r] \in AccountIds
      BY <1>0, <1>4 DEF TypeOK, HandlerPhases, SaveAccount
    <2>2. SUFFICES ASSUME NEW k \in Creations, gmKeys'[k].account # NoAccount
                   PROVE  /\ gmKeys'[k].saved
                          /\ chain'[k] = gmKeys'[k].account
                          /\ gmAccounts'[chain'[k]].user = UserOf(k)'
      BY DEF LinkSound
    <2>3. CASE k = r
      BY <1>0, <1>a, <1>4, <2>1, <2>3, SaveAccountLinks DEF TypeOK, SaveAccount
    <2>4. CASE k # r
      <3>1. gmKeys[k].account # NoAccount /\ gmKeys[k].account # chain[r]
            /\ gmKeys'[k].account = gmKeys[k].account /\ gmKeys'[k].saved = gmKeys[k].saved
        BY <1>0, <1>4, <2>2, <2>4, SaveAccountLinks
      <3>2. chain[k] = gmKeys[k].account /\ gmKeys[k].saved
            /\ gmAccounts[chain[k]].user = UserOf(k)
        BY <1>0, <3>1 DEF LinkSound
      <3> QED BY <1>0, <1>a, <1>4, <3>1, <3>2 DEF TypeOK, SaveAccount
    <2> QED BY <2>3, <2>4
  <1>5. ASSUME NEW r \in Creations, OpenAccount(r) PROVE LinkSound'
    <2>1. chain[r] = NoAccount
      BY <1>0, <1>5 DEF HandlerPhases, OpenAccount
    <2> QED BY <1>0, <1>a, <1>5, <2>1 DEF TypeOK, LinkSound, OpenAccount
  <1>6. ASSUME NEW u \in Updates, UpdateAlias(u) PROVE LinkSound'
    <2>1. \A a \in AccountIds : gmAccounts'[a].user = gmAccounts[a].user
      BY <1>0, <1>6, RenamesKeepUsers
    <2> QED BY <1>0, <1>a, <1>6, <2>1 DEF TypeOK, LinkSound, UpdateAlias
  <1>7. CASE UNCHANGED <<creq, gmKeys, gmAccounts, tx, chain, nextId>>
    BY <1>0, <1>7 DEF LinkSound, UserOf
  <1> QED BY <1>1, <1>2, <1>3, <1>4, <1>5, <1>6, <1>7, DataSteps

(* No row loses its last key: only a save unlinks keys, from the row it    *)
(* links another one to.                                                   *)
LEMMA NextRowHasKey ==
  ASSUME Bookkeeping, [Next]_vars
  PROVE  RowHasKey'
  <1> USE DEF KeysOf, Registered, Registry!Registered, locals, tables, ledger, updates, creations
  <1>0. TypeOK /\ HandlerPhases /\ LinkSound /\ RowHasKey BY DEF Bookkeeping
  <1>1. ASSUME NEW r \in Creations, Arrive(r) \/ Submit(r) \/ OpenAccount(r) \/ RejectTx(r)
        PROVE  RowHasKey'
    BY <1>0, <1>1 DEF RowHasKey, Arrive, Submit, OpenAccount, RejectTx
  <1>2. ASSUME NEW r \in Creations, SaveKey(r) PROVE RowHasKey'
    <2>1. ~gmKeys[r].saved BY <1>0, <1>2 DEF HandlerPhases, BeforeKey, SaveKey
    <2> QED BY <1>0, <1>2, <2>1 DEF TypeOK, RowHasKey, SaveKey
  <1>3. ASSUME NEW r \in Creations, SaveAccount(r) PROVE RowHasKey'
    <2>1. gmKeys[r].saved /\ chain[r] # NoAccount
      BY <1>0, <1>3 DEF HandlerPhases, SaveAccount
    <2>2. SUFFICES ASSUME NEW a \in AccountIds, gmAccounts'[a].user # None
                   PROVE  \E k \in Creations : gmKeys'[k].saved /\ gmKeys'[k].account = a
      BY DEF RowHasKey
    <2>3. CASE a = chain[r]
      BY <1>0, <1>3, <2>1, <2>3, SaveAccountLinks
    <2>4. CASE a # chain[r]
      <3>1. gmAccounts[a].user # None
        BY <1>0, <1>3, <2>2, <2>4 DEF TypeOK, SaveAccount
      <3>2. PICK k \in Creations : gmKeys[k].saved /\ gmKeys[k].account = a
        BY <1>0, <3>1 DEF RowHasKey
      <3>3. k # r
        BY <1>0, <2>4, <3>2 DEF LinkSound, AccountIds, NoAccount
      <3> QED BY <1>0, <1>3, <2>4, <3>2, <3>3, SaveAccountLinks
    <2> QED BY <2>3, <2>4
  <1>4. ASSUME NEW u \in Updates, UpdateAlias(u) PROVE RowHasKey'
    <2>1. \A a \in AccountIds : gmAccounts'[a].user = gmAccounts[a].user
      BY <1>0, <1>4, RenamesKeepUsers
    <2> QED BY <1>0, <1>4, <2>1 DEF RowHasKey, UpdateAlias
  <1>5. CASE UNCHANGED <<creq, gmKeys, gmAccounts, tx, chain, nextId>>
    BY <1>0, <1>5 DEF RowHasKey
  <1> QED BY <1>1, <1>2, <1>3, <1>4, <1>5, DataSteps

(* A network's ids are handed out in order.                                *)
LEMMA NextIds ==
  ASSUME Bookkeeping, [Next]_vars
  PROVE  IdsFresh' /\ IdsUnique'
  <1> USE DEF locals, tables, ledger, updates, creations
  <1>0. TypeOK /\ HandlerPhases /\ KeyBeforeAccount /\ IdsFresh /\ IdsUnique
    BY DEF Bookkeeping
  <1>a. \A k \in Creations : chain[k] # NoAccount => pc[k] # "new" /\ UserOf(k)' = UserOf(k)
    BY <1>0, RequestsStay DEF HandlerPhases, BeforeKey, KeyBeforeAccount
  <1>b. ASSUME UNCHANGED <<chain, nextId>> PROVE IdsFresh' /\ IdsUnique'
    BY <1>0, <1>a, <1>b DEF IdsFresh, IdsUnique
  <1>1. ASSUME NEW r \in Creations, OpenAccount(r) PROVE IdsFresh' /\ IdsUnique'
    <2> DEFINE n == network[UserOf(r)]
    <2>1. pc[r] # "new"
      BY <1>0, <1>1 DEF HandlerPhases, BeforeKey, OpenAccount
    <2>2. UserOf(r) \in Users /\ UserOf(r)' = UserOf(r)
      BY <1>0, <2>1, Requests, RequestsStay
    <2>3. n \in Networks
      BY <2>2, ConstantsAssumption
    <2>4. /\ nextId[n] \in AccountIds
          /\ chain' = [chain EXCEPT ![r] = nextId[n]]
          /\ nextId' = [nextId EXCEPT ![n] = nextId[n] + 1]
      BY <1>1 DEF OpenAccount
    <2>5. chain[r] = NoAccount
      BY <1>0, <1>1 DEF HandlerPhases, OpenAccount
    <2>6. \A k \in Creations : chain'[k] = IF k = r THEN nextId[n] ELSE chain[k]
      BY <1>0, <2>4 DEF TypeOK
    <2>7. \A m \in Networks :
            /\ nextId[m] \in Nat
            /\ nextId'[m] = IF m = n THEN nextId[n] + 1 ELSE nextId[m]
      BY <1>0, <2>4, ConstantsAssumption DEF TypeOK
    <2>8. \A k \in Creations : chain[k] # NoAccount =>
            network[UserOf(k)] \in Networks /\ chain[k] \in Nat
      BY <1>0, <1>a, Requests, ConstantsAssumption DEF TypeOK, AccountIds, NoAccount
    <2>9. IdsFresh'
      <3>1. SUFFICES ASSUME NEW k \in Creations, chain'[k] # NoAccount
                     PROVE  chain'[k] < nextId'[network[UserOf(k)']]
        BY DEF IdsFresh
      <3>2. CASE k = r BY <2>2, <2>3, <2>4, <2>6, <2>7, <3>2
      <3>3. CASE k # r
        <4>1. chain'[k] = chain[k] /\ chain[k] # NoAccount BY <2>6, <3>1, <3>3
        <4>2. chain[k] < nextId[network[UserOf(k)]] BY <1>0, <4>1 DEF IdsFresh
        <4> HIDE DEF n
        <4> QED BY <1>a, <2>3, <2>7, <2>8, <4>1, <4>2
      <3> QED BY <3>2, <3>3
    <2>10. IdsUnique'
      <3>1. \A k \in Creations :
              k # r /\ chain[k] # NoAccount /\ network[UserOf(k)] = n => chain[k] # nextId[n]
        BY <1>0, <2>3, <2>7, <2>8 DEF IdsFresh
      <3>2. nextId[n] # NoAccount BY <2>4 DEF AccountIds, NoAccount
      <3> HIDE DEF n
      <3>3. SUFFICES ASSUME NEW j \in Creations, NEW k \in Creations,
                            chain'[j] # NoAccount, chain'[j] = chain'[k],
                            network[UserOf(j)'] = network[UserOf(k)']
                     PROVE  j = k
        BY DEF IdsUnique
      <3>4. CASE j # r /\ k # r
        BY <1>0, <1>a, <2>6, <3>3, <3>4 DEF IdsUnique
      <3>5. CASE j = r /\ k # r
        BY <1>a, <2>2, <2>6, <3>1, <3>2, <3>3, <3>5 DEF n
      <3>6. CASE j # r /\ k = r
        BY <1>a, <2>2, <2>6, <3>1, <3>2, <3>3, <3>6 DEF n
      <3> QED BY <3>4, <3>5, <3>6
    <2> QED BY <2>9, <2>10
  <1>2. ASSUME NEW r \in Creations,
               Arrive(r) \/ SaveKey(r) \/ Submit(r) \/ SaveAccount(r) \/ RejectTx(r)
        PROVE  UNCHANGED <<chain, nextId>>
    BY <1>2 DEF Arrive, SaveKey, Submit, SaveAccount, RejectTx
  <1>3. ASSUME NEW u \in Updates, UpdateAlias(u) PROVE UNCHANGED <<chain, nextId>>
    BY <1>3 DEF UpdateAlias
  <1> QED BY <1>b, <1>1, <1>2, <1>3, DataSteps

(* A stored key stays stored, and keeps the account it controls.           *)
LEMMA KeysStay ==
  ASSUME Bookkeeping, [Next]_vars, NEW k \in Creations
  PROVE  /\ gmKeys[k].saved => gmKeys'[k].saved
         /\ chain[k] # NoAccount => chain'[k] = chain[k]
  <1> USE DEF locals, tables, ledger, updates, creations
  <1>0. TypeOK /\ HandlerPhases BY DEF Bookkeeping
  <1>1. ASSUME NEW r \in Creations, SaveKey(r)
        PROVE  (gmKeys[k].saved => gmKeys'[k].saved) /\ chain' = chain
    BY <1>0, <1>1 DEF TypeOK, SaveKey
  <1>2. ASSUME NEW r \in Creations, SaveAccount(r)
        PROVE  gmKeys'[k].saved = gmKeys[k].saved /\ chain' = chain
    BY <1>0, <1>2, SaveAccountLinks DEF SaveAccount
  <1>3. ASSUME NEW r \in Creations, OpenAccount(r)
        PROVE  gmKeys' = gmKeys /\ (chain[k] # NoAccount => chain'[k] = chain[k])
    BY <1>0, <1>3 DEF TypeOK, HandlerPhases, OpenAccount
  <1>4. ASSUME NEW r \in Creations, Arrive(r) \/ Submit(r) \/ RejectTx(r)
        PROVE  UNCHANGED <<gmKeys, chain>>
    BY <1>4 DEF Arrive, Submit, RejectTx
  <1>5. ASSUME NEW u \in Updates, UpdateAlias(u) PROVE UNCHANGED <<gmKeys, chain>>
    BY <1>5 DEF UpdateAlias
  <1> QED BY <1>1, <1>2, <1>3, <1>4, <1>5, DataSteps

(* Settling a transaction leaves its terms.                                *)
LEMMA SettledTerms ==
  ASSUME TypeOK, NEW r \in Creations, OpenAccount(r) \/ RejectTx(r), NEW k \in Creations
  PROVE  /\ tx'[k].payer = tx[k].payer
         /\ tx'[k].funded = tx[k].funded
         /\ tx'[k].status # "unsent" => tx[k].status # "unsent"
  <1>1. tx[r].status = "pending" /\ tx' = [tx EXCEPT ![r].status = "settled"]
    BY DEF OpenAccount, RejectTx
  <1>2. tx[k] \in [status: {"unsent", "pending", "settled"},
                   payer: {GoMint} \cup AccountIds, funded: BOOLEAN]
    BY DEF TypeOK
  <1>3. tx'[k] = IF k = r THEN [tx[k] EXCEPT !.status = "settled"] ELSE tx[k]
    BY <1>1 DEF TypeOK
  <1> QED BY <1>1, <1>2, <1>3

(* Who pays is decided once, before anything is sent.                      *)
LEMMA NextPayerDecided ==
  ASSUME Bookkeeping, [Next]_vars
  PROVE  PayerDecided'
  <1> USE DEF PayerDecided, BeforeKey, Goto, Acknowledge, locals, tables, ledger,
              creations, updates
  <1>0. TypeOK /\ HandlerPhases /\ PayerDecided BY DEF Bookkeeping
  <1>1. ASSUME NEW r \in Creations, Arrive(r) PROVE PayerDecided'
    BY <1>0, <1>1 DEF TypeOK, Arrive
  <1>2. ASSUME NEW r \in Creations, Count(r) PROVE PayerDecided'
    BY <1>0, <1>2 DEF TypeOK, Count
  <1>3. ASSUME NEW r \in Creations, AliasRejected(r) \/ AliasFree(r) PROVE PayerDecided'
    BY <1>0, <1>3 DEF TypeOK, AliasRejected, AliasFree
  <1>4. ASSUME NEW r \in Creations, EscrowDenied(r) PROVE PayerDecided'
    <2>1. DecryptUserEscrowKey(UserOf(r), creq[r].header) \in
            {"DecryptionFailedError", "EncryptionKeyNotProvidedError"}
      BY <1>0, <1>4, Requests, EscrowOutcome DEF EscrowDenied, EscrowErrors
    <2> QED BY <1>0, <1>4, <2>1 DEF TypeOK, EscrowDenied
  <1>5. ASSUME NEW r \in Creations, PayerMissing(r) \/ PayerUnusable(r) PROVE PayerDecided'
    BY <1>0, <1>5 DEF TypeOK, PayerMissing, PayerUnusable
  <1>6. ASSUME NEW r \in Creations, LoadPayer(r) PROVE PayerDecided'
    <2>1. PICK a \in UserAccountByAlias(UserOf(r), creq[r].payerId) :
            payer' = [payer EXCEPT ![r] = a]
      BY <1>6 DEF LoadPayer
    <2>2. a # GoMint
      BY <2>1 DEF UserAccountByAlias, AccountsOf, AccountIds, GoMint
    <2>3. tx[r].status = "unsent"
      BY <1>0, <1>6 DEF HandlerPhases, LoadPayer
    <2> QED BY <1>0, <1>6, <2>1, <2>2, <2>3 DEF TypeOK, LoadPayer
  <1>7. ASSUME NEW r \in Creations, SaveKey(r) PROVE PayerDecided'
    BY <1>0, <1>7 DEF TypeOK, SaveKey
  <1>8. ASSUME NEW r \in Creations, Submit(r) PROVE PayerDecided'
    BY <1>0, <1>8 DEF TypeOK, Submit
  <1>9. ASSUME NEW r \in Creations, Receipt(r) PROVE PayerDecided'
    BY <1>0, <1>9 DEF TypeOK, Receipt
  <1>10. ASSUME NEW r \in Creations, SaveAccount(r) PROVE PayerDecided'
    BY <1>0, <1>10 DEF TypeOK, SaveAccount
  <1>11. ASSUME NEW r \in Creations, LoadRow(r) \/ RowRefused(r) \/ CallFails(r)
         PROVE PayerDecided'
    BY <1>0, <1>11 DEF TypeOK, LoadRow, RowRefused, CallFails
  <1>12. ASSUME NEW r \in Creations, OpenAccount(r) \/ RejectTx(r) PROVE PayerDecided'
    BY <1>0, <1>12, SettledTerms DEF OpenAccount, RejectTx
  <1>13. ASSUME NEW u \in Updates,
                ArriveUpdate(u) \/ UpdateStep(u)
         PROVE PayerDecided'
    BY <1>0, <1>13 DEF ArriveUpdate, UpdateStep, GetUserAccountById, AliasTooLong, UpdateAlias,
       UpdateFails
  <1>14. CASE Crash
    BY <1>0, <1>14 DEF Crash
  <1>15. CASE UNCHANGED vars
    BY <1>0, <1>15 DEF vars
  <1> QED
    BY <1>1, <1>2, <1>3, <1>4, <1>5, <1>6, <1>7, <1>8, <1>9, <1>10, <1>11, <1>12,
       <1>13, <1>14, <1>15
    DEF Next, CreateStep, UpdateStep, Settle, Quiescent

(* Only LoadPayer writes the payer.                                        *)
LEMMA PayerSteps ==
  ASSUME [Next]_vars
  PROVE  payer' = payer \/ \E r \in Creations : LoadPayer(r)
  <1> USE DEF locals, creations
  <1> QED
    BY DEF Next, CreateStep, UpdateStep, Settle, Quiescent, vars, Arrive, Count,
       AliasRejected, EscrowDenied, AliasFree, PayerMissing, PayerUnusable, SaveKey,
       Submit, Receipt, LoadRow, SaveAccount, RowRefused, CallFails, OpenAccount, RejectTx,
       ArriveUpdate, GetUserAccountById, AliasTooLong, UpdateAlias,
       UpdateFails, Crash

(* The payer an account creation remembers stays an account its user holds *)
(* the key of: the client could not have been built otherwise.             *)
LEMMA NextPayerHeld ==
  ASSUME Bookkeeping, [Next]_vars
  PROVE  PayerHeld'
  <1>0. TypeOK /\ HandlerPhases /\ LinkSound /\ PayerDecided /\ PayerHeld BY DEF Bookkeeping
  <1>1. ASSUME NEW r \in Creations, NEW k \in Creations, NEW a \in AccountIds,
               pc[r] # "new", gmKeys[k].saved, UserOf(k) = UserOf(r), chain[k] = a
        PROVE  gmKeys'[k].saved /\ UserOf(k)' = UserOf(r)' /\ chain'[k] = a
    <2>1. chain[k] # NoAccount /\ pc[k] # "new"
      BY <1>0, <1>1 DEF HandlerPhases, BeforeKey, AccountIds, NoAccount
    <2>2. UserOf(k)' = UserOf(k) /\ UserOf(r)' = UserOf(r)
      BY <1>0, <1>1, <2>1, RequestsStay
    <2> QED BY <1>1, <2>1, <2>2, KeysStay
  <1>2. SUFFICES ASSUME NEW r \in Creations, payer'[r] # GoMint
                 PROVE  \E k \in Creations :
                          /\ gmKeys'[k].saved
                          /\ UserOf(k)' = UserOf(r)'
                          /\ chain'[k] = payer'[r]
    BY DEF PayerHeld
  <1>3. CASE payer'[r] = payer[r]
    <2>1. payer[r] \in AccountIds /\ pc[r] # "new"
      BY <1>0, <1>2, <1>3 DEF TypeOK, PayerDecided
    <2>2. PICK k \in Creations : gmKeys[k].saved /\ UserOf(k) = UserOf(r) /\ chain[k] = payer[r]
      BY <1>0, <1>2, <1>3 DEF PayerHeld
    <2> QED BY <1>1, <1>3, <2>1, <2>2
  <1>4. CASE payer'[r] # payer[r]
    <2>1. PICK s \in Creations : LoadPayer(s)
      BY <1>4, PayerSteps
    <2>2. PICK a \in UserAccountByAlias(UserOf(s), creq[s].payerId) :
            CanSignFor(s, a) /\ payer' = [payer EXCEPT ![s] = a]
      BY <2>1 DEF LoadPayer
    <2>3. s = r /\ payer'[r] = a /\ pc[r] # "new" /\ a \in AccountIds
      BY <1>0, <1>4, <2>1, <2>2 DEF TypeOK, LoadPayer, UserAccountByAlias, AccountsOf
    <2>4. PICK k \in Creations : gmKeys[k].saved /\ gmKeys[k].account = a /\ UserOf(k) = UserOf(r)
      BY <2>2, <2>3 DEF CanSignFor, KeysOf
    <2>5. chain[k] = a
      BY <1>0, <2>3, <2>4 DEF LinkSound, AccountIds, NoAccount
    <2> QED BY <1>1, <2>3, <2>4, <2>5
  <1> QED BY <1>3, <1>4

(* What GoMint pays for was built from the count that found no account.    *)
LEMMA NextGoMintNeverFunds ==
  ASSUME Bookkeeping, [Next]_vars
  PROVE  GoMintNeverFunds'
  <1> USE DEF GoMintNeverFunds
  <1>0. TypeOK /\ PayerDecided /\ GoMintNeverFunds BY DEF Bookkeeping
  <1>1. ASSUME NEW r \in Creations, Submit(r) PROVE GoMintNeverFunds'
    BY <1>0, <1>1 DEF TypeOK, PayerDecided, Submit
  <1>2. ASSUME NEW r \in Creations, OpenAccount(r) \/ RejectTx(r) PROVE GoMintNeverFunds'
    BY <1>0, <1>2, SettledTerms
  <1>3. ASSUME NEW r \in Creations, Arrive(r) \/ SaveKey(r) \/ SaveAccount(r) PROVE UNCHANGED tx
    BY <1>3 DEF Arrive, SaveKey, SaveAccount, ledger
  <1>4. ASSUME NEW u \in Updates, UpdateAlias(u) PROVE UNCHANGED tx
    BY <1>4 DEF UpdateAlias, ledger
  <1> QED BY <1>0, <1>1, <1>2, <1>3, <1>4, DataSteps

(* Only LoadRow writes what save() has read, and goes on to write the row. *)
LEMMA FoundSteps ==
  ASSUME TypeOK, [Next]_vars
  PROVE  \/ \E r \in Creations : LoadRow(r)
         \/ /\ found' = found
            /\ \A s \in Creations : pc'[s] = "writeAccount" => pc[s] = "writeAccount"
  <1> USE DEF locals, creations, updates, Goto, Acknowledge
  <1> DEFINE Kept ==
        /\ found' = found
        /\ \A s \in Creations : pc'[s] = "writeAccount" => pc[s] = "writeAccount"
  <1>1. ASSUME NEW r \in Creations, CreateStep(r), ~LoadRow(r) PROVE Kept
    <2>1. CASE EscrowDenied(r)
      BY <2>1 DEF EscrowDenied, EscrowErrors, TypeOK
    <2> QED
      BY <1>1, <2>1
      DEF CreateStep, Count, AliasRejected, AliasFree, PayerMissing, PayerUnusable,
          LoadPayer, SaveKey, Submit, Receipt, SaveAccount, RowRefused, CallFails, TypeOK
  <1>2. ASSUME NEW r \in Creations, Arrive(r) \/ Settle(r) PROVE Kept
    BY <1>2 DEF Arrive, Settle, OpenAccount, RejectTx, TypeOK
  <1>3. ASSUME NEW u \in Updates, ArriveUpdate(u) \/ UpdateStep(u) PROVE Kept
    BY <1>3 DEF ArriveUpdate, UpdateStep, GetUserAccountById, AliasTooLong, UpdateAlias,
       UpdateFails
  <1>4. CASE Crash BY <1>4 DEF Crash
  <1>5. CASE UNCHANGED vars BY <1>5 DEF vars
  <1> QED BY <1>1, <1>2, <1>3, <1>4, <1>5 DEF Next, Quiescent

(* Between the two queries of a save nobody else writes the row it found:  *)
(* that would take a third network.                                        *)
LEMMA NextFoundSound ==
  ASSUME Bookkeeping, [Next]_vars
  PROVE  FoundSound'
  <1> USE DEF locals, tables, ledger, updates, creations
  <1>0. TypeOK /\ HandlerPhases /\ FoundSound BY DEF Bookkeeping
  <1>1. ASSUME NEW r \in Creations, LoadRow(r), NEW s \in Creations
        PROVE  /\ found'[s].user = None => found'[s] = NotFound
               /\ pc'[s] = "writeAccount" /\ found'[s].user # None =>
                    Registered(chain[s]) /\ KeysOf(chain[s]) = found'[s].keys
    <2> DEFINE row == IF Registered(chain[r])
                      THEN [user |-> gmAccounts[chain[r]].user,
                            alias |-> gmAccounts[chain[r]].alias,
                            keys |-> KeysOf(chain[r])]
                      ELSE NotFound
    <2>1. found' = [found EXCEPT ![r] = row] /\ pc' = [pc EXCEPT ![r] = "writeAccount"]
      BY <1>1 DEF LoadRow, Goto
    <2>2. /\ row.user = None => row = NotFound
          /\ row.user # None => Registered(chain[r]) /\ row.keys = KeysOf(chain[r])
      BY DEF Registered, Registry!Registered, NotFound
    <2> HIDE DEF row
    <2>3. CASE s = r BY <1>0, <2>1, <2>2, <2>3 DEF TypeOK
    <2>4. CASE s # r BY <1>0, <2>1, <2>4 DEF TypeOK, FoundSound
    <2> QED BY <2>3, <2>4
  <1>2. ASSUME NEW s \in Creations, pc'[s] = "writeAccount", pc[s] = "writeAccount",
               found[s].user # None
        PROVE  Registered(chain[s])' /\ KeysOf(chain[s])' = KeysOf(chain[s])
    <2>1. chain[s] \in AccountIds /\ chain[s] # NoAccount /\ chain'[s] = chain[s]
      BY <1>0, <1>2, KeysStay DEF HandlerPhases, TypeOK
    <2>2. gmAccounts[chain[s]].user # None
      BY <1>0, <1>2 DEF FoundSound, Registered, Registry!Registered
    <2> DEFINE Still ==
          /\ gmAccounts'[chain[s]].user # None
          /\ \A k \in Creations : gmKeys'[k].saved /\ gmKeys'[k].account = chain[s]
                                 <=> gmKeys[k].saved /\ gmKeys[k].account = chain[s]
    <2>3. ASSUME NEW r \in Creations, SaveKey(r) PROVE Still
      <3>1. ~gmKeys[r].saved BY <1>0, <2>3 DEF HandlerPhases, BeforeKey, SaveKey
      <3> QED BY <1>0, <2>1, <2>2, <2>3, <3>1 DEF SaveKey, TypeOK
    <2>4. ASSUME NEW r \in Creations, SaveAccount(r) PROVE Still
      <3>1. r # s BY <1>0, <1>2, <2>4 DEF SaveAccount, Goto, Acknowledge, TypeOK
      <3>2. pc[r] = "writeAccount" /\ chain[r] # NoAccount
        BY <1>0, <2>4 DEF SaveAccount, HandlerPhases
      <3>3. chain[r] # chain[s]
        <4>1. SUFFICES ASSUME chain[r] = chain[s] PROVE FALSE OBVIOUS
        <4>2. PICK k \in Creations : gmKeys[k].account = chain[s]
          BY <1>0, <1>2, <2>1, RegisteredIsLinked DEF FoundSound
        <4>3. chain[k] = chain[s] /\ k # r /\ k # s
          BY <1>0, <1>2, <2>1, <3>2, <4>2 DEF Bookkeeping, LinkSound, HandlerPhases, Stages
        <4>4. /\ network[UserOf(k)] \in Networks
              /\ network[UserOf(r)] \in Networks
              /\ network[UserOf(s)] \in Networks
          BY <2>1, <3>2, <4>3, LinkedKeys, ConstantsAssumption
        <4> QED
          BY <2>1, <3>1, <4>1, <4>3, <4>4, ConstantsAssumption DEF Bookkeeping, IdsUnique
      <3>4. gmKeys[r].account = NoAccount BY <1>0, <3>2 DEF HandlerPhases, Stages
      <3>5. \A k \in Creations : gmKeys'[k].saved = gmKeys[k].saved
        BY <2>4, SaveAccountLinks
      <3>6. \A k \in Creations : gmKeys'[k].account = chain[s] <=> gmKeys[k].account = chain[s]
        BY <2>1, <2>4, <3>3, <3>4, SaveAccountLinks
      <3>7. gmAccounts'[chain[s]] = gmAccounts[chain[s]]
        BY <1>0, <2>1, <2>4, <3>3 DEF SaveAccount, TypeOK
      <3> QED BY <2>2, <3>5, <3>6, <3>7
    <2>5. ASSUME NEW u \in Updates, UpdateAlias(u) PROVE Still
      BY <1>0, <2>1, <2>2, <2>5, RenamesKeepUsers DEF UpdateAlias
    <2>6. ASSUME NEW r \in Creations,
                 Arrive(r) \/ Submit(r) \/ OpenAccount(r) \/ RejectTx(r)
          PROVE  Still
      BY <2>2, <2>6 DEF Arrive, Submit, OpenAccount, RejectTx
    <2>7. Still BY <2>2, <2>3, <2>4, <2>5, <2>6, DataSteps
    <2> QED BY <2>1, <2>7 DEF Registered, Registry!Registered, KeysOf
  <1>3. ASSUME NEW r \in Creations, LoadRow(r) PROVE FoundSound'
    <2>1. UNCHANGED <<gmAccounts, gmKeys, chain>> BY <1>3 DEF LoadRow
    <2> QED BY <1>1, <1>3, <2>1
         DEF FoundSound, Registered, Registry!Registered, KeysOf
  <1>4. ASSUME found' = found,
               \A s \in Creations : pc'[s] = "writeAccount" => pc[s] = "writeAccount"
        PROVE  FoundSound'
    BY <1>0, <1>2, <1>4 DEF FoundSound
  <1> QED BY <1>0, <1>3, <1>4, FoundSteps

LEMMA NextBookkeeping == Bookkeeping /\ [Next]_vars => Bookkeeping'
  <1> SUFFICES ASSUME Bookkeeping, [Next]_vars PROVE Bookkeeping'
    OBVIOUS
  <1>1. TypeOK' BY NextTypeOK DEF Bookkeeping
  <1> QED
    BY <1>1, NextHandlerPhases, NextKeyBeforeAccount, NextLinkSound, NextRowHasKey,
       NextIds, NextPayerDecided, NextPayerHeld, NextGoMintNeverFunds, NextFoundSound
    DEF Bookkeeping

(* The inductive invariant.                                                *)
THEOREM BookkeepingCorrect == Spec => []Bookkeeping
  BY InitBookkeeping, NextBookkeeping, PTL DEF Spec

-----------------------------------------------------------------------------
(* What it gives, whatever the networks.                                   *)

(* Whatever fails, the key of an account on the ledger has been stored.    *)
THEOREM KeysNeverLost == Spec => []KeyBeforeAccount
  BY BookkeepingCorrect, PTL DEF Bookkeeping

(* A linked key controls the account it is linked to, and the account is   *)
(* its user's.                                                             *)
THEOREM LinksSound == Spec => []LinkSound
  BY BookkeepingCorrect, PTL DEF Bookkeeping

(* keys[0] of a registered account is never undefined.                     *)
THEOREM RowsHaveKeys == Spec => []RowHasKey
  BY BookkeepingCorrect, PTL DEF Bookkeeping

(* A user's account creations are paid by GoMint or by the user.           *)
THEOREM PayersOwn == Spec => []PayerIsOwn
  <1>1. Bookkeeping => PayerIsOwn
    BY DEF Bookkeeping, PayerDecided, PayerHeld, PayerIsOwn
  <1> QED BY <1>1, BookkeepingCorrect, PTL

(* GoMint opens empty accounts only.                                       *)
THEOREM FreeAccountsEmpty == Spec => []GoMintNeverFunds
  BY BookkeepingCorrect, PTL DEF Bookkeeping

-----------------------------------------------------------------------------
(* What holds where every user is on one network, and account ids are      *)
(* therefore unique.                                                       *)

(* Two creations are never given the same account.                         *)
LEMMA ChainInjective ==
  ASSUME OneNetwork, Bookkeeping, NEW r \in Creations, NEW s \in Creations,
         chain[r] # NoAccount, chain[r] = chain[s]
  PROVE  r = s
  <1>1. pc[r] # "new" /\ pc[s] # "new"
    BY DEF Bookkeeping, HandlerPhases, BeforeKey
  <1>2. UserOf(r) \in Users /\ UserOf(s) \in Users
    BY <1>1, Requests DEF Bookkeeping
  <1> QED BY <1>2 DEF OneNetwork, Bookkeeping, IdsUnique

(* The row a receipt leads to is not registered yet.                       *)
LEMMA SavedRowIsNew ==
  ASSUME OneNetwork, Bookkeeping, NEW r \in Creations,
         pc[r] \in {"saveAccount", "writeAccount"}
  PROVE  /\ chain[r] \in AccountIds
         /\ ~Registered(chain[r])
         /\ \A k \in Creations : gmKeys[k].account # chain[r]
  <1>1. chain[r] \in AccountIds /\ chain[r] # NoAccount /\ gmKeys[r].account = NoAccount
    BY DEF Bookkeeping, TypeOK, HandlerPhases, Stages
  <1>2. ASSUME NEW k \in Creations, gmKeys[k].account = chain[r] PROVE FALSE
    <2>1. chain[k] = chain[r] BY <1>1, <1>2 DEF Bookkeeping, LinkSound
    <2>2. k = r BY <1>1, <2>1, ChainInjective
    <2> QED BY <1>1, <1>2, <2>2
  <1>3. ~Registered(chain[r])
    BY <1>1, <1>2 DEF Bookkeeping, RowHasKey, KeysOf
  <1> QED BY <1>1, <1>2, <1>3

(* So it is inserted with the alias asked for.                             *)
LEMMA SavedRow ==
  ASSUME OneNetwork, Bookkeeping, NEW r \in Creations, SaveAccount(r)
  PROVE  /\ AliasOf(r) \in AliasStrings
         /\ gmAccounts' = [gmAccounts EXCEPT ![chain[r]] =
                             [user |-> UserOf(r), alias |-> AliasOf(r)]]
  <1>1. pc[r] = "writeAccount" BY DEF SaveAccount
  <1>2. chain[r] \in AccountIds /\ ~Registered(chain[r]) BY <1>1, SavedRowIsNew
  <1>3. found[r] = NotFound BY <1>1, <1>2 DEF Bookkeeping, FoundSound
  <1>4. creq[r].alias \in AliasStrings \cup {None}
    BY <1>1, Requests DEF Bookkeeping
  <1>5. AliasOf(r) \in AliasStrings BY <1>2, <1>4 DEF AliasOf, AliasStrings
  <1>6. found[r].alias # AliasOf(r)
    BY <1>3, <1>5, ConstantsAssumption DEF NotFound
  <1> QED BY <1>5, <1>6 DEF SaveAccount

(* An acknowledged account stays with its user and its key.                *)
LEMMA NextAcknowledged ==
  ASSUME OneNetwork, Bookkeeping, AcknowledgedAccountUsable, [Next]_vars
  PROVE  AcknowledgedAccountUsable'
  <1> USE DEF locals, tables, ledger, updates, creations
  <1>0. TypeOK /\ HandlerPhases BY DEF Bookkeeping
  <1>1. ASSUME NEW s \in Creations, pc'[s] = "created"
        PROVE  pc[s] = "created" \/ SaveAccount(s)
    <2> USE <1>0, <1>1 DEF Goto, Acknowledge
    <2>1. ASSUME NEW r \in Creations, Arrive(r) \/ Settle(r) PROVE pc[s] = "created"
      BY <2>1 DEF TypeOK, Arrive, Settle, OpenAccount, RejectTx
    <2>2. ASSUME NEW r \in Creations, CreateStep(r) PROVE pc[s] = "created" \/ SaveAccount(s)
      <3>1. CASE EscrowDenied(r)
        <4>1. DecryptUserEscrowKey(UserOf(r), creq[r].header) # "created"
          BY <3>1, Requests, EscrowOutcome DEF EscrowDenied
        <4> QED BY <3>1, <4>1 DEF TypeOK, EscrowDenied
      <3> QED
        BY <2>2, <3>1 DEF TypeOK, CreateStep, Count, AliasRejected, AliasFree, PayerMissing,
           PayerUnusable, LoadPayer, SaveKey, Submit, Receipt, LoadRow, SaveAccount,
           RowRefused, CallFails
    <2>3. ASSUME NEW u \in Updates, ArriveUpdate(u) \/ UpdateStep(u) PROVE pc' = pc
      BY <2>3 DEF ArriveUpdate, UpdateStep, GetUserAccountById, AliasTooLong, UpdateAlias,
       UpdateFails
    <2>4. CASE Crash BY <2>4 DEF TypeOK, Crash
    <2>5. CASE UNCHANGED vars BY <2>5 DEF vars
    <2> QED BY <2>1, <2>2, <2>3, <2>4, <2>5 DEF Next, Quiescent
  <1>2. SUFFICES ASSUME NEW s \in Creations, pc'[s] = "created"
                 PROVE  /\ gmAccounts'[chain'[s]].user = UserOf(s)'
                        /\ gmKeys'[s].account = chain'[s]
    BY DEF AcknowledgedAccountUsable
  <1>3. CASE SaveAccount(s)
    <2>1. pc[s] = "writeAccount" BY <1>3 DEF SaveAccount
    <2>2. chain[s] \in AccountIds /\ UserOf(s)' = UserOf(s)
      BY <1>0, <2>1, SavedRowIsNew, RequestsStay
    <2> QED BY <1>0, <1>3, <2>2, SaveAccountLinks DEF TypeOK, SaveAccount
  <1>4. CASE pc[s] = "created"
    <2>1. /\ gmAccounts[chain[s]].user = UserOf(s)
          /\ gmKeys[s].account = chain[s]
          /\ chain[s] \in AccountIds
          /\ chain'[s] = chain[s]
          /\ UserOf(s)' = UserOf(s)
      BY <1>0, <1>4, RequestsStay, KeysStay
         DEF TypeOK, HandlerPhases, AcknowledgedAccountUsable
    <2>2. ASSUME NEW r \in Creations, SaveKey(r)
          PROVE  gmKeys'[s] = gmKeys[s] /\ gmAccounts' = gmAccounts
      BY <1>0, <1>4, <2>2 DEF TypeOK, SaveKey
    <2>3. ASSUME NEW r \in Creations, SaveAccount(r)
          PROVE  gmKeys'[s].account = chain[s] /\ gmAccounts'[chain[s]] = gmAccounts[chain[s]]
      <3>1. gmKeys[s].account # chain[r] /\ s # r
        BY <1>4, <2>3, SavedRowIsNew DEF SaveAccount
      <3>2. gmKeys'[s].account = chain[s] BY <2>1, <2>3, <3>1, SaveAccountLinks
      <3>3. gmAccounts'[chain[s]] = gmAccounts[chain[s]]
        BY <1>0, <2>1, <2>3, <3>1, SavedRow DEF TypeOK
      <3> QED BY <3>2, <3>3
    <2>4. ASSUME NEW u \in Updates, UpdateAlias(u)
          PROVE  gmKeys' = gmKeys /\ gmAccounts'[chain[s]].user = gmAccounts[chain[s]].user
      BY <1>0, <2>1, <2>4, RenamesKeepUsers DEF UpdateAlias
    <2>5. ASSUME NEW r \in Creations, Arrive(r) \/ Submit(r) \/ OpenAccount(r) \/ RejectTx(r)
          PROVE  UNCHANGED <<gmKeys, gmAccounts>>
      BY <2>5 DEF Arrive, Submit, OpenAccount, RejectTx
    <2> QED BY <2>1, <2>2, <2>3, <2>4, <2>5, DataSteps
  <1> QED BY <1>1, <1>2, <1>3, <1>4

(* A caller who was given an account id can use the account from then on.  *)
THEOREM AcknowledgedUsable ==
  ASSUME OneNetwork
  PROVE  Spec => []AcknowledgedAccountUsable
  <1>1. Init => AcknowledgedAccountUsable
    BY DEF Init, AcknowledgedAccountUsable
  <1>2. Bookkeeping /\ AcknowledgedAccountUsable /\ [Next]_vars => AcknowledgedAccountUsable'
    BY NextAcknowledged
  <1> QED BY <1>1, <1>2, BookkeepingCorrect, PTL DEF Spec

(* A row changes hands never, and its alias by an update of its user only. *)
THEOREM RowsChangeByUser ==
  ASSUME OneNetwork
  PROVE  Spec => RowsChangeByTheirUser
  <1>1. ASSUME Bookkeeping, [Next]_vars, NEW a \in AccountIds,
               Registered(a), gmAccounts'[a] # gmAccounts[a]
        PROVE  \E u \in Updates :
                 /\ upc[u] = "update" /\ upc'[u] # "update"
                 /\ ureq[u].id = a
                 /\ ureq[u].user = gmAccounts[a].user
                 /\ gmAccounts'[a] = [gmAccounts[a] EXCEPT !.alias = ureq[u].alias]
    <2>0. TypeOK BY <1>1 DEF Bookkeeping
    <2>1. ASSUME NEW r \in Creations, SaveAccount(r) PROVE FALSE
      <3>1. a # chain[r]
        BY <1>1, <2>1, SavedRowIsNew DEF SaveAccount
      <3> QED BY <1>1, <2>0, <2>1, <3>1 DEF TypeOK, SaveAccount
    <2>2. PICK u \in Updates : UpdateAlias(u)
      BY <1>1, <2>1, DataSteps
         DEF Arrive, SaveKey, Submit, OpenAccount, RejectTx, tables
    <2>3. /\ upc[u] = "update"
          /\ ureq[u].id \in AccountsOf(ureq[u].user)
          /\ gmAccounts' = [gmAccounts EXCEPT ![ureq[u].id].alias = ureq[u].alias]
      BY <1>1, <2>2 DEF UpdateAlias
    <2>4. upc'[u] # "update"
      BY <2>0, <2>2 DEF TypeOK, UpdateAlias, UGoto
    <2>5. ureq[u].id = a
      BY <1>1, <2>0, <2>3 DEF TypeOK
    <2>6. ureq[u].user = gmAccounts[a].user
      BY <2>3, <2>5 DEF AccountsOf
    <2>7. gmAccounts'[a] = [gmAccounts[a] EXCEPT !.alias = ureq[u].alias]
      BY <2>0, <2>3, <2>5 DEF TypeOK
    <2> QED BY <2>3, <2>4, <2>5, <2>6, <2>7
  <1>2. Bookkeeping /\ [Next]_vars =>
          [\A a \in AccountIds :
             Registered(a) /\ gmAccounts'[a] # gmAccounts[a] =>
               \E u \in Updates :
                 /\ upc[u] = "update" /\ upc'[u] # "update"
                 /\ ureq[u].id = a
                 /\ ureq[u].user = gmAccounts[a].user
                 /\ gmAccounts'[a] = [gmAccounts[a] EXCEPT !.alias = ureq[u].alias]]_vars
    BY <1>1
  <1> QED BY <1>2, BookkeepingCorrect, PTL DEF Spec, RowsChangeByTheirUser

-----------------------------------------------------------------------------
(* createAccount implements the custody of keys.                           *)

LEMMA CustodyInit == Init => Custody!Init
  BY DEF Init, Custody!Init, NoKey

(* A step deposits, opens or registers the key of the handler that takes   *)
(* it, or changes nothing the promise speaks of.                           *)
LEMMA CustodyStep ==
  ASSUME OneNetwork, Bookkeeping, [Next]_vars
  PROVE  [Custody!Next]_(Custody!vars)
  <1> DEFINE vault == {k \in Creations : gmKeys[k].saved}
             opened == {k \in Creations : chain[k] # NoAccount}
             registered == {k \in Creations : gmKeys[k].account # NoAccount}
  <1> USE DEF locals, tables, ledger, updates, creations
  <1>0. TypeOK /\ HandlerPhases /\ KeyBeforeAccount BY DEF Bookkeeping
  <1>1. ASSUME NEW r \in Creations, SaveKey(r) PROVE Custody!Deposit(r)
    <2>1. gmKeys'[r].saved /\ gmKeys'[r].account = NoAccount /\ gmKeys[r].account = NoAccount
      BY <1>0, <1>1 DEF TypeOK, HandlerPhases, Stages, SaveKey
    <2>2. \A k \in Creations : k # r => gmKeys'[k] = gmKeys[k]
      BY <1>0, <1>1 DEF TypeOK, SaveKey
    <2>3. chain' = chain BY <1>1 DEF SaveKey
    <2> QED BY <2>1, <2>2, <2>3 DEF Custody!Deposit
  <1>2. ASSUME NEW r \in Creations, OpenAccount(r) PROVE Custody!Open(r)
    <2>1. gmKeys[r].saved
      BY <1>0, <1>2 DEF KeyBeforeAccount, OpenAccount
    <2>2. \A k \in Creations : chain'[k] # NoAccount <=> (chain[k] # NoAccount \/ k = r)
      BY <1>0, <1>2 DEF TypeOK, OpenAccount, AccountIds, NoAccount
    <2>3. gmKeys' = gmKeys BY <1>2 DEF OpenAccount
    <2> QED BY <2>1, <2>2, <2>3 DEF Custody!Open
  <1>3. ASSUME NEW r \in Creations, SaveAccount(r) PROVE Custody!Register(r)
    <2>1. /\ chain[r] # NoAccount
          /\ \A k \in Creations : gmKeys[k].account # chain[r]
      BY <1>0, <1>3, SavedRowIsNew DEF HandlerPhases, SaveAccount
    <2>2. \A k \in Creations : gmKeys'[k].saved = gmKeys[k].saved
      BY <1>0, <1>3, SaveAccountLinks
    <2>3. \A k \in Creations :
            gmKeys'[k].account = IF k = r THEN chain[r] ELSE gmKeys[k].account
      BY <1>0, <1>3, <2>1, SaveAccountLinks
    <2>4. chain' = chain BY <1>3 DEF SaveAccount
    <2> QED BY <2>1, <2>2, <2>3, <2>4 DEF Custody!Register
  <1>4. ASSUME NEW r \in Creations, Arrive(r) \/ Submit(r) \/ RejectTx(r)
        PROVE  UNCHANGED Custody!vars
    BY <1>4 DEF Arrive, Submit, RejectTx, Custody!vars
  <1>5. ASSUME NEW u \in Updates, UpdateAlias(u) PROVE UNCHANGED Custody!vars
    BY <1>5 DEF UpdateAlias, Custody!vars
  <1>6. CASE UNCHANGED <<creq, gmKeys, gmAccounts, tx, chain, nextId>>
    BY <1>6 DEF Custody!vars
  <1> QED BY <1>1, <1>2, <1>3, <1>4, <1>5, <1>6, DataSteps DEF Custody!Next

(* Faults or not, no key of an opened account is ever lost, and what is    *)
(* registered stays so.                                                    *)
THEOREM ImplementsCustody ==
  ASSUME OneNetwork
  PROVE  Spec => CustodySpec
  <1>1. Bookkeeping /\ [Next]_vars => [Custody!Next]_(Custody!vars)
    BY CustodyStep
  <1> QED BY CustodyInit, <1>1, BookkeepingCorrect, PTL DEF Spec, CustodySpec, Custody!Spec

-----------------------------------------------------------------------------
(* What an error means where nothing fails.                                *)

(* An error is answered before anything is sent, or once it is settled.    *)
ErrorsSettled ==
  \A r \in Creations :
    pc[r] \in Answers \ {"created"} =>
      /\ chain[r] = NoAccount \/ Unwritable(r)
      /\ tx[r].status # "pending"

(* A row the database has refused for good.                                *)
LEMMA StaysUnwritable ==
  ASSUME Bookkeeping, [Next]_vars, NEW s \in Creations,
         pc[s] \in Answers, pc'[s] = pc[s], chain[s] # NoAccount, Unwritable(s)
  PROVE  Unwritable(s)' /\ chain'[s] = chain[s]
  <1> USE DEF locals, tables, ledger, updates, creations
  <1>0. TypeOK /\ HandlerPhases BY DEF Bookkeeping
  <1>1. chain'[s] = chain[s] BY KeysStay
  <1>2. CASE creq[s].alias \in LongAliases
    <2>1. pc[s] # "new" BY DEF Answers
    <2>2. creq'[s] = creq[s]
      <3>1. ASSUME NEW r \in Creations, Arrive(r) PROVE creq'[s] = creq[s]
        BY <1>0, <2>1, <3>1 DEF Arrive, TypeOK
      <3>2. ASSUME NEW r \in Creations,
                   SaveKey(r) \/ Submit(r) \/ SaveAccount(r) \/ OpenAccount(r) \/ RejectTx(r)
            PROVE  creq' = creq
        BY <3>2 DEF SaveKey, Submit, SaveAccount, OpenAccount, RejectTx
      <3>3. ASSUME NEW u \in Updates, UpdateAlias(u) PROVE creq' = creq
        BY <3>3 DEF UpdateAlias
      <3> QED BY <3>1, <3>2, <3>3, DataSteps
    <2> QED BY <1>1, <1>2, <2>2 DEF Unwritable
  <1>3. ASSUME NEW t \in Creations \ {s}, gmKeys[t].account = chain[s]
        PROVE  Unwritable(s)'
    <2>1. ASSUME NEW r \in Creations, SaveKey(r) PROVE gmKeys'[t] = gmKeys[t]
      <3>1. t # r BY <1>0, <1>3, <2>1 DEF SaveKey, HandlerPhases, Stages
      <3> QED BY <1>0, <2>1, <3>1 DEF SaveKey, TypeOK
    <2>2. ASSUME NEW r \in Creations, SaveAccount(r)
          PROVE  \E k \in Creations \ {s} : gmKeys'[k].account = chain[s]
      <3>1. r # s BY <2>2 DEF SaveAccount, Answers
      <3>2. CASE chain[r] = chain[s] BY <2>2, <3>1, <3>2, SaveAccountLinks
      <3>3. CASE chain[r] # chain[s]
        <4>1. gmKeys[r].account = NoAccount
          BY <1>0, <2>2 DEF SaveAccount, HandlerPhases, Stages
        <4> QED BY <1>3, <2>2, <3>3, <4>1, SaveAccountLinks
      <3> QED BY <3>2, <3>3
    <2>3. ASSUME NEW r \in Creations,
                 Arrive(r) \/ Submit(r) \/ OpenAccount(r) \/ RejectTx(r)
          PROVE  gmKeys' = gmKeys
      BY <2>3 DEF Arrive, Submit, OpenAccount, RejectTx
    <2>4. ASSUME NEW u \in Updates, UpdateAlias(u) PROVE gmKeys' = gmKeys
      BY <2>4 DEF UpdateAlias
    <2>5. \E k \in Creations \ {s} : gmKeys'[k].account = chain[s]
      BY <1>3, <2>1, <2>2, <2>3, <2>4, DataSteps
    <2> QED BY <1>1, <2>5 DEF Unwritable
  <1> QED BY <1>1, <1>2, <1>3 DEF Unwritable

LEMMA NextErrorsSettled ==
  ASSUME ~Faults, Bookkeeping, ErrorsSettled, [Next]_vars
  PROVE  ErrorsSettled'
  <1> USE DEF locals, tables, ledger, updates, creations, Goto, Acknowledge
  <1>0. TypeOK /\ HandlerPhases BY DEF Bookkeeping
  <1> DEFINE Settled(s) ==
        pc[s] \in Answers \ {"created"} =>
          (chain[s] = NoAccount \/ Unwritable(s)) /\ tx[s].status # "pending"
  <1> SUFFICES ASSUME NEW s \in Creations PROVE Settled(s)' BY DEF ErrorsSettled
  <1>1. Settled(s) BY DEF ErrorsSettled
  <1>2. ASSUME UNCHANGED <<pc[s], chain[s], tx[s]>> PROVE Settled(s)'
    BY <1>1, <1>2, StaysUnwritable
  <1>3. ASSUME pc[s] \in BeforeKey, UNCHANGED <<chain, tx>> PROVE Settled(s)'
    BY <1>0, <1>3 DEF HandlerPhases, TypeOK
  <1>4. ASSUME NEW r \in Creations, Arrive(r) PROVE Settled(s)'
    <2>1. CASE r = s BY <1>0, <1>4, <2>1 DEF Arrive, TypeOK, Answers
    <2>2. CASE r # s BY <1>0, <1>2, <1>4, <2>2 DEF Arrive, TypeOK
    <2> QED BY <2>1, <2>2
  <1>5. ASSUME CreateStep(s) PROVE Settled(s)'
    <2> USE DEF BeforeKey
    <2>1. CASE Count(s) \/ AliasRejected(s) \/ EscrowDenied(s) \/ AliasFree(s)
      BY <1>3, <2>1 DEF Count, AliasRejected, EscrowDenied, AliasFree
    <2>2. CASE PayerMissing(s) \/ PayerUnusable(s) \/ LoadPayer(s) \/ SaveKey(s)
      BY <1>3, <2>2 DEF PayerMissing, PayerUnusable, LoadPayer, SaveKey
    <2>3. CASE Submit(s) \/ SaveAccount(s)
      <3>1. pc'[s] \in {"receipt", "created"}
        BY <1>0, <2>3 DEF Submit, SaveAccount, TypeOK
      <3> QED BY <3>1 DEF Answers
    <2>4. CASE Receipt(s)
      BY <1>0, <2>4 DEF Receipt, TypeOK, Answers
    <2>5. CASE LoadRow(s)
      BY <1>0, <2>5 DEF LoadRow, TypeOK, Answers
    <2>6. CASE RowRefused(s)
      <3>1. /\ pc[s] = "writeAccount" /\ ~Writable(s)
            /\ UNCHANGED <<creq, gmKeys, chain, tx>>
        BY <2>6 DEF RowRefused
      <3>2. chain[s] \in AccountIds /\ tx[s].status = "settled" /\ gmKeys[s].account = NoAccount
        BY <1>0, <3>1 DEF HandlerPhases, TypeOK, Stages
      <3>3. CASE creq[s].alias \in LongAliases
        BY <3>1, <3>2, <3>3 DEF Unwritable
      <3>4. CASE Registered(chain[s])
        <4>1. PICK k \in Creations : gmKeys[k].account = chain[s]
          BY <3>2, <3>4, RegisteredIsLinked
        <4>2. k # s BY <3>2, <4>1 DEF AccountIds, NoAccount
        <4> QED BY <3>1, <3>2, <4>1, <4>2 DEF Unwritable
      <3> QED BY <3>1, <3>3, <3>4 DEF Writable
    <2> QED BY <1>5, <2>1, <2>2, <2>3, <2>4, <2>5, <2>6 DEF CreateStep, CallFails
  <1>6. ASSUME NEW r \in Creations \ {s}, CreateStep(r) PROVE Settled(s)'
    <2>1. tx'[s] = tx[s] /\ chain' = chain
      BY <1>0, <1>6 DEF CreateStep, Count, AliasRejected, EscrowDenied, AliasFree, PayerMissing,
         PayerUnusable, LoadPayer, SaveKey, Submit, Receipt, LoadRow, SaveAccount, RowRefused,
         CallFails, TypeOK
    <2>2. \E stage : pc' = [pc EXCEPT ![r] = stage]
      BY <1>6 DEF CreateStep, Count, AliasRejected, EscrowDenied, AliasFree, PayerMissing,
         PayerUnusable, LoadPayer, SaveKey, Submit, Receipt, LoadRow, SaveAccount, RowRefused,
         CallFails
    <2>3. pc'[s] = pc[s] BY <1>0, <1>6, <2>2 DEF TypeOK
    <2> QED BY <1>2, <2>1, <2>3
  <1>7. ASSUME NEW r \in Creations, Settle(r) PROVE Settled(s)'
    <2>1. CASE r # s
      BY <1>0, <1>2, <1>7, <2>1 DEF Settle, OpenAccount, RejectTx, TypeOK
    <2>2. CASE r = s
      BY <1>1, <1>7, <2>2 DEF Settle, OpenAccount, RejectTx
    <2> QED BY <2>1, <2>2
  <1>8. ASSUME NEW u \in Updates, ArriveUpdate(u) \/ UpdateStep(u) PROVE Settled(s)'
    BY <1>2, <1>8 DEF ArriveUpdate, UpdateStep, GetUserAccountById, AliasTooLong, UpdateAlias,
       UpdateFails
  <1>9. CASE Quiescent \/ UNCHANGED vars BY <1>2, <1>9 DEF Quiescent, vars
  <1> QED BY <1>4, <1>5, <1>6, <1>7, <1>8, <1>9 DEF Next, Crash

(* Without faults, whoever is answered an error has not been charged for   *)
(* an account, unless the row was refused: for its alias, or because the   *)
(* account of that id on the other network is registered.                  *)
THEOREM ErrorsOpenNothing ==
  ASSUME ~Faults
  PROVE  Spec => []ErrorMeansNoAccount
  <1>1. Init => ErrorsSettled BY DEF Init, ErrorsSettled, Answers
  <1>2. Bookkeeping /\ ErrorsSettled /\ [Next]_vars => ErrorsSettled'
    BY NextErrorsSettled
  <1>3. ErrorsSettled => ErrorMeansNoAccount BY DEF ErrorsSettled, ErrorMeansNoAccount
  <1> QED BY <1>1, <1>2, <1>3, BookkeepingCorrect, PTL DEF Spec

-----------------------------------------------------------------------------
(* Which keys cannot be read back.                                         *)

EscrowRight ==
  /\ \A r \in Creations : escrow[r] = "good"
  /\ KeysReadable

LEMMA NextEscrowRight ==
  ASSUME \A body \in Bodies : body.header # "colliding",
         TypeOK, EscrowRight, [Next]_vars
  PROVE  EscrowRight'
  <1> USE DEF EscrowRight, KeysReadable, locals, tables, creations
  <1>1. ASSUME NEW r \in Creations, AliasFree(r) PROVE EscrowRight'
    <2>1. pc[r] = "alias" /\ gmKeys' = gmKeys BY <1>1 DEF AliasFree
    <2>2. /\ DecryptUserEscrowKey(UserOf(r), creq[r].header) \notin EscrowErrors
          /\ escrow' = [escrow EXCEPT ![r] =
                          DecryptUserEscrowKey(UserOf(r), creq[r].header)]
      BY <1>1 DEF AliasFree
    <2>3. creq[r].header \in Headers /\ creq[r].header # "colliding" /\ UserOf(r) \in Users
      BY <2>1, Requests
    <2>4. DecryptUserEscrowKey(UserOf(r), creq[r].header) = "good"
      BY <2>2, <2>3, EscrowOutcome
      DEF Headers, DecryptUserEscrowKey, DecryptString, EscrowErrors
    <2> QED BY <2>1, <2>2, <2>4 DEF TypeOK
  <1>2. ASSUME NEW r \in Creations, SaveKey(r) PROVE EscrowRight'
    <2>1. /\ gmKeys' = [gmKeys EXCEPT ![r] =
                          [saved |-> TRUE, escrow |-> escrow[r], account |-> NoAccount]]
          /\ escrow' = escrow
      BY <1>2 DEF SaveKey
    <2> QED BY <2>1 DEF TypeOK
  <1>3. ASSUME NEW r \in Creations, SaveAccount(r) PROVE EscrowRight'
    <2>1. escrow' = escrow BY <1>3 DEF SaveAccount
    <2>2. \A k \in Creations :
            gmKeys'[k].saved = gmKeys[k].saved /\ gmKeys'[k].escrow = gmKeys[k].escrow
      BY <1>3 DEF SaveAccount, TypeOK
    <2> QED BY <2>1, <2>2
  <1>4. ASSUME UNCHANGED <<escrow, gmKeys>> PROVE EscrowRight' BY <1>4
  <1>5. ASSUME NEW r \in Creations, CreateStep(r)
        PROVE  \/ AliasFree(r) \/ SaveKey(r) \/ SaveAccount(r)
               \/ UNCHANGED <<escrow, gmKeys>>
    BY <1>5
    DEF CreateStep, Count, AliasRejected, EscrowDenied, PayerMissing, PayerUnusable,
        LoadPayer, Submit, Receipt, LoadRow, RowRefused, CallFails
  <1>6. ASSUME NEW r \in Creations, Arrive(r) \/ Settle(r) PROVE UNCHANGED <<escrow, gmKeys>>
    BY <1>6 DEF Arrive, Settle, OpenAccount, RejectTx
  <1>7. ASSUME NEW u \in Updates, ArriveUpdate(u) \/ UpdateStep(u)
        PROVE  UNCHANGED <<escrow, gmKeys>>
    BY <1>7 DEF ArriveUpdate, UpdateStep, GetUserAccountById, AliasTooLong, UpdateAlias,
       UpdateFails
  <1>8. CASE Crash \/ UNCHANGED vars BY <1>4, <1>8 DEF Crash, vars
  <1> QED
    BY <1>1, <1>2, <1>3, <1>4, <1>5, <1>6, <1>7, <1>8 DEF Next, Quiescent

(* Only a wrong encryption key that decrypts to something by chance makes  *)
(* createAccount store a key its user cannot read back: neither faults nor *)
(* other calls do.                                                         *)
THEOREM KeysReadBack ==
  ASSUME \A body \in Bodies : body.header # "colliding"
  PROVE  Spec => []KeysReadable
  <1>1. Init => EscrowRight BY DEF Init, EscrowRight, KeysReadable, NoKey
  <1>2. TypeOK /\ EscrowRight /\ [Next]_vars => EscrowRight' BY NextEscrowRight
  <1>3. EscrowRight => KeysReadable BY DEF EscrowRight
  <1> QED BY <1>1, <1>2, <1>3, TypeCorrect, PTL DEF Spec

-----------------------------------------------------------------------------
(* createAccount and update implement the registry of accounts.            *)

LEMMA RegistryInit == Init => Registry!Init
  BY DEF Init

LEMMA RegistryStep ==
  ASSUME OneNetwork, Bookkeeping, [Next]_vars
  PROVE  [Registry!Next]_gmAccounts
  <1> USE DEF locals, tables, ledger, updates, creations
  <1>0. TypeOK BY DEF Bookkeeping
  <1>1. ASSUME NEW r \in Creations, SaveAccount(r) PROVE Registry!Next
    <2>1. pc[r] = "writeAccount" BY <1>1 DEF SaveAccount
    <2>2. chain[r] \in AccountIds /\ ~Registry!Registered(chain[r])
      BY <2>1, SavedRowIsNew DEF Registered
    <2>3. UserOf(r) \in Users BY <1>0, <2>1, Requests
    <2>4. AliasOf(r) \in AliasStrings BY <1>1, SavedRow
    <2>5. Registry!Register(chain[r], UserOf(r), AliasOf(r))
      BY <1>1, <2>2, SavedRow DEF Registry!Register
    <2> QED BY <2>2, <2>3, <2>4, <2>5 DEF Registry!Next
  <1>2. ASSUME NEW u \in Updates, UpdateAlias(u) PROVE Registry!Next \/ UNCHANGED gmAccounts
    <2>1. ureq[u].alias \in AliasStrings /\ ureq[u].user \in Users
      BY <1>0, <1>2, UpdateRequests DEF UpdateAlias
    <2>2. CASE ureq[u].id \in AccountsOf(ureq[u].user)
      <3>1. gmAccounts' = [gmAccounts EXCEPT ![ureq[u].id].alias = ureq[u].alias]
        BY <1>2, <2>2 DEF UpdateAlias
      <3>2. ureq[u].id \in AccountIds /\ Registry!Registered(ureq[u].id)
        BY <2>1, <2>2, ConstantsAssumption DEF AccountsOf, Registry!Registered
      <3>3. Registry!Rename(ureq[u].id, ureq[u].alias) BY <3>1, <3>2 DEF Registry!Rename
      <3> QED BY <2>1, <3>2, <3>3 DEF Registry!Next
    <2>3. CASE ureq[u].id \notin AccountsOf(ureq[u].user) BY <1>2, <2>3 DEF UpdateAlias
    <2> QED BY <2>2, <2>3
  <1>3. ASSUME NEW r \in Creations,
               Arrive(r) \/ SaveKey(r) \/ Submit(r) \/ OpenAccount(r) \/ RejectTx(r)
        PROVE  UNCHANGED gmAccounts
    BY <1>3 DEF Arrive, SaveKey, Submit, OpenAccount, RejectTx
  <1> QED BY <1>1, <1>2, <1>3, DataSteps

(* The handlers of deals and tokens may take for granted that an account   *)
(* is registered once, and only renamed afterwards.                        *)
THEOREM ImplementsRegistry ==
  ASSUME OneNetwork
  PROVE  Spec => RegistrySpec
  <1>1. Bookkeeping /\ [Next]_vars => [Registry!Next]_gmAccounts
    BY RegistryStep
  <1> QED BY RegistryInit, <1>1, BookkeepingCorrect, PTL DEF Spec, RegistrySpec, Registry!Spec
=============================================================================
