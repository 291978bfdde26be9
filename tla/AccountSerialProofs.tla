------------------------ MODULE AccountSerialProofs -------------------------
(***************************************************************************)
(* What the checks of createAccount and update do achieve.  Interleaved    *)
(* handlers break the promises below, and TLC shows how; here they are     *)
(* proved of a process that handles one call at a time, whatever number of *)
(* calls, users and accounts there are.                                    *)
(***************************************************************************)
EXTENDS AccountServiceProofs, FiniteSetTheorems

(* A handler is never interrupted by another one.                          *)
Serial == IsFiniteSet(InFlight) /\ \A h, i \in InFlight : h = i

(* Past the check, the alias asked for is still free.                      *)
Checked == {"payer", "saveKey", "submit", "receipt", "saveAccount", "writeAccount"}

AliasStillFree ==
  \A r \in Creations :
    pc[r] \in Checked => ~AccountAliasExists(UserOf(r), creq[r].alias)

(* Past the count, a user who owned no account still owns none.            *)
CountStillRight ==
  \A r \in Creations :
    pc[r] \in {"alias"} \cup Checked /\ ~owns[r] => AccountsOf(UserOf(r)) = {}

(* GoMint only pays for users the count found without an account.          *)
FreeIfFirst ==
  \A r \in Creations : tx[r].status # "unsent" /\ tx[r].payer = GoMint => ~owns[r]

(* What an update read of the row is what it replaces.                     *)
OldAliasStillThere ==
  \A u \in Updates : upc[u] = "update" => uold[u] = gmAccounts[ureq[u].id].alias

(* The row save() read is the row it writes.                               *)
FoundStillThere ==
  \A r \in Creations :
    pc[r] = "writeAccount" /\ found[r].user # None =>
      found[r].alias = gmAccounts[chain[r]].alias

(* An alias that reads as an account id is the account's own.              *)
IdsNameThemselves ==
  \A a \in AccountIds : gmAccounts[a].alias \in AccountIds => gmAccounts[a].alias = a

-----------------------------------------------------------------------------
(* One handler at a time.                                                  *)

LEMMA StepsAreOfHandlers ==
  /\ \A r \in Creations : CreateStep(r) => r \in InFlight
  /\ \A u \in Updates : UpdateStep(u) => u \in InFlight
  <1> USE DEF InFlight, Live, UpdateLive, Stages, UpdateStages
  <1>1. ASSUME NEW r \in Creations, CreateStep(r) PROVE r \in InFlight
    BY <1>1
    DEF CreateStep, Count, AliasRejected, EscrowDenied, AliasFree, PayerMissing,
        PayerUnusable, LoadPayer, SaveKey, Submit, Receipt, LoadRow, SaveAccount,
        RowRefused, CallFails
  <1>2. ASSUME NEW u \in Updates, UpdateStep(u) PROVE u \in InFlight
    BY <1>2 DEF UpdateStep, GetUserAccountById, AliasTooLong, UpdateAlias,
       UpdateFails
  <1> QED BY <1>1, <1>2

(* A step of a handler moves that handler only.                            *)
LEMMA StepsMoveOne ==
  /\ \A r \in Creations :
       Arrive(r) \/ CreateStep(r) =>
         (\E stage : pc' = [pc EXCEPT ![r] = stage]) /\ upc' = upc
  /\ \A u \in Updates :
       ArriveUpdate(u) \/ UpdateStep(u) =>
         (\E stage : upc' = [upc EXCEPT ![u] = stage]) /\ pc' = pc
  /\ \A r \in Creations : Settle(r) => pc' = pc /\ upc' = upc
  <1> USE DEF Goto, UGoto, Acknowledge, creations, updates
  <1>1. ASSUME NEW r \in Creations, Arrive(r) \/ CreateStep(r)
        PROVE  (\E stage : pc' = [pc EXCEPT ![r] = stage]) /\ upc' = upc
    BY <1>1
    DEF Arrive, CreateStep, Count, AliasRejected, EscrowDenied, AliasFree, PayerMissing,
        PayerUnusable, LoadPayer, SaveKey, Submit, Receipt, LoadRow, SaveAccount,
        RowRefused, CallFails
  <1>2. ASSUME NEW u \in Updates, ArriveUpdate(u) \/ UpdateStep(u)
        PROVE  (\E stage : upc' = [upc EXCEPT ![u] = stage]) /\ pc' = pc
    BY <1>2 DEF ArriveUpdate, UpdateStep, GetUserAccountById, AliasTooLong, UpdateAlias,
       UpdateFails
  <1>3. ASSUME NEW r \in Creations, Settle(r) PROVE pc' = pc /\ upc' = upc
    BY <1>3 DEF Settle, OpenAccount, RejectTx
  <1> QED BY <1>1, <1>2, <1>3

(* Only an arrival adds a handler, and only itself.                        *)
LEMMA HandlersInFlight ==
  ASSUME TypeOK, [Next]_vars
  PROVE  \/ InFlight' \subseteq InFlight
         \/ /\ Cardinality(InFlight) < Concurrency
            /\ \E h : InFlight' \subseteq InFlight \cup {h}
  <1> USE DEF InFlight, Live, UpdateLive, TypeOK
  <1>1. ASSUME NEW r \in Creations, Arrive(r)
        PROVE  /\ Cardinality(InFlight) < Concurrency
               /\ InFlight' \subseteq InFlight \cup {r}
    <2>1. Cardinality(InFlight) < Concurrency BY <1>1 DEF Arrive
    <2>2. PICK stage : pc' = [pc EXCEPT ![r] = stage] BY <1>1, StepsMoveOne
    <2>3. upc' = upc BY <1>1, StepsMoveOne
    <2> QED BY <2>1, <2>2, <2>3
  <1>2. ASSUME NEW r \in Creations, CreateStep(r) PROVE InFlight' \subseteq InFlight
    <2>1. r \in InFlight BY <1>2, StepsAreOfHandlers
    <2>2. PICK stage : pc' = [pc EXCEPT ![r] = stage] BY <1>2, StepsMoveOne
    <2>3. upc' = upc BY <1>2, StepsMoveOne
    <2> QED BY <2>1, <2>2, <2>3
  <1>3. ASSUME NEW u \in Updates, ArriveUpdate(u)
        PROVE  /\ Cardinality(InFlight) < Concurrency
               /\ InFlight' \subseteq InFlight \cup {u}
    <2>1. Cardinality(InFlight) < Concurrency BY <1>3 DEF ArriveUpdate
    <2>2. PICK stage : upc' = [upc EXCEPT ![u] = stage] BY <1>3, StepsMoveOne
    <2>3. pc' = pc BY <1>3, StepsMoveOne
    <2> QED BY <2>1, <2>2, <2>3
  <1>4. ASSUME NEW u \in Updates, UpdateStep(u) PROVE InFlight' \subseteq InFlight
    <2>1. u \in InFlight BY <1>4, StepsAreOfHandlers
    <2>2. PICK stage : upc' = [upc EXCEPT ![u] = stage] BY <1>4, StepsMoveOne
    <2>3. pc' = pc BY <1>4, StepsMoveOne
    <2> QED BY <2>1, <2>2, <2>3
  <1>5. ASSUME NEW r \in Creations, Settle(r) PROVE InFlight' \subseteq InFlight
    BY <1>5, StepsMoveOne
  <1>6. CASE Crash BY <1>6 DEF Crash, Stages, UpdateStages
  <1>7. CASE UNCHANGED vars BY <1>7 DEF vars
  <1> QED BY <1>1, <1>2, <1>3, <1>4, <1>5, <1>6, <1>7 DEF Next, Quiescent

(* The bound on the handlers in flight is a bound, and 1 means one.        *)
THEOREM HandledOneByOne ==
  ASSUME Concurrency = 1
  PROVE  Spec => []Serial
  <1>1. Init => Serial
    BY FS_EmptySet DEF Init, Serial, InFlight, Live, UpdateLive, Stages, UpdateStages
  <1>2. TypeOK /\ Serial /\ [Next]_vars => Serial'
    <2> SUFFICES ASSUME TypeOK, Serial, [Next]_vars PROVE Serial'
      OBVIOUS
    <2>1. CASE InFlight' \subseteq InFlight
      BY <2>1, FS_Subset DEF Serial
    <2>2. CASE /\ Cardinality(InFlight) < Concurrency
               /\ \E h : InFlight' \subseteq InFlight \cup {h}
      <3>1. Cardinality(InFlight) = 0
        BY <2>2, FS_CardinalityType DEF Serial
      <3>2. InFlight = {} BY <3>1, FS_EmptySet DEF Serial
      <3>3. PICK h : InFlight' \subseteq {h} BY <2>2, <3>2
      <3>4. IsFiniteSet({h}) BY FS_Singleton
      <3>5. IsFiniteSet(InFlight') BY <3>3, <3>4, FS_Subset
      <3> QED BY <3>3, <3>5 DEF Serial
    <2> QED BY <2>1, <2>2, HandlersInFlight
  <1> QED BY <1>1, <1>2, TypeCorrect, PTL DEF Spec

-----------------------------------------------------------------------------
(* Nothing happens to the tables between two steps of a handler.           *)

LEMMA AloneMeanwhile ==
  ASSUME TypeOK, Serial, [Next]_vars, NEW s \in Creations,
         pc'[s] \in {"alias"} \cup Checked
  PROVE  /\ gmAccounts' = gmAccounts
         /\ creq'[s] = creq[s]
         /\ owns'[s] = owns[s] \/ Count(s)
         /\ \/ Count(s) /\ pc'[s] = "alias"
            \/ AliasFree(s)
            \/ pc[s] \in Checked
            \/ pc[s] = "alias" /\ pc'[s] = "alias"
  <1> USE DEF TypeOK, Checked, Goto, Acknowledge, locals, tables, ledger, updates, creations
  <1> DEFINE Left ==
        /\ gmAccounts' = gmAccounts
        /\ creq'[s] = creq[s]
        /\ owns'[s] = owns[s] \/ Count(s)
        /\ \/ Count(s) /\ pc'[s] = "alias"
           \/ AliasFree(s)
           \/ pc[s] \in Checked
           \/ pc[s] = "alias" /\ pc'[s] = "alias"
  <1>1. ASSUME CreateStep(s) PROVE Left
    <2>1. CASE Count(s) BY <2>1 DEF Count
    <2>2. CASE AliasFree(s) BY <2>2 DEF AliasFree
    <2>3. CASE AliasRejected(s) BY <2>3 DEF AliasRejected
    <2>4. CASE EscrowDenied(s) BY <2>4 DEF EscrowDenied, EscrowErrors
    <2>5. CASE PayerMissing(s) \/ PayerUnusable(s) \/ LoadPayer(s)
      BY <2>5 DEF PayerMissing, PayerUnusable, LoadPayer
    <2>6. CASE SaveKey(s) \/ Submit(s) \/ Receipt(s) \/ LoadRow(s)
      BY <2>6 DEF SaveKey, Submit, Receipt, LoadRow
    <2>7. CASE SaveAccount(s) \/ RowRefused(s) \/ CallFails(s)
      BY <2>7 DEF SaveAccount, RowRefused, CallFails
    <2> QED BY <1>1, <2>1, <2>2, <2>3, <2>4, <2>5, <2>6, <2>7 DEF CreateStep
  <1>2. ASSUME pc[s] = pc'[s] PROVE s \in InFlight
    BY <1>2 DEF InFlight, Live, Stages
  <1>3. ASSUME NEW r \in Creations \ {s}, CreateStep(r) PROVE FALSE
    <2>1. pc'[s] = pc[s] BY <1>3, StepsMoveOne
    <2> QED BY <1>2, <1>3, <2>1, StepsAreOfHandlers DEF Serial
  <1>4. ASSUME NEW u \in Updates, UpdateStep(u) PROVE FALSE
    <2>1. pc'[s] = pc[s] BY <1>4, StepsMoveOne
    <2>2. u # s BY ConstantsAssumption
    <2> QED BY <1>2, <1>4, <2>1, <2>2, StepsAreOfHandlers DEF Serial
  <1>5. ASSUME NEW r \in Creations, Arrive(r) PROVE Left
    BY <1>5 DEF Arrive
  <1>6. ASSUME NEW r \in Creations, Settle(r) PROVE Left
    BY <1>6 DEF Settle, OpenAccount, RejectTx
  <1>7. ASSUME NEW u \in Updates, ArriveUpdate(u) PROVE Left
    BY <1>7 DEF ArriveUpdate
  <1>8. CASE Crash BY <1>8 DEF Crash
  <1>9. CASE UNCHANGED vars BY <1>9 DEF vars
  <1> QED
    BY <1>1, <1>3, <1>4, <1>5, <1>6, <1>7, <1>8, <1>9 DEF Next, Quiescent

LEMMA AloneBeforeUpdate ==
  ASSUME TypeOK, Serial, [Next]_vars, NEW u \in Updates, upc'[u] = "update"
  PROVE  \/ GetUserAccountById(u)
         \/ /\ upc[u] = "update"
            /\ gmAccounts' = gmAccounts /\ ureq'[u] = ureq[u] /\ uold'[u] = uold[u]
  <1> USE DEF TypeOK, UGoto, locals, tables, ledger, updates, creations
  <1> DEFINE Left ==
        /\ upc[u] = "update"
        /\ gmAccounts' = gmAccounts /\ ureq'[u] = ureq[u] /\ uold'[u] = uold[u]
  <1>1. ASSUME UpdateStep(u) PROVE GetUserAccountById(u)
    BY <1>1 DEF UpdateStep, AliasTooLong, UpdateAlias, UpdateFails
  <1>2. ASSUME upc[u] = upc'[u] PROVE u \in InFlight
    BY <1>2 DEF InFlight, UpdateLive, UpdateStages
  <1>3. ASSUME NEW v \in Updates \ {u}, UpdateStep(v) PROVE FALSE
    <2>1. upc'[u] = upc[u] BY <1>3, StepsMoveOne
    <2> QED BY <1>2, <1>3, <2>1, StepsAreOfHandlers DEF Serial
  <1>4. ASSUME NEW r \in Creations, CreateStep(r) PROVE FALSE
    <2>1. upc'[u] = upc[u] BY <1>4, StepsMoveOne
    <2>2. u # r BY ConstantsAssumption
    <2> QED BY <1>2, <1>4, <2>1, <2>2, StepsAreOfHandlers DEF Serial
  <1>5. ASSUME NEW v \in Updates, ArriveUpdate(v) PROVE Left
    BY <1>5 DEF ArriveUpdate
  <1>6. ASSUME NEW r \in Creations, Arrive(r) \/ Settle(r) PROVE Left
    BY <1>6 DEF Arrive, Settle, OpenAccount, RejectTx
  <1>7. CASE Crash BY <1>7 DEF Crash, UpdateLive, UpdateStages
  <1>8. CASE UNCHANGED vars BY <1>8 DEF vars
  <1> QED
    BY <1>1, <1>3, <1>4, <1>5, <1>6, <1>7, <1>8 DEF Next, Quiescent

LEMMA NextFoundStillThere ==
  ASSUME Bookkeeping, Serial, FoundStillThere, [Next]_vars
  PROVE  FoundStillThere'
  <1>0. TypeOK BY DEF Bookkeeping
  <1> SUFFICES ASSUME NEW s \in Creations, pc'[s] = "writeAccount", found'[s].user # None
      PROVE  found'[s].alias = gmAccounts'[chain'[s]].alias
    BY DEF FoundStillThere
  <1>1. gmAccounts' = gmAccounts BY <1>0, AloneMeanwhile DEF Checked
  <1>2. CASE LoadRow(s)
    BY <1>0, <1>1, <1>2 DEF LoadRow, NotFound, TypeOK, ledger
  <1>3. ASSUME NEW r \in Creations \ {s}, LoadRow(r)
        PROVE  found'[s] = found[s] /\ chain' = chain /\ pc[s] = "writeAccount"
    BY <1>0, <1>3 DEF LoadRow, Goto, TypeOK, ledger
  <1>4. CASE pc[s] = "writeAccount" /\ found'[s] = found[s]
    <2>1. chain'[s] = chain[s] BY <1>4, KeysStay DEF Bookkeeping, HandlerPhases
    <2> QED BY <1>1, <1>4, <2>1 DEF FoundStillThere
  <1> QED BY <1>0, <1>2, <1>3, <1>4, FoundSteps

-----------------------------------------------------------------------------
(* Aliases.                                                                *)

(* Whether save() inserts or updates, the row ends with the alias asked    *)
(* for.                                                                    *)
LEMMA SavedSerially ==
  ASSUME Bookkeeping, FoundStillThere, NEW r \in Creations, SaveAccount(r)
  PROVE  gmAccounts' = [gmAccounts EXCEPT ![chain[r]] =
                          [user |-> UserOf(r), alias |-> AliasOf(r)]]
  <1>1. /\ pc[r] = "writeAccount"
        /\ chain[r] \in AccountIds
        /\ creq[r].alias \in AliasStrings \cup {None}
    BY Requests DEF SaveAccount, Bookkeeping, HandlerPhases, TypeOK
  <1>2. AliasOf(r) # None
    BY <1>1, ConstantsAssumption DEF AliasOf, AliasStrings
  <1>3. CASE found[r].user = None
    <2>1. found[r].alias # AliasOf(r)
      BY <1>2, <1>3 DEF Bookkeeping, FoundSound, NotFound
    <2> QED BY <2>1 DEF SaveAccount
  <1>4. CASE found[r].user # None
    <2>1. found[r].alias = gmAccounts[chain[r]].alias BY <1>1, <1>4 DEF FoundStillThere
    <2> QED BY <1>1, <2>1 DEF SaveAccount
  <1> QED BY <1>3, <1>4

LEMMA NextAliasStillFree ==
  ASSUME TypeOK, Serial, AliasStillFree, [Next]_vars
  PROVE  AliasStillFree'
  <1> SUFFICES ASSUME NEW s \in Creations, pc'[s] \in Checked
      PROVE  ~AccountAliasExists(UserOf(s), creq[s].alias)'
    BY DEF AliasStillFree
  <1>1. gmAccounts' = gmAccounts /\ creq'[s] = creq[s] BY AloneMeanwhile
  <1>2. ~AccountAliasExists(UserOf(s), creq[s].alias)
    <2>1. AliasFree(s) \/ pc[s] \in Checked BY AloneMeanwhile DEF Checked
    <2> QED BY <2>1 DEF AliasFree, AliasStillFree
  <1> QED BY <1>1, <1>2 DEF AccountAliasExists, AccountsOf, UserOf

(* Where nobody renames, an alias is given to a user's account once.       *)
LEMMA NextAliasUnambiguous ==
  ASSUME Updates = {}, Bookkeeping, FoundStillThere, AliasStillFree, AliasUnambiguous,
         [Next]_vars
  PROVE  AliasUnambiguous'
  <1>0. TypeOK BY DEF Bookkeeping
  <1>1. ASSUME NEW r \in Creations, SaveAccount(r) PROVE AliasUnambiguous'
    <2> DEFINE new == [user |-> UserOf(r), alias |-> AliasOf(r)]
    <2>1. pc[r] = "writeAccount" /\ gmAccounts' = [gmAccounts EXCEPT ![chain[r]] = new]
      BY <1>1, SavedSerially DEF SaveAccount
    <2>2. chain[r] \in AccountIds
      BY <1>0, <2>1 DEF Bookkeeping, HandlerPhases, TypeOK
    <2>3. /\ gmAccounts'[chain[r]] = new
          /\ \A a \in AccountIds \ {chain[r]} : gmAccounts'[a] = gmAccounts[a]
      BY <1>0, <2>1, <2>2 DEF TypeOK
    <2>4. ~AccountAliasExists(UserOf(r), creq[r].alias)
      BY <2>1 DEF AliasStillFree, Checked
    <2>5. ASSUME NEW b \in AccountIds \ {chain[r]}, gmAccounts[b].user = UserOf(r)
          PROVE  gmAccounts[b].alias # new.alias
      BY <2>4, <2>5 DEF AccountAliasExists, AccountsOf, AliasOf
    <2> QED
      BY <2>3, <2>5 DEF AliasUnambiguous, Registered, Registry!Registered
  <1>2. ASSUME gmAccounts' = gmAccounts PROVE AliasUnambiguous'
    BY <1>2 DEF AliasUnambiguous, Registered, Registry!Registered
  <1>3. ASSUME NEW r \in Creations,
               Arrive(r) \/ SaveKey(r) \/ Submit(r) \/ OpenAccount(r) \/ RejectTx(r)
        PROVE  gmAccounts' = gmAccounts
    BY <1>3 DEF Arrive, SaveKey, Submit, OpenAccount, RejectTx, tables
  <1> QED BY <1>1, <1>2, <1>3, DataSteps

(* The check of accountAliasExists does what it is for when no other call  *)
(* interferes, if renames, which lack it, are left out: two accounts of a  *)
(* user never share an alias.                                              *)
THEOREM AliasesSerially ==
  ASSUME Concurrency = 1, Updates = {}
  PROVE  Spec => []AliasUnambiguous
  <1>1. Init => AliasStillFree BY DEF Init, AliasStillFree, Checked
  <1>2. Init => FoundStillThere /\ AliasUnambiguous
    BY DEF Init, FoundStillThere, AliasUnambiguous, Registered, Registry!Init, Registry!Registered,
           Registry!NoRow
  <1>3. Bookkeeping /\ Serial /\ AliasStillFree /\ [Next]_vars => AliasStillFree'
    BY NextAliasStillFree DEF Bookkeeping
  <1>4. Bookkeeping /\ FoundStillThere /\ AliasStillFree /\ AliasUnambiguous /\ [Next]_vars
        => AliasUnambiguous'
    BY NextAliasUnambiguous
  <1>5. Bookkeeping /\ Serial /\ FoundStillThere /\ [Next]_vars => FoundStillThere'
    BY NextFoundStillThere
  <1> QED
    BY <1>1, <1>2, <1>3, <1>4, <1>5, HandledOneByOne, BookkeepingCorrect, PTL DEF Spec

-----------------------------------------------------------------------------
(* Aliases that read as account ids.                                       *)

LEMMA NextIdsNameThemselves ==
  ASSUME Updates = {}, \A body \in Bodies : body.alias \notin AccountIds,
         Bookkeeping, FoundStillThere, IdsNameThemselves, [Next]_vars
  PROVE  IdsNameThemselves'
  <1>0. TypeOK BY DEF Bookkeeping
  <1>1. ASSUME NEW r \in Creations, SaveAccount(r) PROVE IdsNameThemselves'
    <2> DEFINE name == AliasOf(r)
    <2>1. /\ pc[r] = "writeAccount"
          /\ gmAccounts' = [gmAccounts EXCEPT ![chain[r]] =
                              [user |-> UserOf(r), alias |-> name]]
      BY <1>1, SavedSerially DEF SaveAccount
    <2>2. creq[r] \in Bodies BY <1>0, <2>1, Requests
    <2>3. name \in AccountIds => name = chain[r] BY <2>2 DEF AliasOf
    <2> HIDE DEF name
    <2>4. gmAccounts \in [AccountIds -> [user: Users \cup {None},
                                         alias: AliasStrings \cup {None}]]
      BY <1>0 DEF TypeOK
    <2>5. \A a \in AccountIds :
            gmAccounts'[a].alias = IF a = chain[r] THEN name ELSE gmAccounts[a].alias
      BY <2>1, <2>4
    <2> QED BY <2>3, <2>5 DEF IdsNameThemselves
  <1>2. ASSUME gmAccounts' = gmAccounts PROVE IdsNameThemselves'
    BY <1>2 DEF IdsNameThemselves
  <1>3. ASSUME NEW r \in Creations,
               Arrive(r) \/ SaveKey(r) \/ Submit(r) \/ OpenAccount(r) \/ RejectTx(r)
        PROVE  gmAccounts' = gmAccounts
    BY <1>3 DEF Arrive, SaveKey, Submit, OpenAccount, RejectTx, tables
  <1> QED BY <1>1, <1>2, <1>3, DataSteps

(* getUserAccountByAlias finds an account by its alias when, besides, no   *)
(* user chooses an alias that reads as an account id.                      *)
THEOREM AliasesResolveSerially ==
  ASSUME Concurrency = 1, Updates = {},
         \A body \in Bodies : body.alias \notin AccountIds
  PROVE  Spec => []AliasResolves
  <1>1. Init => FoundStillThere /\ IdsNameThemselves
    BY ConstantsAssumption
    DEF Init, FoundStillThere, IdsNameThemselves, Registry!Init, Registry!NoRow, AliasStrings
  <1>2. Bookkeeping /\ FoundStillThere /\ IdsNameThemselves /\ [Next]_vars
        => IdsNameThemselves'
    BY NextIdsNameThemselves
  <1>3. AliasUnambiguous /\ IdsNameThemselves => AliasResolves
    <2> SUFFICES ASSUME AliasUnambiguous, IdsNameThemselves,
                        NEW a \in AccountIds, Registered(a)
        PROVE  UserAccountByAlias(gmAccounts[a].user, gmAccounts[a].alias) = {a}
      BY DEF AliasResolves
    <2>1. CASE gmAccounts[a].alias \in AccountIds
      <3>1. gmAccounts[a].alias = a BY <2>1 DEF IdsNameThemselves
      <3> QED BY <3>1 DEF UserAccountByAlias
    <2>2. CASE gmAccounts[a].alias \notin AccountIds
      BY <2>2 DEF UserAccountByAlias, AccountsOf, AliasUnambiguous
    <2> QED BY <2>1, <2>2
  <1>4. Bookkeeping /\ Serial /\ FoundStillThere /\ [Next]_vars => FoundStillThere'
    BY NextFoundStillThere
  <1> QED
    BY <1>1, <1>2, <1>3, <1>4, AliasesSerially, HandledOneByOne, BookkeepingCorrect, PTL
    DEF Spec

-----------------------------------------------------------------------------
(* Renames.                                                                *)

LEMMA NextOldAliasStillThere ==
  ASSUME TypeOK, Serial, OldAliasStillThere, [Next]_vars
  PROVE  OldAliasStillThere'
  <1> SUFFICES ASSUME NEW u \in Updates, upc'[u] = "update"
      PROVE  uold'[u] = gmAccounts'[ureq'[u].id].alias
    BY DEF OldAliasStillThere
  <1>1. CASE GetUserAccountById(u)
    BY <1>1 DEF GetUserAccountById, UGoto, TypeOK, tables
  <1>2. CASE /\ upc[u] = "update"
             /\ gmAccounts' = gmAccounts /\ ureq'[u] = ureq[u] /\ uold'[u] = uold[u]
    BY <1>2 DEF OldAliasStillThere
  <1> QED BY <1>1, <1>2, AloneBeforeUpdate

(* update reads the row it answers with and the row it replaces apart;     *)
(* when no other call comes in between they are the same.                  *)
THEOREM OldAliasSerially ==
  ASSUME Concurrency = 1
  PROVE  Spec => OldAliasReturned
  <1>1. Init => OldAliasStillThere BY DEF Init, OldAliasStillThere
  <1>2. TypeOK /\ Serial /\ OldAliasStillThere /\ [Next]_vars => OldAliasStillThere'
    BY NextOldAliasStillThere
  <1>3. Spec => []OldAliasStillThere
    BY <1>1, <1>2, HandledOneByOne, TypeCorrect, PTL DEF Spec
  <1>4. OldAliasStillThere =>
          [\A u \in Updates :
             upc[u] = "update" /\ upc'[u] = "updated" =>
               uold[u] = gmAccounts[ureq[u].id].alias]_vars
    BY DEF OldAliasStillThere
  <1> QED BY <1>3, <1>4, PTL DEF OldAliasReturned

-----------------------------------------------------------------------------
(* Free accounts.                                                          *)

LEMMA NextCountStillRight ==
  ASSUME TypeOK, Serial, CountStillRight, [Next]_vars
  PROVE  CountStillRight'
  <1> SUFFICES ASSUME NEW s \in Creations,
                      pc'[s] \in {"alias"} \cup Checked, ~owns'[s]
      PROVE  AccountsOf(UserOf(s))' = {}
    BY DEF CountStillRight
  <1>1. gmAccounts' = gmAccounts /\ creq'[s] = creq[s] BY AloneMeanwhile
  <1>2. AccountsOf(UserOf(s)) = {}
    <2>1. CASE Count(s) BY <2>1 DEF Count, TypeOK
    <2>2. CASE ~Count(s)
      <3>1. owns'[s] = owns[s] BY <2>2, AloneMeanwhile
      <3>2. pc[s] \in {"alias"} \cup Checked
        BY <2>2, AloneMeanwhile DEF AliasFree
      <3> QED BY <3>1, <3>2 DEF CountStillRight
    <2> QED BY <2>1, <2>2
  <1> QED BY <1>1, <1>2 DEF AccountsOf, UserOf

LEMMA OwnsSteps ==
  ASSUME [Next]_vars
  PROVE  owns' = owns \/ \E r \in Creations : Count(r)
  <1> USE DEF locals, creations
  <1> QED
    BY DEF Next, CreateStep, UpdateStep, Settle, Quiescent, vars, Arrive, LoadPayer,
       AliasRejected, EscrowDenied, AliasFree, PayerMissing, PayerUnusable, SaveKey,
       Submit, Receipt, LoadRow, SaveAccount, RowRefused, CallFails, OpenAccount, RejectTx,
       ArriveUpdate, GetUserAccountById, AliasTooLong, UpdateAlias, UpdateFails, Crash

LEMMA NextFreeIfFirst ==
  ASSUME Bookkeeping, FreeIfFirst, [Next]_vars
  PROVE  FreeIfFirst'
  <1>0. TypeOK /\ HandlerPhases /\ PayerDecided BY DEF Bookkeeping
  <1> SUFFICES ASSUME NEW s \in Creations, tx'[s].status # "unsent", tx'[s].payer = GoMint
      PROVE  ~owns'[s]
    BY DEF FreeIfFirst
  <1>1. CASE Submit(s)
    BY <1>0, <1>1 DEF Submit, PayerDecided, TypeOK, locals
  <1>2. CASE ~Submit(s)
    <2>1. tx[s].status # "unsent" /\ tx[s].payer = GoMint
      <3>1. ASSUME NEW r \in Creations, Arrive(r) \/ SaveKey(r) \/ SaveAccount(r)
            PROVE  tx' = tx
        BY <3>1 DEF Arrive, SaveKey, SaveAccount, ledger
      <3>2. ASSUME NEW r \in Creations \ {s}, Submit(r) PROVE tx'[s] = tx[s]
        BY <1>0, <3>2 DEF Submit, TypeOK
      <3>3. ASSUME NEW r \in Creations, OpenAccount(r) \/ RejectTx(r)
            PROVE  /\ tx[s].status # "unsent" \/ tx'[s] = tx[s]
                   /\ tx'[s].payer = tx[s].payer
        <4>1. tx' = [tx EXCEPT ![r].status = "settled"] /\ tx[r].status = "pending"
          BY <3>3 DEF OpenAccount, RejectTx
        <4>2. CASE r = s BY <1>0, <4>1, <4>2 DEF TypeOK
        <4>3. CASE r # s BY <1>0, <4>1, <4>3 DEF TypeOK
        <4> QED BY <4>2, <4>3
      <3>4. ASSUME NEW u \in Updates, UpdateAlias(u) PROVE tx' = tx
        BY <3>4 DEF UpdateAlias, ledger
      <3> QED BY <1>2, <3>1, <3>2, <3>3, <3>4, DataSteps
    <2>2. ~owns[s] BY <2>1 DEF FreeIfFirst
    <2>3. ~Count(s) BY <1>0, <2>1 DEF Count, HandlerPhases, BeforeKey
    <2>4. owns'[s] = owns[s]
      <3>1. ASSUME NEW r \in Creations, Count(r) PROVE owns'[s] = owns[s]
        BY <1>0, <2>3, <3>1 DEF Count, TypeOK
      <3> QED BY <3>1, OwnsSteps
    <2> QED BY <2>2, <2>4
  <1> QED BY <1>1, <1>2

(* When an account is opened for free, no other has been for its user.     *)
LEMMA OpenedFreeOnce ==
  ASSUME OneNetwork, \A body \in Bodies : body.alias \notin LongAliases, Bookkeeping, Serial, CountStillRight, FreeIfFirst, ErrorsSettled,
         AcknowledgedAccountUsable,
         NEW r \in Creations, OpenAccount(r), tx[r].payer = GoMint,
         NEW s \in Creations, chain[s] # NoAccount, UserOf(s) = UserOf(r)
  PROVE  FALSE
  <1>0. TypeOK /\ HandlerPhases BY DEF Bookkeeping
  <1>1. tx[r].status = "pending" BY DEF OpenAccount
  <1>2. pc[r] = "receipt"
    BY <1>0, <1>1 DEF HandlerPhases, BeforeKey, ErrorsSettled, TypeOK, Stages
  <1>3. AccountsOf(UserOf(r)) = {}
    BY <1>1, <1>2 DEF FreeIfFirst, CountStillRight, Checked
  <1>4. pc[s] = "created"
    <2>1. tx[s].status = "settled" BY <1>0 DEF HandlerPhases
    <2>2. s # r BY <1>1, <2>1
    <2>3. s \notin InFlight
      BY <1>2, <2>2 DEF Serial, InFlight, Live, Stages
    <2>4. pc[s] # "new" BY <1>0, <2>1 DEF HandlerPhases, BeforeKey
    <2>5. pc[s] \in Answers BY <1>0, <2>3, <2>4 DEF TypeOK, InFlight, Live
    <2>6. ~Unwritable(s)
      <3>1. creq[s].alias \notin LongAliases BY <1>0, <2>4, Requests
      <3>2. ASSUME NEW k \in Creations \ {s}, gmKeys[k].account = chain[s] PROVE FALSE
        <4>1. chain[k] = chain[s] BY <3>2 DEF Bookkeeping, LinkSound
        <4> QED BY <3>2, <4>1, ChainInjective
      <3> QED BY <3>1, <3>2 DEF Unwritable
    <2> QED BY <2>5, <2>6 DEF ErrorsSettled
  <1>5. chain[s] \in AccountIds BY <1>0 DEF TypeOK
  <1>6. chain[s] \in AccountsOf(UserOf(r))
    BY <1>4, <1>5 DEF AcknowledgedAccountUsable, AccountsOf
  <1> QED BY <1>3, <1>6

LEMMA NextFreeAccountOnce ==
  ASSUME OneNetwork, \A body \in Bodies : body.alias \notin LongAliases, Bookkeeping, Serial, CountStillRight, FreeIfFirst, ErrorsSettled,
         AcknowledgedAccountUsable, FreeAccountOnce, [Next]_vars
  PROVE  FreeAccountOnce'
  <1>0. TypeOK /\ HandlerPhases BY DEF Bookkeeping
  <1> DEFINE Opened(s) == chain[s] # NoAccount /\ tx[s].payer = GoMint
  <1>1. ASSUME NEW s \in Creations, Opened(s)'
        PROVE  /\ pc[s] # "new"
               /\ Opened(s) \/ (OpenAccount(s) /\ tx[s].payer = GoMint)
    <2>1. ASSUME NEW r \in Creations, Arrive(r) \/ SaveKey(r) \/ SaveAccount(r)
          PROVE  tx' = tx /\ chain' = chain
      BY <2>1 DEF Arrive, SaveKey, SaveAccount, ledger
    <2>2. ASSUME NEW r \in Creations, Submit(r) PROVE Opened(s)
      <3>1. chain' = chain BY <2>2 DEF Submit
      <3>2. s # r BY <1>0, <1>1, <2>2, <3>1 DEF Submit, HandlerPhases, BeforeKey
      <3> QED BY <1>0, <1>1, <2>2, <3>1, <3>2 DEF Submit, TypeOK
    <2>3. ASSUME NEW r \in Creations, OpenAccount(r) \/ RejectTx(r)
          PROVE  Opened(s) \/ (OpenAccount(s) /\ tx[s].payer = GoMint)
      <3>1. tx' = [tx EXCEPT ![r].status = "settled"]
        BY <2>3 DEF OpenAccount, RejectTx
      <3>2. tx'[s].payer = tx[s].payer
        <4>1. CASE r = s BY <1>0, <3>1, <4>1 DEF TypeOK
        <4>2. CASE r # s BY <1>0, <3>1, <4>2 DEF TypeOK
        <4> QED BY <4>1, <4>2
      <3>3. chain'[s] = chain[s] \/ OpenAccount(s)
        <4>1. CASE RejectTx(r) BY <4>1 DEF RejectTx
        <4>2. ASSUME OpenAccount(r), r # s PROVE chain'[s] = chain[s]
          BY <1>0, <4>2 DEF OpenAccount, TypeOK
        <4> QED BY <2>3, <4>1, <4>2
      <3> QED BY <1>1, <3>2, <3>3
    <2>4. ASSUME NEW u \in Updates, UpdateAlias(u) PROVE tx' = tx /\ chain' = chain
      BY <2>4 DEF UpdateAlias, ledger
    <2>5. Opened(s) \/ (OpenAccount(s) /\ tx[s].payer = GoMint)
      BY <1>1, <2>1, <2>2, <2>3, <2>4, DataSteps
    <2>6. tx[s].status # "unsent"
      BY <1>0, <2>5 DEF HandlerPhases, OpenAccount
    <2> QED BY <1>0, <2>5, <2>6 DEF HandlerPhases, BeforeKey
  <1> SUFFICES ASSUME NEW r \in Creations, NEW s \in Creations,
                      Opened(r)', Opened(s)', UserOf(r)' = UserOf(s)'
      PROVE  r = s
    BY DEF FreeAccountOnce
  <1>2. UserOf(r) = UserOf(s) BY <1>0, <1>1, RequestsStay
  <1>3. CASE Opened(r) /\ Opened(s) BY <1>2, <1>3 DEF FreeAccountOnce
  <1>4. CASE OpenAccount(r) /\ tx[r].payer = GoMint
    <2>1. ASSUME r # s PROVE chain[s] # NoAccount
      BY <1>0, <1>4, <2>1 DEF OpenAccount, TypeOK
    <2> QED BY <1>2, <1>4, <2>1, OpenedFreeOnce
  <1>5. CASE OpenAccount(s) /\ tx[s].payer = GoMint
    <2>1. ASSUME r # s PROVE chain[r] # NoAccount
      BY <1>0, <1>5, <2>1 DEF OpenAccount, TypeOK
    <2> QED BY <1>2, <1>5, <2>1, OpenedFreeOnce
  <1> QED BY <1>1, <1>3, <1>4, <1>5

(* Counting before opening does limit GoMint's generosity, if no other     *)
(* call interferes, none is interrupted, and no alias is longer than its   *)
(* column: a second account is never free.                                 *)
THEOREM FreeOnceSerially ==
  ASSUME OneNetwork, ~Faults, Concurrency = 1,
         \A body \in Bodies : body.alias \notin LongAliases
  PROVE  Spec => []FreeAccountOnce
  <1>1. Init => CountStillRight /\ FreeIfFirst /\ FreeAccountOnce /\ ErrorsSettled
    BY DEF Init, CountStillRight, Checked, FreeIfFirst, FreeAccountOnce, ErrorsSettled,
           Answers, NoTx
  <1>2. Bookkeeping /\ Serial /\ CountStillRight /\ [Next]_vars => CountStillRight'
    BY NextCountStillRight DEF Bookkeeping
  <1>3. Bookkeeping /\ FreeIfFirst /\ [Next]_vars => FreeIfFirst' BY NextFreeIfFirst
  <1>4. Bookkeeping /\ ErrorsSettled /\ [Next]_vars => ErrorsSettled'
    BY NextErrorsSettled
  <1>5. /\ Bookkeeping /\ Serial /\ CountStillRight /\ FreeIfFirst /\ ErrorsSettled
        /\ AcknowledgedAccountUsable /\ FreeAccountOnce /\ [Next]_vars
        => FreeAccountOnce'
    BY NextFreeAccountOnce
  <1> QED
    BY <1>1, <1>2, <1>3, <1>4, <1>5, HandledOneByOne, BookkeepingCorrect,
       AcknowledgedUsable, PTL
    DEF Spec
=============================================================================
