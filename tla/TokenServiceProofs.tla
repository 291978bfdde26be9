-------------------------- MODULE TokenServiceProofs --------------------------
(***************************************************************************)
(* What holds of TokenService for every number of users, accounts, tokens  *)
(* and calls, and for custom fees of every number.                         *)
(***************************************************************************)
EXTENDS TokenService, SequenceTheorems, TLAPS

-----------------------------------------------------------------------------
(* The stages a handler may go on to.                                      *)

Ends == {"unavailable", "DecryptionFailedError"}

LEMMA AfterFeesFacts ==
  ASSUME NEW body
  PROVE  /\ AfterInit(body) \in {"upload", "submit", "unavailable"}
         /\ AfterFees(body) \in {"import", "upload", "submit", "unavailable"}
         /\ AfterFees(body) = "upload" => client # None
  BY DEF AfterFees, WithClient, AfterInit, Assembled

(* A handler gets past buildClientAndSigningKeys with the keys only.       *)
LEMMA BuildFacts ==
  ASSUME NEW c \in Calls, NEW accounts, Build(c, accounts)
  PROVE  \E s \in {"fees", "import", "upload", "submit"} \cup Ends :
           /\ Goto(c, s)
           /\ s = "upload" => client # None
           /\ s \notin Ends => \A a \in accounts : CanSignFor(c, a)
           /\ s \notin Ends \cup {"fees"} =>
                AliasFees(req[c].fees) = {}
  <1>1. CASE \A a \in accounts : CanSignFor(c, a)
    <2>1. Goto(c, AfterBuild(req[c])) BY <1>1 DEF Build
    <2>2. /\ AfterBuild(req[c]) \in {"fees", "import", "upload", "submit", "unavailable"}
          /\ AfterBuild(req[c]) = "upload" => client # None
          /\ AfterBuild(req[c]) # "fees" =>
               AliasFees(req[c].fees) = {}
      BY AfterFeesFacts DEF AfterBuild
    <2> QED BY <1>1, <2>1, <2>2 DEF Ends
  <1>2. CASE ~ \A a \in accounts : CanSignFor(c, a)
    <2>1. Goto(c, "DecryptionFailedError") \/ Goto(c, "unavailable")
      BY <1>2 DEF Build
    <2> QED BY <2>1 DEF Ends
  <1> QED BY <1>1, <1>2

LEMMA BodyTypes ==
  ASSUME NEW body \in Bodies
  PROVE  /\ body.user \in Users
         /\ body.op \in Ops
         /\ body.fees \in Seq(Refs)
         /\ AliasFees(body.fees) \subseteq DOMAIN body.fees
         /\ AliasFees(body.fees) \subseteq Nat
         /\ body.op \notin Creates => AliasFees(body.fees) = {}
  <1>1. body \in Body BY ConstantsAssumption
  <1>2. body.user \in Users /\ body.op \in Ops /\ body.fees \in Seq(Refs)
    BY <1>1 DEF Body
  <1>3. DOMAIN body.fees = 1 .. Len(body.fees) /\ Len(body.fees) \in Nat
    BY <1>2
  <1>4. body.op \notin Creates => DOMAIN body.fees = {}
    <2>1. body.op \notin Creates => body.fees = <<>> BY ConstantsAssumption
    <2> QED BY <2>1
  <1> QED BY <1>2, <1>3, <1>4 DEF AliasFees

LEMMA EscrowKeyTypes ==
  ASSUME NEW body \in Bodies
  PROVE  /\ EscrowKey(body) \in {"good", "garbage"} \cup EscrowErrors
         /\ EscrowKey(body) \in EscrowErrors =>
              EscrowKey(body) \in {"DecryptionFailedError", "EncryptionKeyNotProvidedError"}
  <1>1. body.user \in Users /\ body.header \in Headers
    BY ConstantsAssumption DEF Body
  <1>2. hasEncryptionKey[body.user] \in BOOLEAN BY <1>1, ConstantsAssumption
  <1>3. DecryptString(body.header) \in {"good", "garbage"} \cup EscrowErrors
    BY <1>1 DEF DecryptString, Headers, EscrowErrors
  <1> QED BY <1>2, <1>3 DEF EscrowKey, DecryptUserEscrowKey, EscrowErrors

LEMMA NoneFacts ==
  /\ None \notin Users /\ None \notin Accounts /\ None \notin Bodies
  /\ None \notin TokenIds
  /\ Accounts \cap Aliases = {}
  BY ConstantsAssumption DEF Refs

-----------------------------------------------------------------------------
(* Type correctness.                                                       *)

LEMMA InitTypeOK == Init => TypeOK
  <1> SUFFICES ASSUME Init PROVE TypeOK OBVIOUS
  <1>1. holder \in [TokenIds -> Accounts \cup {None}]
    BY ConstantsAssumption DEF Init
  <1>2. gmAccounts \in [Accounts -> [user: Users \cup {None}, alias: Aliases \cup {None}]]
    BY DEF Init, Registry!Init, Registry!NoRow
  <1>3. tx \in [Calls -> [status: {"unsent", "pending", "accepted", "rejected"},
                          account: Accounts \cup {None}, payer: Accounts \cup {None},
                          signers: SUBSET Accounts, collectors: Seq(Refs),
                          supplyKey: Accounts \cup {None}]]
    <2>1. <<>> \in Seq(Refs) BY EmptySeq
    <2> QED BY <2>1 DEF Init, NoTx
  <1>4. collectors \in [Calls -> Seq(Refs)]
    <2>1. <<>> \in Seq(Refs) BY EmptySeq
    <2> QED BY <2>1 DEF Init
  <1> QED BY <1>1, <1>2, <1>3, <1>4 DEF Init, TypeOK

LEMMA CollectorTypes ==
  ASSUME TypeOK, NEW c \in Calls, NEW i \in DOMAIN collectors[c], NEW a \in Accounts
  PROVE  /\ [collectors EXCEPT ![c][i] = a] \in [Calls -> Seq(Refs)]
         /\ DOMAIN [collectors EXCEPT ![c][i] = a][c] = DOMAIN collectors[c]
         /\ \A j \in DOMAIN collectors[c] :
              [collectors EXCEPT ![c][i] = a][c][j] = IF j = i THEN a ELSE collectors[c][j]
         /\ \A d \in Calls \ {c} : [collectors EXCEPT ![c][i] = a][d] = collectors[d]
  <1> DEFINE s == [collectors[c] EXCEPT ![i] = a]
  <1>1. collectors[c] \in Seq(Refs) /\ collectors \in [Calls -> Seq(Refs)] BY DEF TypeOK
  <1>2. a \in Refs BY DEF Refs
  <1>3. i \in 1 .. Len(collectors[c]) BY <1>1
  <1>4. /\ s \in Seq(Refs)
        /\ DOMAIN s = DOMAIN collectors[c]
        /\ \A j \in DOMAIN collectors[c] : s[j] = IF j = i THEN a ELSE collectors[c][j]
    BY <1>1, <1>2, <1>3, ExceptSeq
  <1>5. [collectors EXCEPT ![c][i] = a] = [collectors EXCEPT ![c] = s] OBVIOUS
  <1> HIDE DEF s
  <1> QED BY <1>1, <1>4, <1>5

LEMMA FindTypes ==
  ASSUME TypeOK, NEW c \in Calls, pc[c] # "new", NEW ref
  PROVE  /\ req[c] \in Bodies /\ req[c].user \in Users
         /\ UserAccountIdByAlias(req[c].user, ref) \subseteq AccountsOf(req[c].user)
         /\ UserAccountByAlias(req[c].user, ref) \subseteq Accounts
         /\ AccountsOf(req[c].user) \subseteq Accounts
  <1>1. req[c] \in Bodies BY DEF TypeOK
  <1> QED BY <1>1, BodyTypes DEF UserAccountIdByAlias, UserAccountByAlias, AccountsOf

(* The actions that change nothing but the stage of a handler.             *)
Moves(c) ==
  \/ MirrorKnows(c) \/ MirrorLacks(c) \/ AccountMissing(c) \/ FeeAliasUnknown(c)
  \/ CreateClient(c) \/ UploadMetadata(c) \/ MaxSupplyUndefined(c) \/ Receipt(c) \/ CallFails(c)

LEMMA MovesFacts ==
  ASSUME NEW c \in Calls, Moves(c)
  PROVE  /\ UNCHANGED <<gmAccounts, req, locals, ipfs, tx, tokens>>
         /\ \E s \in {"supply", "unavailable", "AccountNotFoundError", "addSpace",
                      "submit", "SUCCESS"} :
              /\ pc' = [pc EXCEPT ![c] = s]
              /\ s = "supply" => pc[c] = "mirror"
              /\ s = "addSpace" => pc[c] = "import"
              /\ s = "submit" => pc[c] = "upload"
  <1>1. CASE MirrorKnows(c) BY <1>1 DEF MirrorKnows, Goto
  <1>2. CASE MirrorLacks(c) BY <1>2 DEF MirrorLacks, Goto
  <1>3. CASE AccountMissing(c) BY <1>3 DEF AccountMissing, Goto
  <1>4. CASE FeeAliasUnknown(c) BY <1>4 DEF FeeAliasUnknown, Goto
  <1>5. CASE CreateClient(c) BY <1>5 DEF CreateClient, Goto
  <1>6. CASE UploadMetadata(c) BY <1>6 DEF UploadMetadata, Assembled, Goto
  <1>7. CASE Receipt(c) BY <1>7 DEF Receipt, Goto
  <1>8. CASE CallFails(c) BY <1>8 DEF CallFails, Goto
  <1>9. CASE MaxSupplyUndefined(c) BY <1>9 DEF MaxSupplyUndefined, Goto
  <1> QED BY <1>1, <1>2, <1>3, <1>4, <1>5, <1>6, <1>7, <1>8, <1>9 DEF Moves

(* A transaction that was sent belongs to a call that was made.            *)
LEMMA SentIsKnown ==
  ASSUME TypeOK, HandlersSound, NEW c \in Calls, tx[c].status # "unsent"
  PROVE  pc[c] # "new" /\ req[c] \in Bodies
  BY DEF TypeOK, HandlersSound, BeforeSubmit, BeforeClient, BeforeBuild

LEMMA ParameterTypes ==
  ASSUME NEW body \in Bodies
  PROVE  /\ TokenParameters(body).initial \in Nat
         /\ TokenParameters(body).max \in Nat \cup {None}
         /\ TokenParameters(body).finite \in BOOLEAN
         /\ Quantity(body) \in Nat
         /\ body.op \in Mints => body.token \in TokenIds
  <1>1. body \in Body BY ConstantsAssumption
  <1>2. /\ body.initialSupply \in Nat \cup {None} /\ body.maxSupply \in Nat \cup {None}
        /\ body.finite \in BOOLEAN /\ body.amount \in Nat /\ body.metadatas \in Seq(Contents)
    BY <1>1 DEF Body
  <1>3. OrZero(body.initialSupply) \in Nat BY <1>2 DEF OrZero
  <1>4. Quantity(body) \in Nat BY <1>2 DEF Quantity
  <1>5. body.op \in Mints => body.token \in TokenIds BY ConstantsAssumption
  <1> QED BY <1>2, <1>3, <1>4, <1>5 DEF TokenParameters, Given

(* A transaction keeps its shape when the network decides it.              *)
LEMMA StatusWritten ==
  ASSUME TypeOK, NEW c \in Calls, NEW s \in {"accepted", "rejected"}
  PROVE  [tx EXCEPT ![c].status = s] \in [Calls -> [status: {"unsent", "pending", "accepted", "rejected"},
                             account: Accounts \cup {None}, payer: Accounts \cup {None},
                             signers: SUBSET Accounts, collectors: Seq(Refs),
                             supplyKey: Accounts \cup {None}]]
  <1> DEFINE T == [status: {"unsent", "pending", "accepted", "rejected"},
                account: Accounts \cup {None}, payer: Accounts \cup {None},
                signers: SUBSET Accounts, collectors: Seq(Refs),
                supplyKey: Accounts \cup {None}]
  <1>1. tx \in [Calls -> T] BY DEF TypeOK
  <1>2. tx[c] \in T BY <1>1
  <1>3. [tx[c] EXCEPT !.status = s] \in T BY <1>2
  <1>4. [tx EXCEPT ![c].status = s] = [tx EXCEPT ![c] = [tx[c] EXCEPT !.status = s]]
    OBVIOUS
  <1> HIDE DEF T
  <1>5. [tx EXCEPT ![c] = [tx[c] EXCEPT !.status = s]] \in [Calls -> T] BY <1>1, <1>3
  <1> QED BY <1>4, <1>5 DEF T

LEMMA NextTypeOK ==
  ASSUME TypeOK, HandlersSound, FeesSound, [Next]_vars
  PROVE  TypeOK'
  <1>0. CASE UNCHANGED vars
    BY <1>0 DEF vars, locals, ipfs, tokens, TypeOK
  <1>1. CASE RegisterAccount
    <2>1. gmAccounts' \in [Accounts -> [user: Users \cup {None}, alias: Aliases \cup {None}]]
      BY <1>1, ConstantsAssumption DEF RegisterAccount, Registry!Register, TypeOK
    <2> QED BY <1>1, <2>1 DEF RegisterAccount, TypeOK, locals, ipfs, tokens
  <1>2. CASE RenameAccount
    <2>1. PICK rename \in Renames :
            gmAccounts' = [gmAccounts EXCEPT ![rename.id].alias = rename.alias]
      BY <1>2 DEF RenameAccount, Registry!Rename
    <2>2. rename.alias \in Aliases BY ConstantsAssumption
    <2>3. gmAccounts' \in [Accounts -> [user: Users \cup {None}, alias: Aliases \cup {None}]]
      BY <2>1, <2>2 DEF TypeOK
    <2> QED BY <1>2, <2>3 DEF RenameAccount, TypeOK, locals, ipfs, tokens
  <1>3. ASSUME NEW c \in Calls, Arrive(c) PROVE TypeOK'
    <2>1. PICK body \in Bodies :
            /\ req' = [req EXCEPT ![c] = body]
            /\ collectors' = [collectors EXCEPT ![c] = body.fees]
            /\ lookups' = [lookups EXCEPT ![c] = AliasFees(body.fees)]
            /\ Goto(c, IF Refused(body) THEN "BadRequest"
                       ELSE IF EscrowKey(body) \in EscrowErrors
                       THEN EscrowKey(body)
                       ELSE IF body.op \in Mints THEN "mirror" ELSE "account")
      BY <1>3 DEF Arrive
    <2>3. PICK s \in Stages \cup Answers : pc' = [pc EXCEPT ![c] = s]
      BY <2>1, EscrowKeyTypes DEF Goto, Stages, Answers
    <2>4. pc' \in [Calls -> {"new"} \cup Stages \cup Answers] BY <2>3 DEF TypeOK
    <2>5. req' \in [Calls -> Bodies \cup {None}]
          /\ \A d \in Calls : pc'[d] # "new" => req'[d] \in Bodies
      BY <2>1, <2>3 DEF TypeOK
    <2>6. collectors' \in [Calls -> Seq(Refs)] BY <2>1, BodyTypes DEF TypeOK
    <2>7. lookups' \in [Calls -> SUBSET Nat] BY <2>1, BodyTypes DEF TypeOK
    <2> QED BY <1>3, <2>4, <2>5, <2>6, <2>7 DEF Arrive, TypeOK, ipfs, tokens
  <1>4. ASSUME NEW c \in Calls, Moves(c) PROVE TypeOK'
    <2>1. pc[c] # "new"
      BY <1>4 DEF Moves, MirrorKnows, MirrorLacks, AccountMissing, FeeAliasUnknown,
         CreateClient, UploadMetadata, MaxSupplyUndefined,
         Receipt, CallFails, Live, Stages
    <2>2. UNCHANGED <<gmAccounts, req, action, payer, collectors, lookups, client, space,
                      tx, holder, supply, cap>>
      BY <1>4, MovesFacts DEF locals, ipfs, tokens
    <2>3. PICK s \in Stages \cup Answers : pc' = [pc EXCEPT ![c] = s]
      BY <1>4, MovesFacts DEF Stages, Answers
    <2>4. pc' \in [Calls -> {"new"} \cup Stages \cup Answers] BY <2>3 DEF TypeOK
    <2>5. \A d \in Calls : pc'[d] # "new" => req'[d] \in Bodies BY <2>1, <2>2, <2>3 DEF TypeOK
    <2> QED BY <2>2, <2>4, <2>5 DEF TypeOK
  <1>5. ASSUME NEW c \in Calls, NEW accounts, Build(c, accounts), pc[c] # "new",
               UNCHANGED req
        PROVE  /\ pc' \in [Calls -> {"new"} \cup Stages \cup Answers]
               /\ \A d \in Calls : pc'[d] # "new" => req'[d] \in Bodies
    <2>1. PICK s \in Stages \cup Answers : Goto(c, s)
      BY <1>5, BuildFacts DEF Ends, Stages, Answers
    <2> QED BY <1>5, <2>1 DEF TypeOK, Goto
  <1>6. ASSUME NEW c \in Calls, NEW a \in Accounts, Proceed(c, a), pc[c] # "new",
               UNCHANGED <<gmAccounts, req, payer, collectors, lookups, ipfs, tx, tokens>>
        PROVE  TypeOK'
    <2>1. action' \in [Calls -> Accounts \cup {None}] BY <1>6 DEF Proceed, TypeOK
    <2>2. CASE req[c].payerId # None
      BY <1>6, <2>1, <2>2 DEF Proceed, Goto, TypeOK, ipfs, tokens, Stages
    <2>3. CASE req[c].payerId = None
      BY <1>5, <1>6, <2>1, <2>3 DEF Proceed, TypeOK, ipfs, tokens
    <2> QED BY <2>2, <2>3
  <1>7. ASSUME NEW c \in Calls, FindSupplyAccount(c) PROVE TypeOK'
    <2>1. CASE holder[req[c].token] \in AccountsOf(req[c].user)
      BY <1>6, <1>7, <2>1 DEF FindSupplyAccount, AccountsOf
    <2>2. CASE holder[req[c].token] \notin AccountsOf(req[c].user)
      BY <1>7, <2>2 DEF FindSupplyAccount, Goto, TypeOK, ipfs, tokens, Answers
    <2> QED BY <2>1, <2>2
  <1>8. ASSUME NEW c \in Calls, FindAccount(c) PROVE TypeOK'
    BY <1>6, <1>8, FindTypes DEF FindAccount
  <1>9. ASSUME NEW c \in Calls, FindPayer(c) PROVE TypeOK'
    <2>1. pc[c] # "new" BY <1>9 DEF FindPayer
    <2>2. PICK a \in Accounts : payer' = [payer EXCEPT ![c] = a] /\ Build(c, {action[c], a})
      BY <1>9, <2>1, FindTypes DEF FindPayer
    <2>3. payer' \in [Calls -> Accounts \cup {None}] BY <2>2 DEF TypeOK
    <2> QED BY <1>5, <1>9, <2>1, <2>2, <2>3 DEF FindPayer, TypeOK, ipfs, tokens
  <1>10. ASSUME NEW c \in Calls, FeeAliasFound(c) PROVE TypeOK'
    <2>1. pc[c] # "new" /\ UNCHANGED <<gmAccounts, req, action, payer, ipfs, tx, tokens>>
      BY <1>10 DEF FeeAliasFound
    <2>2. PICK i \in lookups[c], a \in Accounts :
            /\ collectors' = [collectors EXCEPT ![c][i] = a]
            /\ lookups' = [lookups EXCEPT ![c] = @ \ {i}]
            /\ Goto(c, IF lookups[c] = {i} THEN AfterFees(req[c]) ELSE "fees")
      BY <1>10, <2>1, FindTypes DEF FeeAliasFound
    <2>3. i \in DOMAIN collectors[c]
      BY <2>1, <2>2, FindTypes, BodyTypes DEF FeesSound
    <2>4. collectors' \in [Calls -> Seq(Refs)] BY <2>2, <2>3, CollectorTypes
    <2>5. lookups' \in [Calls -> SUBSET Nat] BY <2>2 DEF TypeOK
    <2>6. PICK s \in Stages \cup Answers : pc' = [pc EXCEPT ![c] = s]
      BY <2>2, AfterFeesFacts DEF Goto, Stages, Answers
    <2> QED BY <2>1, <2>4, <2>5, <2>6 DEF TypeOK, ipfs, tokens
  <1>11. ASSUME NEW c \in Calls, AddSpace(c) PROVE TypeOK'
    BY <1>11 DEF AddSpace, TypeOK, Goto, locals, tokens, Stages
  <1>12. ASSUME NEW c \in Calls, SetCurrentSpace(c) PROVE TypeOK'
    <2>1. AfterInit(req[c]) \in Stages \cup Answers
      BY AfterFeesFacts DEF Stages, Answers
    <2> QED BY <1>12, <2>1 DEF SetCurrentSpace, TypeOK, Goto, locals, tokens
  <1>13. ASSUME NEW c \in Calls, Submit(c) PROVE TypeOK'
    <2>1. action[c] \in Accounts /\ Operator(c) \in Accounts /\ pc[c] = "submit"
      BY <1>13 DEF Submit, HandlersSound, BeforeSubmit, BeforeClient, BeforeBuild, AccountsOf
    <2>2. tx' \in [Calls -> [status: {"unsent", "pending", "accepted", "rejected"},
                             account: Accounts \cup {None}, payer: Accounts \cup {None},
                             signers: SUBSET Accounts, collectors: Seq(Refs),
                             supplyKey: Accounts \cup {None}]]
      <3>1. SupplyKey(c) \in Accounts \cup {None} BY <2>1 DEF SupplyKey
      <3> QED BY <1>13, <2>1, <3>1 DEF Submit, Signers, TypeOK
    <2>3. PICK s \in Stages \cup Answers : pc' = [pc EXCEPT ![c] = s]
      BY <1>13 DEF Submit, Acknowledge, Goto, Stages, Answers
    <2> QED BY <1>13, <2>1, <2>2, <2>3 DEF Submit, TypeOK, locals, ipfs, tokens
  <1>14. ASSUME NEW c \in Calls, Accept(c) PROVE TypeOK'
    <2>1. tx' = [tx EXCEPT ![c].status = "accepted"] BY <1>14 DEF Accept
    <2>2. /\ holder' \in [TokenIds -> Accounts \cup {None}]
          /\ supply' \in [TokenIds -> Nat]
          /\ cap' \in [TokenIds -> Nat \cup {None}]
      <3>0. req[c] \in Bodies \/ ~(CreateToken(c) \/ MintToken(c))
        BY NoneFacts, <1>14, SentIsKnown DEF Accept
      <3>1. CASE CreateToken(c)
        <4>1. /\ TokenParameters(req[c]).initial \in Nat
              /\ TokenParameters(req[c]).max \in Nat \cup {None}
          BY <3>0, <3>1, ParameterTypes
        <4>2. tx[c].supplyKey \in Accounts \cup {None} BY DEF TypeOK
        <4> QED BY <3>1, <4>1, <4>2 DEF CreateToken, TypeOK
      <3>2. CASE MintToken(c)
        <4>1. Quantity(req[c]) \in Nat /\ req[c].token \in TokenIds
          BY <3>0, <3>2, ParameterTypes DEF MintToken
        <4>2. supply' = [supply EXCEPT ![req[c].token] =
                           supply[req[c].token] + Quantity(req[c])]
          BY <3>2 DEF MintToken
        <4>3. supply' \in [TokenIds -> Nat] BY <4>1, <4>2 DEF TypeOK
        <4> QED BY <3>2, <4>3 DEF MintToken, TypeOK
      <3>3. CASE AssociateToken(c)
        <4>1. holder' = holder /\ supply' = supply /\ cap' = cap
          BY <3>3 DEF AssociateToken, tokens
        <4> QED BY <4>1 DEF TypeOK
      <3> QED BY <1>14, <3>1, <3>2, <3>3 DEF Accept
    <2>3. tx' \in [Calls -> [status: {"unsent", "pending", "accepted", "rejected"},
                             account: Accounts \cup {None}, payer: Accounts \cup {None},
                             signers: SUBSET Accounts, collectors: Seq(Refs),
                             supplyKey: Accounts \cup {None}]]
      BY <2>1, StatusWritten
    <2>4. UNCHANGED <<gmAccounts, req, pc, action, payer, collectors, lookups, client, space>>
      BY <1>14 DEF Accept, locals, ipfs
    <2> QED BY <2>2, <2>3, <2>4 DEF TypeOK
  <1>15. ASSUME NEW c \in Calls, Reject(c) PROVE TypeOK'
    <2>1. tx' = [tx EXCEPT ![c].status = "rejected"] BY <1>15 DEF Reject
    <2>2. tx' \in [Calls -> [status: {"unsent", "pending", "accepted", "rejected"},
                             account: Accounts \cup {None}, payer: Accounts \cup {None},
                             signers: SUBSET Accounts, collectors: Seq(Refs),
                             supplyKey: Accounts \cup {None}]]
      BY <2>1, StatusWritten
    <2>3. UNCHANGED <<gmAccounts, req, pc, locals, ipfs, tokens>> BY <1>15 DEF Reject
    <2> QED BY <2>2, <2>3 DEF TypeOK, locals, ipfs, tokens
  <1>16. CASE Crash
    <2>1. /\ pc' = [c \in Calls |-> IF pc[c] \in Stages THEN "crashed" ELSE pc[c]]
          /\ client' = None
          /\ UNCHANGED <<gmAccounts, req, action, payer, collectors, lookups, space, tx, tokens>>
      BY <1>16 DEF Crash, Live, locals
    <2>2. pc' \in [Calls -> {"new"} \cup Stages \cup Answers] BY <2>1 DEF TypeOK, Answers
    <2>3. \A c \in Calls : pc'[c] # "new" => pc[c] # "new" BY <2>1 DEF Stages
    <2> QED BY <2>1, <2>2, <2>3 DEF TypeOK, tokens
  <1>17. CASE Quiescent
    BY <1>0, <1>17 DEF Quiescent
  <1> QED
    BY <1>0, <1>1, <1>2, <1>3, <1>4, <1>7, <1>8, <1>9, <1>10, <1>11, <1>12, <1>13,
       <1>14, <1>15, <1>16, <1>17 DEF Next, Step, Settle, Moves

-----------------------------------------------------------------------------
(* What a step of the system is to one account, one handler and one        *)
(* transaction.                                                            *)

(* An account stays with the user it was registered for.                   *)
LEMMA OwnersKept ==
  ASSUME TypeOK, [Next]_vars
  PROVE  \A u \in Users : AccountsOf(u) \subseteq AccountsOf(u)'
  <1>1. CASE RegisterAccount
    <2>1. PICK row \in Rows :
            /\ ~Registered(row.id)
            /\ gmAccounts' = [gmAccounts EXCEPT ![row.id] =
                 [user |-> row.user, alias |-> row.alias]]
      BY <1>1 DEF RegisterAccount, Registry!Register, Registered
    <2> QED BY <2>1, NoneFacts DEF AccountsOf, Registered, Registry!Registered, TypeOK
  <1>2. CASE RenameAccount
    <2>1. PICK rename \in Renames :
            gmAccounts' = [gmAccounts EXCEPT ![rename.id].alias = rename.alias]
      BY <1>2 DEF RenameAccount, Registry!Rename
    <2>2. \A a \in Accounts : gmAccounts'[a].user = gmAccounts[a].user
      BY <2>1 DEF TypeOK
    <2> QED BY <2>2 DEF AccountsOf
  <1>3. CASE UNCHANGED gmAccounts BY <1>3 DEF AccountsOf
  <1>4. CASE UNCHANGED vars BY <1>3, <1>4 DEF vars
  <1>5. ASSUME NEW c \in Calls, Arrive(c) \/ Step(c) \/ Settle(c)
        PROVE  UNCHANGED gmAccounts
    BY <1>5 DEF Arrive, Step, Settle, MirrorKnows, MirrorLacks, FindSupplyAccount,
       FindAccount, FindPayer, AccountMissing, FeeAliasFound, FeeAliasUnknown,
       CreateClient, AddSpace, SetCurrentSpace, UploadMetadata, MaxSupplyUndefined, Submit, Receipt,
       CallFails, Accept, Reject
  <1>6. CASE Crash \/ Quiescent BY <1>3, <1>6 DEF Crash, Quiescent, vars
  <1> QED BY <1>1, <1>2, <1>3, <1>4, <1>5, <1>6 DEF Next

Idle(d) ==
  /\ pc'[d] = pc[d] /\ req'[d] = req[d]
  /\ action'[d] = action[d] /\ payer'[d] = payer[d]
  /\ collectors'[d] = collectors[d] /\ lookups'[d] = lookups[d]

Dies(d) ==
  /\ pc'[d] = "crashed" /\ req'[d] = req[d]
  /\ pc[d] # "new" /\ action'[d] = action[d]
  /\ Faults
  /\ collectors'[d] = collectors[d] /\ lookups'[d] = lookups[d]

Finds(d) == FindSupplyAccount(d) \/ FindAccount(d) \/ FindPayer(d)

LEMMA HandlerSteps ==
  ASSUME TypeOK, [Next]_vars, NEW d \in Calls
  PROVE  \/ Idle(d) \/ Dies(d) \/ Arrive(d) \/ Moves(d) \/ Finds(d)
         \/ FeeAliasFound(d) \/ AddSpace(d) \/ SetCurrentSpace(d) \/ Submit(d)
  <1>1. CASE UNCHANGED vars BY <1>1 DEF vars, Idle
  <1>2. CASE RegisterAccount \/ RenameAccount \/ Quiescent
    BY <1>2 DEF RegisterAccount, RenameAccount, Quiescent, vars, locals, Idle
  <1>3. CASE Crash
    BY <1>3 DEF Crash, Live, locals, Idle, Dies, TypeOK, Stages
  <1>4. ASSUME NEW c \in Calls \ {d}, Arrive(c) PROVE Idle(d)
    BY <1>4 DEF Arrive, Goto, Idle, TypeOK
  <1>5. ASSUME NEW c \in Calls \ {d}, Moves(c) PROVE Idle(d)
    BY <1>5, MovesFacts DEF locals, Idle, TypeOK
  <1>6. ASSUME NEW c \in Calls \ {d}, NEW accounts, Build(c, accounts)
        PROVE  pc'[d] = pc[d]
    BY <1>6, BuildFacts DEF Goto, TypeOK
  <1>7. ASSUME NEW c \in Calls \ {d}, NEW a, Proceed(c, a)
        PROVE  pc'[d] = pc[d] /\ action'[d] = action[d]
    BY <1>6, <1>7 DEF Proceed, Goto, TypeOK
  <1>8. ASSUME NEW c \in Calls \ {d}, FindSupplyAccount(c) PROVE Idle(d)
    BY <1>7, <1>8 DEF FindSupplyAccount, Idle, Goto, TypeOK
  <1>9. ASSUME NEW c \in Calls \ {d}, FindAccount(c) PROVE Idle(d)
    BY <1>7, <1>9 DEF FindAccount, Idle
  <1>10. ASSUME NEW c \in Calls \ {d}, FindPayer(c) PROVE Idle(d)
    BY <1>6, <1>10 DEF FindPayer, Idle, TypeOK
  <1>11. ASSUME NEW c \in Calls \ {d}, FeeAliasFound(c) PROVE Idle(d)
    BY <1>11 DEF FeeAliasFound, Idle, Goto, TypeOK
  <1>12. ASSUME NEW c \in Calls \ {d}, AddSpace(c) \/ SetCurrentSpace(c) PROVE Idle(d)
    BY <1>12 DEF AddSpace, SetCurrentSpace, locals, Idle, Goto, TypeOK
  <1>13. ASSUME NEW c \in Calls \ {d}, Submit(c) PROVE Idle(d)
    BY <1>13 DEF Submit, Acknowledge, locals, Idle, Goto, TypeOK
  <1>14. ASSUME NEW c \in Calls, Settle(c) PROVE Idle(d)
    BY <1>14 DEF Settle, Accept, Reject, locals, Idle
  <1> QED
    BY <1>1, <1>2, <1>3, <1>4, <1>5, <1>8, <1>9, <1>10, <1>11, <1>12, <1>13, <1>14
       DEF Next, Step, Moves, Finds

LEMMA TransactionSteps ==
  ASSUME TypeOK, HandlersSound, [Next]_vars, NEW d \in Calls
  PROVE  \/ Submit(d)
         \/ tx'[d].status = "unsent" /\ tx[d].status = "unsent"
         \/ /\ tx[d].status # "unsent" /\ tx'[d].status # "unsent"
            /\ req'[d] = req[d]
            /\ tx'[d].account = tx[d].account /\ tx'[d].payer = tx[d].payer
            /\ tx'[d].signers = tx[d].signers /\ tx'[d].collectors = tx[d].collectors
            /\ tx'[d].supplyKey = tx[d].supplyKey
            /\ tx'[d].status = "accepted" => tx[d].status = "accepted" \/ Accept(d)
            /\ tx'[d].status = tx[d].status \/ tx[d].status = "pending"
  <1>1. CASE tx'[d] = tx[d]
    <2>1. req'[d] = req[d] \/ tx[d].status = "unsent"
      <3>1. CASE Arrive(d)
        BY <3>1 DEF Arrive, HandlersSound, BeforeSubmit, BeforeClient, BeforeBuild
      <3>2. CASE ~Arrive(d)
        BY <3>2, HandlerSteps, MovesFacts DEF Idle, Dies, Finds, FindSupplyAccount,
           FindAccount, FindPayer, FeeAliasFound, AddSpace, SetCurrentSpace, Submit
      <3> QED BY <3>1, <3>2
    <2> QED BY <1>1, <2>1
  <1>2. ASSUME NEW c \in Calls, Settle(c)
        PROVE  \/ tx'[d] = tx[d]
               \/ /\ tx[d].status = "pending" /\ tx'[d].status \in {"accepted", "rejected"}
                  /\ req'[d] = req[d]
                  /\ tx'[d].account = tx[d].account /\ tx'[d].payer = tx[d].payer
                  /\ tx'[d].signers = tx[d].signers
                  /\ tx'[d].collectors = tx[d].collectors
                  /\ tx'[d].supplyKey = tx[d].supplyKey
                  /\ tx'[d].status = "accepted" => Accept(d)
    <2>1. PICK s \in {"accepted", "rejected"} :
            /\ tx' = [tx EXCEPT ![c].status = s] /\ tx[c].status = "pending" /\ UNCHANGED req
            /\ s = "accepted" => Accept(c)
      BY <1>2 DEF Settle, Accept, Reject
    <2> QED BY <2>1 DEF TypeOK
  <1>3. ASSUME NEW c \in Calls \ {d}, Submit(c) PROVE tx'[d] = tx[d]
    BY <1>3 DEF Submit, TypeOK
  <1>4. ASSUME NEW c \in Calls, Arrive(c) \/ Step(c), ~Submit(c) PROVE UNCHANGED tx
    BY <1>4 DEF Arrive, Step, MirrorKnows, MirrorLacks, FindSupplyAccount,
       FindAccount, FindPayer, AccountMissing, FeeAliasFound, FeeAliasUnknown,
       CreateClient, AddSpace, SetCurrentSpace, UploadMetadata, MaxSupplyUndefined,
         Receipt, CallFails
  <1>5. CASE RegisterAccount \/ RenameAccount \/ Crash \/ Quiescent \/ UNCHANGED vars
    BY <1>1, <1>5 DEF RegisterAccount, RenameAccount, Crash, Quiescent, vars
  <1> QED BY <1>1, <1>2, <1>3, <1>4, <1>5 DEF Next, Step

-----------------------------------------------------------------------------
(* Each part of the bookkeeping is preserved.                              *)

(* What a handler knows once buildClientAndSigningKeys has the keys.       *)
LEMMA FindsFacts ==
  ASSUME TypeOK, HandlersSound, NEW d \in Calls, Finds(d)
  PROVE  /\ pc[d] \in BeforeBuild \ {"new"}
         /\ UNCHANGED <<gmAccounts, req, collectors, lookups, ipfs, tx, tokens>>
         /\ \E s \in {"payer", "fees", "import", "upload", "submit"} \cup Ends :
              /\ pc' = [pc EXCEPT ![d] = s]
              /\ s = "upload" => client # None
              /\ s = "payer" => action'[d] \in Accounts /\ payer'[d] = None
              /\ s \notin Ends \cup {"payer"} =>
                   {action'[d], Operator(d)'} \subseteq AccountsOf(req[d].user)
              /\ s \notin Ends \cup {"payer", "fees"} =>
                   AliasFees(req[d].fees) = {}
  <1>1. ASSUME NEW a \in Accounts, Proceed(d, a), payer[d] = None, UNCHANGED payer
        PROVE  \E s \in {"payer", "fees", "import", "upload", "submit"} \cup Ends :
                 /\ pc' = [pc EXCEPT ![d] = s]
                 /\ s = "upload" => client # None
                 /\ s = "payer" => action'[d] \in Accounts /\ payer'[d] = None
                 /\ s \notin Ends \cup {"payer"} =>
                      {action'[d], Operator(d)'} \subseteq AccountsOf(req[d].user)
                 /\ s \notin Ends \cup {"payer", "fees"} =>
                      AliasFees(req[d].fees) = {}
    <2>1. action'[d] = a /\ Operator(d)' = a
      BY <1>1 DEF Proceed, Operator, TypeOK
    <2>2. CASE req[d].payerId # None
      <3>1. pc' = [pc EXCEPT ![d] = "payer"] BY <1>1, <2>2 DEF Proceed, Goto
      <3> QED BY <1>1, <2>1, <3>1 DEF Ends
    <2>3. CASE req[d].payerId = None
      <3>1. PICK s \in {"fees", "import", "upload", "submit"} \cup Ends :
              /\ Goto(d, s)
              /\ s = "upload" => client # None
              /\ s \notin Ends => \A b \in {a} : CanSignFor(d, b)
              /\ s \notin Ends \cup {"fees"} =>
                   AliasFees(req[d].fees) = {}
        BY <1>1, <2>3, BuildFacts DEF Proceed
      <3>2. s \notin Ends => {action'[d], Operator(d)'} \subseteq AccountsOf(req[d].user)
        BY <1>1, <2>1, <3>1 DEF CanSignFor, AccountsOf
      <3>3. pc' = [pc EXCEPT ![d] = s] /\ s # "payer" BY <3>1 DEF Goto, Ends
      <3> QED BY <3>1, <3>2, <3>3
    <2> QED BY <2>2, <2>3
  <1>2. CASE FindSupplyAccount(d)
    <2>1. pc[d] = "supply" /\ payer[d] = None
      BY <1>2 DEF FindSupplyAccount, HandlersSound, BeforeBuild
    <2>2. UNCHANGED <<gmAccounts, req, payer, collectors, lookups, ipfs, tx, tokens>>
      BY <1>2 DEF FindSupplyAccount
    <2>3. CASE holder[req[d].token] \in AccountsOf(req[d].user)
      BY <1>1, <1>2, <2>1, <2>2, <2>3 DEF FindSupplyAccount, AccountsOf, BeforeBuild
    <2>4. CASE holder[req[d].token] \notin AccountsOf(req[d].user)
      <3>1. pc' = [pc EXCEPT ![d] = "unavailable"]
        BY <1>2, <2>4 DEF FindSupplyAccount, Goto
      <3> QED BY <2>1, <2>2, <3>1 DEF BeforeBuild, Ends
    <2> QED BY <2>3, <2>4
  <1>3. CASE FindAccount(d)
    <2>1. pc[d] = "account" /\ payer[d] = None
      BY <1>3 DEF FindAccount, HandlersSound, BeforeBuild
    <2>2. PICK a \in Accounts : Proceed(d, a)
      BY <1>3, <2>1, FindTypes DEF FindAccount
    <2> QED BY <1>1, <1>3, <2>1, <2>2 DEF FindAccount, BeforeBuild
  <1>4. CASE FindPayer(d)
    <2>1. pc[d] = "payer" /\ action[d] \in Accounts
      BY <1>4 DEF FindPayer, HandlersSound
    <2>2. PICK a \in Accounts : payer' = [payer EXCEPT ![d] = a] /\ Build(d, {action[d], a})
      BY <1>4, <2>1, FindTypes DEF FindPayer
    <2>3. action'[d] = action[d] /\ Operator(d)' = a
      BY <1>4, <2>2, NoneFacts DEF FindPayer, Operator, TypeOK
    <2>4. PICK s \in {"fees", "import", "upload", "submit"} \cup Ends :
            /\ Goto(d, s)
            /\ s = "upload" => client # None
            /\ s \notin Ends => \A b \in {action[d], a} : CanSignFor(d, b)
            /\ s \notin Ends \cup {"fees"} =>
                 AliasFees(req[d].fees) = {}
      BY <2>2, BuildFacts
    <2>5. s \notin Ends => {action'[d], Operator(d)'} \subseteq AccountsOf(req[d].user)
      BY <2>1, <2>2, <2>3, <2>4 DEF CanSignFor, AccountsOf
    <2>6. pc' = [pc EXCEPT ![d] = s] /\ s # "payer" BY <2>4 DEF Goto, Ends
    <2> QED BY <1>4, <2>1, <2>4, <2>5, <2>6 DEF FindPayer, BeforeBuild
  <1> QED BY <1>2, <1>3, <1>4 DEF Finds

LEMMA NextHandlersSound ==
  ASSUME TypeOK, HandlersSound, FeesSound, [Next]_vars
  PROVE  HandlersSound'
  <1> DEFINE Sound(d) ==
               /\ pc[d] \in BeforeSubmit => tx[d].status = "unsent"
               /\ pc[d] \in BeforeBuild => payer[d] = None
               /\ pc[d] = "payer" => action[d] \in Accounts
               /\ pc[d] \in BeforeSubmit \ BeforeBuild =>
                    {action[d], Operator(d)} \subseteq AccountsOf(req[d].user)
  <1> SUFFICES ASSUME NEW d \in Calls PROVE Sound(d)'
    BY DEF HandlersSound
  <1>0. Sound(d) BY DEF HandlersSound
  <1> USE DEF BeforeSubmit, BeforeClient, BeforeBuild
  <1>1. ASSUME pc[d] # "new", UNCHANGED <<action[d], payer[d], req[d]>>
        PROVE  {action[d], Operator(d)} \subseteq AccountsOf(req[d].user) =>
                 ({action[d], Operator(d)} \subseteq AccountsOf(req[d].user))'
    <2>1. req[d].user \in Users BY <1>1, FindTypes
    <2>2. \A a \in AccountsOf(req[d].user) : a \in AccountsOf(req[d].user)'
      BY <1>1, <2>1, OwnersKept DEF AccountsOf
    <2>3. action'[d] = action[d] /\ Operator(d)' = Operator(d)
      BY <1>1 DEF Operator
    <2> QED BY <2>2, <2>3
  <1>2. tx'[d].status = "unsent" \/ pc[d] \notin BeforeSubmit \/ Submit(d)
    BY <1>0, TransactionSteps
  <1>3. CASE Idle(d)
    <2>1. ~Submit(d) BY <1>3 DEF Idle, Submit, Acknowledge, Goto, TypeOK
    <2>2. CASE pc[d] = "new" BY <1>0, <1>2, <1>3, <2>1, <2>2 DEF Idle
    <2>3. CASE pc[d] # "new"
      <3>1. UNCHANGED <<pc[d], action[d], payer[d], req[d]>> BY <1>3 DEF Idle
      <3> QED BY <1>0, <1>1, <1>2, <2>1, <2>3, <3>1
    <2> QED BY <2>2, <2>3
  <1>4. CASE Dies(d) BY <1>4 DEF Dies
  <1>5. CASE Arrive(d)
    <2>1. pc[d] = "new" /\ payer' = payer BY <1>5 DEF Arrive, locals
    <2>2. pc'[d] \in {"mirror", "account"} \/ pc'[d] \notin BeforeSubmit
      <3>1. PICK body \in Bodies :
              Goto(d, IF Refused(body) THEN "BadRequest"
                      ELSE IF EscrowKey(body) \in EscrowErrors
                      THEN EscrowKey(body)
                      ELSE IF body.op \in Mints THEN "mirror" ELSE "account")
        BY <1>5 DEF Arrive
      <3>2. EscrowKey(body) \notin BeforeSubmit
        BY <3>1, EscrowKeyTypes
      <3> QED BY <3>1, <3>2 DEF Goto, TypeOK
    <2> QED BY <1>0, <1>2, <2>1, <2>2 DEF Submit
  <1>6. CASE Moves(d)
    <2>1. PICK s \in {"supply", "unavailable", "AccountNotFoundError", "addSpace",
                      "submit", "SUCCESS"} :
            /\ pc' = [pc EXCEPT ![d] = s]
            /\ s = "supply" => pc[d] = "mirror"
            /\ s = "addSpace" => pc[d] = "import"
            /\ s = "submit" => pc[d] = "upload"
      BY <1>6, MovesFacts
    <2>2. pc'[d] = s BY <2>1 DEF TypeOK
    <2>3. UNCHANGED <<action[d], payer[d], req[d], tx[d]>> BY <1>6, MovesFacts DEF locals
    <2> QED BY <1>0, <1>1, <2>1, <2>2, <2>3
  <1>7. CASE Finds(d)
    <2>1. PICK s \in {"payer", "fees", "import", "upload", "submit"} \cup Ends :
            /\ pc' = [pc EXCEPT ![d] = s]
            /\ s = "payer" => action'[d] \in Accounts /\ payer'[d] = None
            /\ s \notin Ends \cup {"payer"} =>
                 {action'[d], Operator(d)'} \subseteq AccountsOf(req[d].user)
      BY <1>7, FindsFacts
    <2>2. /\ pc[d] \in BeforeBuild
          /\ UNCHANGED <<gmAccounts, req, tx>>
      BY <1>7, FindsFacts
    <2>3. pc'[d] = s BY <2>1 DEF TypeOK
    <2>4. AccountsOf(req[d].user)' = AccountsOf(req[d].user) BY <2>2 DEF AccountsOf
    <2> QED BY <1>0, <2>1, <2>2, <2>3, <2>4 DEF Ends
  <1>8. CASE FeeAliasFound(d)
    <2>1. /\ pc[d] = "fees"
          /\ UNCHANGED <<action[d], payer[d], req[d], tx[d]>>
      BY <1>8 DEF FeeAliasFound
    <2>2. pc'[d] \in {"fees", "import", "upload", "submit", "unavailable"}
      BY <1>8, AfterFeesFacts DEF FeeAliasFound, Goto, TypeOK
    <2> QED BY <1>0, <1>1, <2>1, <2>2
  <1>9. CASE AddSpace(d) \/ SetCurrentSpace(d)
    <2>1. /\ pc[d] \in {"addSpace", "setSpace"}
          /\ UNCHANGED <<action[d], payer[d], req[d], tx[d]>>
      BY <1>9 DEF AddSpace, SetCurrentSpace, locals
    <2>2. pc'[d] \in {"setSpace", "upload", "submit", "unavailable"}
      BY <1>9, AfterFeesFacts DEF AddSpace, SetCurrentSpace, Goto, TypeOK
    <2> QED BY <1>0, <1>1, <2>1, <2>2
  <1>10. CASE Submit(d)
    BY <1>10 DEF Submit, Acknowledge, Goto, TypeOK
  <1> QED BY <1>3, <1>4, <1>5, <1>6, <1>7, <1>8, <1>9, <1>10, HandlerSteps

LEMMA NextFeesSound ==
  ASSUME TypeOK, HandlersSound, FeesSound, [Next]_vars
  PROVE  FeesSound'
  <1> DEFINE Kept(d) ==
               /\ DOMAIN collectors[d] = DOMAIN req[d].fees
               /\ lookups[d] \subseteq AliasFees(req[d].fees)
               /\ \A i \in DOMAIN req[d].fees :
                    IF i \in AliasFees(req[d].fees) \ lookups[d]
                    THEN collectors[d][i] \in AccountsOf(req[d].user)
                    ELSE collectors[d][i] = req[d].fees[i]
             Done(d) == pc[d] \in BeforeSubmit \ (BeforeBuild \cup {"fees"}) => lookups[d] = {}
  <1> SUFFICES ASSUME NEW d \in Calls PROVE (pc[d] # "new" => Kept(d))' /\ Done(d)'
    BY DEF FeesSound
  <1>0. (pc[d] # "new" => Kept(d)) /\ Done(d) BY DEF FeesSound
  <1>1. ASSUME pc[d] # "new", UNCHANGED <<req[d], collectors[d], lookups[d]>>
        PROVE  Kept(d)'
    <2>1. req[d].user \in Users BY <1>1, FindTypes
    <2>2. \A a \in AccountsOf(req[d].user) : a \in AccountsOf(req[d].user)'
      BY <1>1, <2>1, OwnersKept DEF AccountsOf
    <2>3. AliasFees(req[d].fees)' = AliasFees(req[d].fees) BY <1>1 DEF AliasFees
    <2> QED BY <1>0, <1>1, <2>2, <2>3
  <1> USE DEF BeforeSubmit, BeforeClient, BeforeBuild
  <1>2. CASE Idle(d)
    <2>1. UNCHANGED <<pc[d], req[d], collectors[d], lookups[d]>> BY <1>2 DEF Idle
    <2> QED BY <1>0, <1>1, <2>1
  <1>3. CASE Dies(d)
    <2>1. pc[d] # "new" /\ UNCHANGED <<req[d], collectors[d], lookups[d]>>
      BY <1>3 DEF Dies
    <2>2. pc'[d] = "crashed" BY <1>3 DEF Dies
    <2> QED BY <1>1, <2>1, <2>2
  <1>4. CASE Arrive(d)
    <2>1. PICK body \in Bodies :
            /\ req' = [req EXCEPT ![d] = body]
            /\ collectors' = [collectors EXCEPT ![d] = body.fees]
            /\ lookups' = [lookups EXCEPT ![d] = AliasFees(body.fees)]
            /\ Goto(d, IF Refused(body) THEN "BadRequest"
                       ELSE IF EscrowKey(body) \in EscrowErrors
                       THEN EscrowKey(body)
                       ELSE IF body.op \in Mints THEN "mirror" ELSE "account")
      BY <1>4 DEF Arrive
    <2>2. req'[d] = body /\ collectors'[d] = body.fees /\ lookups'[d] = AliasFees(body.fees)
      BY <2>1 DEF TypeOK
    <2>3. Kept(d)' BY <2>2 DEF AliasFees
    <2>4. pc'[d] \notin BeforeSubmit \ BeforeBuild
      BY <2>1, EscrowKeyTypes DEF Goto, TypeOK
    <2> QED BY <2>3, <2>4
  <1>5. CASE Moves(d)
    <2>1. PICK s \in {"supply", "unavailable", "AccountNotFoundError", "addSpace",
                      "submit", "SUCCESS"} :
            /\ pc' = [pc EXCEPT ![d] = s]
            /\ s = "addSpace" => pc[d] = "import"
            /\ s = "submit" => pc[d] = "upload"
      BY <1>5, MovesFacts
    <2>2. pc'[d] = s BY <2>1 DEF TypeOK
    <2>3. UNCHANGED <<req[d], collectors[d], lookups[d]>> BY <1>5, MovesFacts DEF locals
    <2>4. pc[d] # "new"
      BY <1>5 DEF Moves, MirrorKnows, MirrorLacks, AccountMissing, FeeAliasUnknown,
         CreateClient, UploadMetadata, MaxSupplyUndefined,
         Receipt, CallFails, Live, Stages
    <2> QED BY <1>0, <1>1, <2>1, <2>2, <2>3, <2>4
  <1>6. CASE Finds(d)
    <2>1. PICK s \in {"payer", "fees", "import", "upload", "submit"} \cup Ends :
            /\ pc' = [pc EXCEPT ![d] = s]
            /\ s \notin Ends \cup {"payer", "fees"} =>
                 AliasFees(req[d].fees) = {}
      BY <1>6, FindsFacts
    <2>2. /\ pc[d] # "new"
          /\ UNCHANGED <<req[d], collectors[d], lookups[d]>>
      BY <1>6, FindsFacts
    <2>3. pc'[d] = s BY <2>1 DEF TypeOK
    <2>4. s \notin Ends \cup {"payer", "fees"} => lookups[d] = {}
      BY <1>0, <2>1, <2>2, FindTypes, BodyTypes
    <2> QED BY <1>1, <2>2, <2>3, <2>4 DEF Ends
  <1>7. CASE FeeAliasFound(d)
    <2>1. pc[d] = "fees" /\ UNCHANGED <<gmAccounts, req>> BY <1>7 DEF FeeAliasFound
    <2>2. PICK i \in lookups[d], a \in AccountsOf(req[d].user) :
            /\ collectors' = [collectors EXCEPT ![d][i] = a]
            /\ lookups' = [lookups EXCEPT ![d] = @ \ {i}]
            /\ Goto(d, IF lookups[d] = {i} THEN AfterFees(req[d]) ELSE "fees")
      BY <1>7, <2>1, FindTypes DEF FeeAliasFound
    <2>3. i \in DOMAIN collectors[d] /\ a \in Accounts
      BY <1>0, <2>1, <2>2, FindTypes, BodyTypes
    <2>4. lookups'[d] = lookups[d] \ {i} BY <2>2 DEF TypeOK
    <2>5. pc'[d] \in BeforeSubmit \ (BeforeBuild \cup {"fees"}) => lookups'[d] = {}
      BY <2>2, <2>4 DEF Goto, TypeOK
    <2>6. /\ DOMAIN collectors'[d] = DOMAIN collectors[d]
          /\ \A j \in DOMAIN collectors[d] :
               collectors'[d][j] = IF j = i THEN a ELSE collectors[d][j]
      BY <2>2, <2>3, CollectorTypes
    <2>7. AccountsOf(req[d].user)' = AccountsOf(req[d].user) BY <2>1 DEF AccountsOf
    <2>8. Kept(d) BY <1>0, <2>1
    <2>9. AliasFees(req[d].fees)' = AliasFees(req[d].fees) BY <2>1 DEF AliasFees
    <2>10. \A j \in DOMAIN req[d].fees :
             IF j \in AliasFees(req[d].fees) \ lookups'[d]
             THEN collectors'[d][j] \in AccountsOf(req[d].user)
             ELSE collectors'[d][j] = req[d].fees[j]
      BY <2>2, <2>4, <2>6, <2>8
    <2>11. Kept(d)' BY <2>1, <2>4, <2>6, <2>7, <2>8, <2>9, <2>10
    <2> QED BY <2>5, <2>11
  <1>8. CASE AddSpace(d) \/ SetCurrentSpace(d)
    <2>1. /\ pc[d] \in {"addSpace", "setSpace"}
          /\ UNCHANGED <<req[d], collectors[d], lookups[d]>>
      BY <1>8 DEF AddSpace, SetCurrentSpace, locals
    <2> QED BY <1>0, <1>1, <2>1
  <1>9. CASE Submit(d)
    <2>1. pc[d] = "submit" /\ UNCHANGED <<req[d], collectors[d], lookups[d]>>
      BY <1>9 DEF Submit, locals
    <2> QED BY <1>0, <1>1, <2>1
  <1> QED BY <1>2, <1>3, <1>4, <1>5, <1>6, <1>7, <1>8, <1>9, HandlerSteps

(* What is sent stays as it was sent.                                      *)
LEMMA NextTransactionsSound ==
  ASSUME TypeOK, HandlersSound, FeesSound, [Next]_vars,
         OwnAccountsOnly, SignaturesSuffice, CollectorsResolved
  PROVE  OwnAccountsOnly' /\ SignaturesSuffice' /\ CollectorsResolved'
  <1> DEFINE Own(d) == {tx[d].account, tx[d].payer} \subseteq AccountsOf(req[d].user)
             Signed(d) == {tx[d].account, tx[d].payer} \subseteq tx[d].signers
             Resolved(d) ==
               /\ DOMAIN tx[d].collectors = DOMAIN req[d].fees
               /\ \A i \in DOMAIN req[d].fees :
                    IF req[d].fees[i] \in Accounts
                    THEN tx[d].collectors[i] = req[d].fees[i]
                    ELSE tx[d].collectors[i] \in AccountsOf(req[d].user)
  <1> SUFFICES ASSUME NEW d \in Calls, tx'[d].status # "unsent"
               PROVE  Own(d)' /\ Signed(d)' /\ Resolved(d)'
    BY DEF OwnAccountsOnly, SignaturesSuffice, CollectorsResolved
  <1>1. CASE Submit(d)
    <2>1. /\ tx'[d].account = action[d] /\ tx'[d].payer = Operator(d)
          /\ tx'[d].signers = {Operator(d), action[d]}
          /\ tx'[d].collectors = collectors[d]
          /\ pc[d] = "submit"
          /\ UNCHANGED <<gmAccounts, req>>
      BY <1>1 DEF Submit, Signers, TypeOK
    <2>2. {action[d], Operator(d)} \subseteq AccountsOf(req[d].user)
      BY <2>1 DEF HandlersSound, BeforeSubmit, BeforeClient, BeforeBuild
    <2>3. AccountsOf(req[d].user)' = AccountsOf(req[d].user) BY <2>1 DEF AccountsOf
    <2>4. /\ lookups[d] = {}
          /\ DOMAIN collectors[d] = DOMAIN req[d].fees
          /\ \A i \in DOMAIN req[d].fees :
               IF i \in AliasFees(req[d].fees) \ lookups[d]
               THEN collectors[d][i] \in AccountsOf(req[d].user)
               ELSE collectors[d][i] = req[d].fees[i]
      BY <2>1 DEF FeesSound, BeforeSubmit, BeforeClient, BeforeBuild
    <2>5. \A i \in DOMAIN req[d].fees : req[d].fees[i] \in Accounts \cup Aliases
      <3>1. req[d].fees \in Seq(Refs) BY <2>1, FindTypes, BodyTypes
      <3> QED BY <3>1 DEF Refs
    <2>6. \A i \in DOMAIN req[d].fees :
            IF req[d].fees[i] \in Accounts
            THEN collectors[d][i] = req[d].fees[i]
            ELSE collectors[d][i] \in AccountsOf(req[d].user)
      BY <2>4, <2>5, NoneFacts DEF AliasFees
    <2> QED BY <2>1, <2>2, <2>3, <2>4, <2>6
  <1>2. CASE ~Submit(d)
    <2>1. /\ tx[d].status # "unsent"
          /\ req'[d] = req[d]
          /\ tx'[d].account = tx[d].account /\ tx'[d].payer = tx[d].payer
          /\ tx'[d].signers = tx[d].signers /\ tx'[d].collectors = tx[d].collectors
      BY <1>2, TransactionSteps
    <2>2. pc[d] # "new"
      BY <2>1 DEF HandlersSound, BeforeSubmit, BeforeClient, BeforeBuild
    <2>3. req[d].user \in Users BY <2>2, FindTypes
    <2>4. \A a \in AccountsOf(req[d].user) : a \in AccountsOf(req[d].user)'
      BY <2>1, <2>3, OwnersKept DEF AccountsOf
    <2>5. Own(d) /\ Signed(d) /\ Resolved(d)
      BY <2>1 DEF OwnAccountsOnly, SignaturesSuffice, CollectorsResolved
    <2> QED BY <2>1, <2>4, <2>5
  <1> QED BY <1>1, <1>2

(* No call shares a client that it has yet to build, and what is shared    *)
(* keeps its space.                                                        *)
LEMMA NextClientsSound ==
  ASSUME TypeOK, HandlersSound, ClientsSound, UploadsHaveSpace, [Next]_vars
  PROVE  ClientsSound' /\ UploadsHaveSpace'
  <1> USE DEF BeforeClient, BeforeBuild
  <1>1. CASE Crash
    <2>1. /\ client' = None /\ UNCHANGED space
          /\ \A d \in Calls : pc'[d] = IF pc[d] \in Stages THEN "crashed" ELSE pc[d]
      BY <1>1 DEF Crash, Live
    <2>2. \A d \in Calls : pc'[d] # "upload" BY <2>1 DEF Stages
    <2>3. \A d \in Calls : d # None BY NoneFacts DEF TokenIds
    <2> QED BY <2>1, <2>2, <2>3 DEF ClientsSound, UploadsHaveSpace
  <1>2. ASSUME NEW c \in Calls, AddSpace(c) PROVE ClientsSound' /\ UploadsHaveSpace'
    <2>1. /\ pc[c] = "addSpace" /\ UNCHANGED client
          /\ space' = [space EXCEPT ![c] = "added"]
          /\ pc' = [pc EXCEPT ![c] = "setSpace"]
      BY <1>2 DEF AddSpace, Goto
    <2>2. client # c BY <2>1 DEF ClientsSound
    <2> QED BY <2>1, <2>2 DEF TypeOK, ClientsSound, UploadsHaveSpace
  <1>3. ASSUME NEW c \in Calls, SetCurrentSpace(c)
        PROVE  ClientsSound' /\ UploadsHaveSpace'
    <2>1. /\ pc[c] = "setSpace" /\ client' = c
          /\ space' = [space EXCEPT ![c] = "current"]
      BY <1>3 DEF SetCurrentSpace
    <2>2. PICK s \in {"upload", "submit", "unavailable"} : pc' = [pc EXCEPT ![c] = s]
      BY <1>3, AfterFeesFacts DEF SetCurrentSpace, Goto
    <2>3. UploadsHaveSpace' BY <2>1, NoneFacts DEF TypeOK, TokenIds, UploadsHaveSpace
    <2>4. ClientsSound'
      BY <2>1, <2>2 DEF TypeOK, ClientsSound
    <2> QED BY <2>3, <2>4
  <1>4. CASE UNCHANGED <<client, space>> /\
             \A d \in Calls : \/ pc'[d] \notin BeforeClient \cup {"upload"}
                              \/ pc'[d] \in BeforeClient /\ pc[d] \in BeforeClient
                              \/ pc'[d] = "upload" /\ client # None
    BY <1>4 DEF ClientsSound, UploadsHaveSpace
  <1>5. CASE UNCHANGED <<client, space>>
    <2> SUFFICES ASSUME NEW d \in Calls
                 PROVE  \/ pc'[d] \notin BeforeClient \cup {"upload"}
                        \/ pc'[d] \in BeforeClient /\ pc[d] \in BeforeClient
                        \/ pc'[d] = "upload" /\ client # None
      BY <1>4, <1>5
    <2>1. CASE Idle(d) BY <2>1 DEF Idle, UploadsHaveSpace
    <2>2. CASE Dies(d) BY <2>2 DEF Dies
    <2>3. CASE Arrive(d)
      <3>1. pc[d] = "new" BY <2>3 DEF Arrive
      <3>2. PICK body \in Bodies :
              Goto(d, IF Refused(body) THEN "BadRequest"
                      ELSE IF EscrowKey(body) \in EscrowErrors
                      THEN EscrowKey(body)
                      ELSE IF body.op \in Mints THEN "mirror" ELSE "account")
        BY <2>3 DEF Arrive
      <3> QED BY <3>1, <3>2, EscrowKeyTypes DEF Goto, TypeOK
    <2>4. CASE Moves(d) BY <2>4, MovesFacts DEF TypeOK
    <2>5. CASE Finds(d)
      <3>1. PICK s \in {"payer", "fees", "import", "upload", "submit"} \cup Ends :
              pc' = [pc EXCEPT ![d] = s] /\ (s = "upload" => client # None)
        BY <2>5, FindsFacts
      <3>2. pc[d] \in BeforeBuild /\ pc'[d] = s BY <2>5, <3>1, FindsFacts DEF TypeOK
      <3> QED BY <3>1, <3>2 DEF Ends
    <2>6. CASE FeeAliasFound(d)
      <3>1. pc[d] = "fees" /\ (pc'[d] = "fees" \/ pc'[d] = AfterFees(req[d]))
        BY <2>6 DEF FeeAliasFound, Goto, TypeOK
      <3> QED BY <3>1, AfterFeesFacts
    <2>7. CASE AddSpace(d) BY <2>7 DEF AddSpace, Goto, TypeOK
    <2>8. CASE SetCurrentSpace(d)
      <3>1. client' = d /\ client' = client /\ pc[d] = "setSpace" BY <1>5, <2>8 DEF SetCurrentSpace
      <3> QED BY <3>1 DEF ClientsSound
    <2>9. CASE Submit(d) BY <2>9 DEF Submit, Acknowledge, Goto, TypeOK
    <2> QED
      BY <2>1, <2>2, <2>3, <2>4, <2>5, <2>6, <2>7, <2>8, <2>9, HandlerSteps
  <1>6. ASSUME NEW c \in Calls, Arrive(c) \/ Step(c) \/ Settle(c),
               ~AddSpace(c), ~SetCurrentSpace(c)
        PROVE  UNCHANGED <<client, space>>
    BY <1>6 DEF Arrive, Step, Settle, MirrorKnows, MirrorLacks, FindSupplyAccount,
       FindAccount, FindPayer, AccountMissing, FeeAliasFound, FeeAliasUnknown,
       CreateClient, UploadMetadata, MaxSupplyUndefined, Submit, Receipt, CallFails, Accept, Reject, ipfs
  <1>7. CASE RegisterAccount \/ RenameAccount \/ Quiescent \/ UNCHANGED vars
    BY <1>5, <1>7 DEF RegisterAccount, RenameAccount, Quiescent, vars, ipfs
  <1> QED BY <1>1, <1>2, <1>3, <1>5, <1>6, <1>7 DEF Next

LEMMA TokenSteps ==
  ASSUME [Next]_vars
  PROVE  \/ UNCHANGED tokens
         \/ \E c \in Calls : Accept(c) /\ (CreateToken(c) \/ MintToken(c))
  <1>1. ASSUME NEW c \in Calls, Accept(c)
        PROVE  CreateToken(c) \/ MintToken(c) \/ UNCHANGED tokens
    BY <1>1 DEF Accept, AssociateToken
  <1>2. ASSUME NEW c \in Calls, Arrive(c) \/ Step(c) \/ Reject(c) PROVE UNCHANGED tokens
    BY <1>2 DEF Arrive, Step, Reject, MirrorKnows, MirrorLacks, FindSupplyAccount,
       FindAccount, FindPayer, AccountMissing, FeeAliasFound, FeeAliasUnknown,
       CreateClient, AddSpace, SetCurrentSpace, UploadMetadata, MaxSupplyUndefined,
       Submit, Receipt, CallFails
  <1>3. CASE RegisterAccount \/ RenameAccount \/ Crash \/ Quiescent \/ UNCHANGED vars
    BY <1>3 DEF RegisterAccount, RenameAccount, Crash, Quiescent, vars, tokens
  <1> QED BY <1>1, <1>2, <1>3 DEF Next, Settle

(* The key that may mint a token stays the one it was created with.        *)
LEMMA HoldersKept ==
  ASSUME TypeOK, MintsSound, [Next]_vars
  PROVE  \A t \in TokenIds : holder[t] # None => holder'[t] = holder[t]
  <1>1. CASE UNCHANGED tokens BY <1>1 DEF tokens
  <1>2. ASSUME NEW c \in Calls, Accept(c), CreateToken(c)
        PROVE  \A t \in TokenIds : holder[t] # None => holder'[t] = holder[t]
    <2>1. holder[c] = None BY <1>2 DEF Accept, MintsSound
    <2>2. \A t \in TokenIds \ {c} : holder'[t] = holder[t] BY <1>2 DEF CreateToken, TypeOK
    <2> QED BY <2>1, <2>2
  <1>3. ASSUME NEW c \in Calls, MintToken(c) PROVE UNCHANGED holder
    BY <1>3 DEF MintToken
  <1> QED BY <1>1, <1>2, <1>3, TokenSteps

(* What a handler knows of the key it mints with.                          *)
LEMMA NextMintsKnown ==
  ASSUME TypeOK, HandlersSound, FeesSound, MintsSound, [Next]_vars, NEW d \in Calls
  PROVE  /\ pc'[d] = "account" => req'[d].op \notin Mints
         /\ pc'[d] \in {"mirror", "supply"} => req'[d].op \in Mints
         /\ pc'[d] = "supply" => holder'[req'[d].token] # None
         /\ pc'[d] \in BeforeBuild \ {"payer"} => action'[d] = None
         /\ action'[d] # None /\ req'[d].op \in Mints => action'[d] = holder'[req'[d].token]
  <1> DEFINE Known ==
        /\ pc[d] = "account" => req[d].op \notin Mints
        /\ pc[d] \in {"mirror", "supply"} => req[d].op \in Mints
        /\ pc[d] = "supply" => holder[req[d].token] # None
        /\ pc[d] \in BeforeBuild \ {"payer"} => action[d] = None
        /\ action[d] # None /\ req[d].op \in Mints => action[d] = holder[req[d].token]
  <1> SUFFICES Known' OBVIOUS
  <1>0. Known BY DEF MintsSound
  <1> USE DEF BeforeBuild
  <1>1. ASSUME pc[d] # "new", req[d].op \in Mints PROVE req[d].token \in TokenIds
    BY <1>1, FindTypes, ParameterTypes
  <1>2. ASSUME pc[d] # "new", UNCHANGED <<req[d], action[d]>>,
               \/ pc'[d] \in {pc[d], "payer"} \/ pc'[d] \notin BeforeBuild
        PROVE  Known'
    BY <1>0, <1>1, <1>2, HoldersKept, NoneFacts DEF TypeOK
  <1>3. CASE Idle(d)
    <2>1. CASE pc[d] = "new" BY <1>0, <1>3, <2>1 DEF Idle
    <2>2. CASE pc[d] # "new" BY <1>2, <1>3, <2>2 DEF Idle
    <2> QED BY <2>1, <2>2
  <1>4. CASE Dies(d) BY <1>2, <1>4 DEF Dies
  <1>5. CASE Arrive(d)
    <2>1. PICK body \in Bodies :
            /\ req' = [req EXCEPT ![d] = body]
            /\ Goto(d, IF Refused(body) THEN "BadRequest"
                       ELSE IF EscrowKey(body) \in EscrowErrors
                       THEN EscrowKey(body)
                       ELSE IF body.op \in Mints THEN "mirror" ELSE "account")
      BY <1>5 DEF Arrive
    <2>2. req'[d] = body BY <2>1 DEF TypeOK
    <2>3. action'[d] = None BY <1>0, <1>5 DEF Arrive
    <2>4. /\ pc'[d] # "supply"
          /\ pc'[d] = "account" => body.op \notin Mints
          /\ pc'[d] = "mirror" => body.op \in Mints
      BY <2>1, EscrowKeyTypes DEF Goto, TypeOK
    <2> QED BY <2>2, <2>3, <2>4
  <1>6. CASE MirrorKnows(d)
    <2>1. pc[d] = "mirror" /\ pc'[d] = "supply" /\ UNCHANGED <<req, action, holder>>
      BY <1>6 DEF MirrorKnows, Goto, TypeOK, locals, tokens
    <2>2. holder[req[d].token] # None BY <1>6 DEF MirrorKnows
    <2>3. req[d].op \in Mints BY <2>1 DEF MintsSound
    <2> QED BY <1>0, <2>1, <2>2, <2>3
  <1>7. CASE Moves(d) /\ ~MirrorKnows(d)
    <2>1. PICK s \in {"supply", "unavailable", "AccountNotFoundError", "addSpace",
                      "submit", "SUCCESS"} : pc' = [pc EXCEPT ![d] = s]
      BY <1>7, MovesFacts
    <2>2. pc'[d] # "supply"
      BY <1>7 DEF Moves, MirrorLacks, AccountMissing, FeeAliasUnknown, CreateClient,
         UploadMetadata, Assembled, MaxSupplyUndefined, Receipt, CallFails, Goto, TypeOK
    <2>3. pc[d] # "new"
      BY <1>7 DEF Moves, MirrorLacks, AccountMissing, FeeAliasUnknown,
         CreateClient, UploadMetadata, MaxSupplyUndefined,
         Receipt, CallFails, Live, Stages
    <2>4. UNCHANGED <<req[d], action[d]>> BY <1>7, MovesFacts DEF locals
    <2>5. pc'[d] \notin BeforeBuild BY <2>1, <2>2 DEF TypeOK
    <2> QED BY <1>2, <2>3, <2>4, <2>5
  <1>8. CASE FindSupplyAccount(d)
    <2>1. pc[d] = "supply" /\ UNCHANGED <<req, holder>>
      BY <1>8 DEF FindSupplyAccount, tokens
    <2>2. action'[d] \in {None, holder[req[d].token]}
      BY <1>0, <1>8, <2>1 DEF FindSupplyAccount, Proceed, TypeOK
    <2>3. pc'[d] \notin BeforeBuild \ {"payer"}
      BY <1>8, FindsFacts DEF Finds, FindSupplyAccount, Ends, TypeOK
    <2> QED BY <2>1, <2>2, <2>3
  <1>9. CASE FindAccount(d)
    <2>1. req[d].op \notin Mints /\ UNCHANGED req BY <1>0, <1>9 DEF FindAccount
    <2>2. pc'[d] \notin BeforeBuild \ {"payer"}
      BY <1>9, FindsFacts DEF Finds, FindAccount, Ends, TypeOK
    <2> QED BY <2>1, <2>2
  <1>10. CASE FindPayer(d)
    <2>1. pc[d] # "new" /\ UNCHANGED <<req[d], action[d]>> BY <1>10 DEF FindPayer
    <2>2. Finds(d) BY <1>10 DEF Finds
    <2>3. PICK s \in {"payer", "fees", "import", "upload", "submit"} \cup Ends :
            pc' = [pc EXCEPT ![d] = s]
      BY <2>2, FindsFacts
    <2>4. pc'[d] = s BY <2>3 DEF TypeOK
    <2> QED BY <1>2, <2>1, <2>3, <2>4 DEF Ends
  <1>11. CASE FeeAliasFound(d)
    <2>1. pc[d] # "new" /\ UNCHANGED <<req[d], action[d]>> BY <1>11 DEF FeeAliasFound
    <2>2. pc'[d] \in {"fees", "import", "upload", "submit", "unavailable"}
      BY <1>11, AfterFeesFacts DEF FeeAliasFound, Goto, TypeOK
    <2> QED BY <1>2, <2>1, <2>2
  <1>12. CASE AddSpace(d) \/ SetCurrentSpace(d)
    <2>1. pc[d] # "new" /\ UNCHANGED <<req[d], action[d]>>
      BY <1>12 DEF AddSpace, SetCurrentSpace, locals
    <2>2. pc'[d] \in {"setSpace", "upload", "submit", "unavailable"}
      BY <1>12, AfterFeesFacts DEF AddSpace, SetCurrentSpace, Goto, TypeOK
    <2> QED BY <1>2, <2>1, <2>2
  <1>13. CASE Submit(d)
    <2>1. pc[d] # "new" /\ UNCHANGED <<req[d], action[d]>> BY <1>13 DEF Submit, locals
    <2>2. pc'[d] \notin BeforeBuild BY <1>13 DEF Submit, Acknowledge, Goto, TypeOK
    <2> QED BY <1>2, <2>1, <2>2
  <1> QED
    BY <1>3, <1>4, <1>5, <1>6, <1>7, <1>8, <1>9, <1>10, <1>11, <1>12, <1>13,
       HandlerSteps DEF Finds

(* What was sent is what the handler held, and so is what the ledger has.  *)
LEMMA NextMintsSound ==
  ASSUME TypeOK, HandlersSound, FeesSound, MintsSound, [Next]_vars
  PROVE  MintsSound'
  <1> DEFINE Sent(d) ==
        tx[d].status # "unsent" =>
          tx[d].account = action[d] /\ tx[d].supplyKey = SupplyKey(d)
             Held(d) ==
        holder[d] # None =>
          /\ tx[d].status = "accepted" /\ req[d].op \in Creates
          /\ holder[d] = tx[d].supplyKey
  <1> SUFFICES ASSUME NEW d \in Calls PROVE Sent(d)' /\ Held(d)'
    BY NextMintsKnown DEF MintsSound
  <1>0. Sent(d) /\ Held(d) BY DEF MintsSound
  <1>1. Sent(d)'
    <2>1. CASE Submit(d)
      <3>1. /\ tx'[d].account = action[d] /\ tx'[d].supplyKey = SupplyKey(d)
            /\ UNCHANGED <<action, payer, req>>
        BY <2>1 DEF Submit, TypeOK, locals
      <3> QED BY <3>1 DEF SupplyKey
    <2>2. CASE tx'[d].status = "unsent" BY <2>2
    <2>3. CASE tx[d].status # "unsent" /\ ~Submit(d)
      <3>1. /\ tx'[d].account = tx[d].account /\ tx'[d].supplyKey = tx[d].supplyKey
            /\ req'[d] = req[d]
        BY <2>3, TransactionSteps
      <3>2. pc[d] \notin BeforeSubmit BY <2>3 DEF HandlersSound
      <3>3. action'[d] = action[d]
        BY <2>3, <3>2, HandlerSteps, MovesFacts, FindsFacts DEF Idle, Dies, Arrive,
           FeeAliasFound, AddSpace, SetCurrentSpace, locals, BeforeSubmit, BeforeClient
      <3>4. SupplyKey(d)' = SupplyKey(d) BY <3>1, <3>3 DEF SupplyKey
      <3> QED BY <1>0, <2>3, <3>1, <3>3, <3>4
    <2> QED BY <2>1, <2>2, <2>3, TransactionSteps
  <1>2. Held(d)'
    <2>1. CASE holder[d] # None
      <3>1. holder'[d] = holder[d] BY <2>1, HoldersKept DEF TokenIds
      <3>2. tx[d].status = "accepted" BY <1>0, <2>1
      <3>3. ~Submit(d)
        BY <3>2 DEF Submit, HandlersSound, BeforeSubmit
      <3> QED BY <1>0, <2>1, <3>1, <3>2, <3>3, TransactionSteps
    <2>2. CASE holder[d] = None /\ holder'[d] # None
      <3>1. ~UNCHANGED holder BY <2>2
      <3>2. PICK c \in Calls : Accept(c) /\ CreateToken(c)
        BY <3>1, TokenSteps DEF MintToken, tokens
      <3>3. /\ holder' = [holder EXCEPT ![c] = tx[c].supplyKey]
            /\ req[c].op \in Creates
            /\ tx' = [tx EXCEPT ![c].status = "accepted"] /\ UNCHANGED req
        BY <3>2 DEF CreateToken, Accept
      <3>4. c = d /\ d \in TokenIds BY <2>2, <3>3 DEF TypeOK, TokenIds
      <3>5. holder'[d] = tx[d].supplyKey BY <3>3, <3>4 DEF TypeOK
      <3>6. tx'[d].status = "accepted" /\ tx'[d].supplyKey = tx[d].supplyKey
        BY <3>3, <3>4 DEF TypeOK
      <3> QED BY <3>3, <3>4, <3>5, <3>6
    <2> QED BY <2>1, <2>2
  <1> QED BY <1>1, <1>2

(* However it is minted, a token stays below its cap.                      *)
LEMMA NextSuppliesSound ==
  ASSUME TypeOK, HandlersSound, FeesSound, SuppliesSound, [Next]_vars
  PROVE  SuppliesSound'
  <1> DEFINE Below(t) == cap[t] # None => supply[t] <= cap[t]
             Asked(d) ==
        tx[d].status = "accepted" /\ req[d].op \in Creates =>
          /\ cap[d] = IF TokenParameters(req[d]).finite
                      THEN TokenParameters(req[d]).max ELSE None
          /\ TokenParameters(req[d]).finite => Given(TokenParameters(req[d]).max)
  <1>1. ASSUME NEW t \in TokenIds PROVE Below(t)'
    <2>0. Below(t) BY DEF SuppliesSound
    <2>1. CASE UNCHANGED tokens BY <2>0, <2>1 DEF tokens
    <2>2. ASSUME NEW c \in Calls, Accept(c), CreateToken(c) PROVE Below(t)'
      <3>1. CASE t = c
        <4>1. /\ supply'[c] = TokenParameters(req[c]).initial
              /\ cap'[c] = IF TokenParameters(req[c]).finite
                           THEN TokenParameters(req[c]).max ELSE None
          BY <2>2, <3>1 DEF CreateToken, TypeOK
        <4> QED BY <2>2, <3>1, <4>1 DEF CreateToken
      <3>2. CASE t # c
        <4>1. supply'[t] = supply[t] /\ cap'[t] = cap[t]
          BY <2>2, <3>2 DEF CreateToken, TypeOK
        <4> QED BY <2>0, <4>1
      <3> QED BY <3>1, <3>2
    <2>3. ASSUME NEW c \in Calls, Accept(c), MintToken(c) PROVE Below(t)'
      <3>1. /\ supply' = [supply EXCEPT ![req[c].token] =
                            supply[req[c].token] + Quantity(req[c])]
            /\ cap' = cap
            /\ cap[req[c].token] # None =>
                 supply[req[c].token] + Quantity(req[c]) <= cap[req[c].token]
        BY <2>3 DEF MintToken
      <3>2. CASE t = req[c].token
        <4>1. supply'[t] = supply[t] + Quantity(req[c]) BY <3>1, <3>2 DEF TypeOK
        <4> QED BY <3>1, <3>2, <4>1
      <3>3. CASE t # req[c].token
        <4>1. supply'[t] = supply[t] BY <3>1, <3>3 DEF TypeOK
        <4> QED BY <2>0, <3>1, <4>1
      <3> QED BY <3>2, <3>3
    <2> QED BY <2>1, <2>2, <2>3, TokenSteps
  <1>2. ASSUME NEW d \in Calls PROVE Asked(d)'
    <2>0. Asked(d) /\ d \in TokenIds BY DEF SuppliesSound, TokenIds
    <2>1. CASE Accept(d) /\ CreateToken(d)
      <3>1. /\ cap'[d] = IF TokenParameters(req[d]).finite
                         THEN TokenParameters(req[d]).max ELSE None
            /\ TokenParameters(req[d]).finite => Given(TokenParameters(req[d]).max)
            /\ req' = req
        BY <2>0, <2>1 DEF CreateToken, Accept, TypeOK
      <3> QED BY <3>1
    <2>2. CASE Accept(d) /\ ~CreateToken(d)
      <3>1. req[d].op \notin Creates /\ req' = req
        BY <2>2 DEF Accept, MintToken, AssociateToken, Creates, Mints
      <3> QED BY <3>1
    <2>3. CASE ~Accept(d)
      <3>1. SUFFICES ASSUME tx'[d].status = "accepted" PROVE Asked(d)' OBVIOUS
      <3>2. ~Submit(d) BY <3>1 DEF Submit, TypeOK
      <3>3. tx[d].status = "accepted" /\ req'[d] = req[d]
        BY <2>3, <3>1, <3>2, TransactionSteps
      <3>4. cap'[d] = cap[d]
        <4>1. CASE UNCHANGED tokens BY <4>1 DEF tokens
        <4>2. ASSUME NEW c \in Calls, Accept(c), CreateToken(c) \/ MintToken(c)
              PROVE  cap'[d] = cap[d]
          BY <2>0, <2>3, <4>2 DEF CreateToken, MintToken, TypeOK
        <4> QED BY <4>1, <4>2, TokenSteps
      <3> QED BY <2>0, <3>3, <3>4
    <2> QED BY <2>1, <2>2, <2>3
  <1> QED BY <1>1, <1>2 DEF SuppliesSound

(* An answer is given when the ledger has settled, or nothing was sent.    *)
LEMMA NextAnswersMatch ==
  ASSUME TypeOK, HandlersSound, FeesSound, AnswerMatchesLedger, [Next]_vars
  PROVE  AnswerMatchesLedger'
  <1> DEFINE Matches(d) ==
        /\ pc[d] = "SUCCESS" => tx[d].status = "accepted"
        /\ pc[d] \in Answers \ {"SUCCESS"} /\ ~Faults => tx[d].status \in {"unsent", "rejected"}
  <1> SUFFICES ASSUME NEW d \in Calls PROVE Matches(d)' BY DEF AnswerMatchesLedger
  <1>0. Matches(d) BY DEF AnswerMatchesLedger
  <1>1. CASE pc'[d] = pc[d]
    <2>1. CASE pc[d] \notin Answers BY <1>1, <2>1 DEF Answers
    <2>2. CASE pc[d] \in Answers
      <3>1. ~Submit(d) BY <2>2 DEF Submit, Answers
      <3> QED BY <1>0, <1>1, <3>1, TransactionSteps
    <2> QED BY <2>1, <2>2
  <1>2. ASSUME pc[d] \in BeforeSubmit, ~Submit(d), pc'[d] # "SUCCESS" PROVE Matches(d)'
    BY <1>2, TransactionSteps DEF HandlersSound
  <1> USE DEF BeforeSubmit, BeforeClient, BeforeBuild
  <1>3. CASE Idle(d) BY <1>1, <1>3 DEF Idle
  <1>4. CASE Dies(d) BY <1>4 DEF Dies
  <1>5. CASE Arrive(d)
    <2>1. PICK body \in Bodies :
            Goto(d, IF Refused(body) THEN "BadRequest"
                    ELSE IF EscrowKey(body) \in EscrowErrors
                    THEN EscrowKey(body)
                    ELSE IF body.op \in Mints THEN "mirror" ELSE "account")
      BY <1>5 DEF Arrive
    <2>2. pc'[d] # "SUCCESS" BY <2>1, EscrowKeyTypes DEF Goto, TypeOK
    <2> QED BY <1>2, <1>5, <2>2 DEF Arrive, Submit
  <1>6. CASE Receipt(d)
    <2>1. tx' = tx /\ pc'[d] = IF tx[d].status = "accepted" THEN "SUCCESS" ELSE "unavailable"
      BY <1>6 DEF Receipt, Goto, TypeOK
    <2>2. tx[d].status \in {"accepted", "rejected"} BY <1>6 DEF Receipt
    <2> QED BY <2>1, <2>2
  <1>7. CASE CallFails(d)
    <2>1. Faults /\ pc'[d] = "unavailable" BY <1>7 DEF CallFails, Goto, Live, TypeOK
    <2> QED BY <2>1
  <1>8. CASE Moves(d) /\ ~Receipt(d) /\ ~CallFails(d)
    <2>1. /\ pc[d] \in BeforeSubmit
          /\ pc'[d] \in {"supply", "unavailable", "AccountNotFoundError", "addSpace", "submit"}
          /\ tx' = tx
      BY <1>8 DEF Moves, MirrorKnows, MirrorLacks, AccountMissing, FeeAliasUnknown,
         CreateClient, UploadMetadata, Assembled, MaxSupplyUndefined, Goto, TypeOK
    <2>2. tx[d].status = "unsent" BY <2>1 DEF HandlersSound
    <2> QED BY <2>1, <2>2
  <1>9. CASE Finds(d)
    <2>1. PICK s \in {"payer", "fees", "import", "upload", "submit"} \cup Ends :
            pc' = [pc EXCEPT ![d] = s]
      BY <1>9, FindsFacts
    <2>2. pc[d] \in BeforeBuild /\ tx' = tx BY <1>9, FindsFacts
    <2>3. tx[d].status = "unsent" BY <2>2 DEF HandlersSound
    <2>4. pc'[d] # "SUCCESS" BY <2>1 DEF Ends, TypeOK
    <2> QED BY <2>2, <2>3, <2>4
  <1>10. CASE FeeAliasFound(d)
    <2>1. pc'[d] \in {"fees", "import", "upload", "submit", "unavailable"}
      BY <1>10, AfterFeesFacts DEF FeeAliasFound, Goto, TypeOK
    <2> QED BY <1>2, <1>10, <2>1 DEF FeeAliasFound, Submit
  <1>11. CASE AddSpace(d) \/ SetCurrentSpace(d)
    <2>1. pc'[d] \in {"setSpace", "upload", "submit", "unavailable"}
      BY <1>11, AfterFeesFacts DEF AddSpace, SetCurrentSpace, Goto, TypeOK
    <2> QED BY <1>2, <1>11, <2>1 DEF AddSpace, SetCurrentSpace, Submit
  <1>12. CASE Submit(d)
    <2>1. pc'[d] = "receipt" \/ (Faults /\ pc'[d] = "unavailable")
      BY <1>12 DEF Submit, Acknowledge, Goto, TypeOK
    <2> QED BY <2>1 DEF Answers
  <1> QED
    BY <1>3, <1>4, <1>5, <1>6, <1>7, <1>8, <1>9, <1>10, <1>11, <1>12, HandlerSteps

-----------------------------------------------------------------------------
(* The invariants.                                                         *)

LEMMA InitBookkeeping == Init => Bookkeeping
  <1> SUFFICES ASSUME Init PROVE Bookkeeping OBVIOUS
  <1>1. \A d \in Calls : pc[d] = "new" /\ payer[d] = None /\ tx[d].status = "unsent"
    BY DEF Init, NoTx
  <1>2. client = None /\ \A d \in Calls : d # None BY NoneFacts DEF Init, TokenIds
  <1>3. HandlersSound /\ FeesSound
    BY <1>1 DEF HandlersSound, FeesSound, BeforeBuild
  <1>4. ClientsSound /\ UploadsHaveSpace
    BY <1>1, <1>2 DEF ClientsSound, UploadsHaveSpace
  <1>5. OwnAccountsOnly /\ SignaturesSuffice /\ CollectorsResolved
    BY <1>1 DEF OwnAccountsOnly, SignaturesSuffice, CollectorsResolved
  <1>6. MintsSound
    <2>1. \A d \in Calls : holder[d] = None /\ action[d] = None
      BY ConstantsAssumption DEF Init, TokenIds
    <2> QED BY <1>1, <2>1 DEF MintsSound
  <1>7. SuppliesSound
    <2>1. \A t \in TokenIds : cap[t] = None BY DEF Init
    <2> QED BY <1>1, <2>1 DEF SuppliesSound
  <1> QED BY <1>3, <1>4, <1>5, <1>6, <1>7, InitTypeOK DEF Bookkeeping

(* Handlers keep their books however they interleave, fail or die.         *)
THEOREM BookkeepingCorrect == Spec => []Bookkeeping
  <1>1. Bookkeeping /\ [Next]_vars => Bookkeeping'
    BY NextTypeOK, NextHandlersSound, NextFeesSound, NextTransactionsSound,
       NextClientsSound, NextMintsSound, NextSuppliesSound DEF Bookkeeping
  <1> QED BY InitBookkeeping, <1>1, PTL DEF Spec

(* Every reachable state is well-typed.                                    *)
THEOREM TypeCorrect == Spec => []TypeOK
  <1>1. Bookkeeping => TypeOK BY DEF Bookkeeping
  <1> QED BY BookkeepingCorrect, <1>1, PTL

(* Whatever is sent acts on accounts of the caller and at their expense.   *)
THEOREM OwnAccounts == Spec => []OwnAccountsOnly
  <1>1. Bookkeeping => OwnAccountsOnly BY DEF Bookkeeping
  <1> QED BY BookkeepingCorrect, <1>1, PTL

(* Whatever is sent bears the signatures of its payer and its account.     *)
THEOREM SignaturesAreEnough == Spec => []SignaturesSuffice
  <1>1. Bookkeeping => SignaturesSuffice BY DEF Bookkeeping
  <1> QED BY BookkeepingCorrect, <1>1, PTL

(* Custom fees named by alias are collected by accounts of the caller.     *)
THEOREM FeesCollectedByOwn == Spec => []CollectorsResolved
  <1>1. Bookkeeping => CollectorsResolved BY DEF Bookkeeping
  <1> QED BY BookkeepingCorrect, <1>1, PTL

(* The client of IPFS that calls share always has its space.               *)
THEOREM SharedClientReady == Spec => []UploadsHaveSpace
  <1>1. Bookkeeping => UploadsHaveSpace BY DEF Bookkeeping
  <1> QED BY BookkeepingCorrect, <1>1, PTL

(* A token asked to be finite never exceeds what was asked.                *)
THEOREM SuppliesStayCapped == Spec => []SupplyCapped
  <1>1. Bookkeeping => SupplyCapped
    <2> SUFFICES ASSUME Bookkeeping, NEW c \in Calls,
                        tx[c].status = "accepted", req[c].op \in Creates,
                        req[c].finite \/ Given(req[c].maxSupply)
                 PROVE  supply[c] <= IF Given(req[c].maxSupply) THEN req[c].maxSupply
                                     ELSE OrZero(req[c].initialSupply)
      BY DEF SupplyCapped
    <2>1. TypeOK /\ HandlersSound /\ SuppliesSound BY DEF Bookkeeping
    <2>2. req[c] \in Bodies /\ c \in TokenIds BY <2>1, SentIsKnown DEF TokenIds
    <2>3. TokenParameters(req[c]).finite BY DEF TokenParameters
    <2>4. cap[c] = TokenParameters(req[c]).max /\ Given(TokenParameters(req[c]).max)
      BY <2>1, <2>3 DEF SuppliesSound
    <2>5. supply[c] <= cap[c] BY <2>1, <2>2, <2>4 DEF SuppliesSound, Given
    <2>6. cap[c] = IF Given(req[c].maxSupply) THEN req[c].maxSupply
                   ELSE OrZero(req[c].initialSupply)
      BY <2>4 DEF TokenParameters, Given, OrZero
    <2> QED BY <2>5, <2>6
  <1> QED BY BookkeepingCorrect, <1>1, PTL

(* An answer tells what became of the transaction on the ledger.           *)
THEOREM AnswersMatchLedger == Spec => []AnswerMatchesLedger
  <1>1. Init => AnswerMatchesLedger BY DEF Init, AnswerMatchesLedger, Answers
  <1>2. Bookkeeping /\ AnswerMatchesLedger /\ [Next]_vars => AnswerMatchesLedger'
    BY NextAnswersMatch DEF Bookkeeping
  <1> QED BY BookkeepingCorrect, <1>1, <1>2, PTL DEF Spec

(* Whoever mints a token acts as the account its creator named.            *)
THEOREM MintsUseNamedKey == Spec => []MintedWithNamedKey
  <1>1. Bookkeeping => MintedWithNamedKey
    <2> SUFFICES ASSUME Bookkeeping, NEW m \in Calls, NEW c \in Calls,
                        tx[m].status # "unsent", req[m].op \in Mints, req[m].token = c
                 PROVE  /\ tx[c].status = "accepted" /\ req[c].op \in Creates
                        /\ tx[m].account = IF req[c].supplyKey = "default"
                                           THEN tx[c].account ELSE req[c].supplyKey
      BY DEF MintedWithNamedKey
    <2>1. TypeOK /\ MintsSound /\ OwnAccountsOnly BY DEF Bookkeeping
    <2>2. tx[m].account \in Accounts BY <2>1 DEF OwnAccountsOnly, AccountsOf
    <2>3. tx[m].account = action[m] BY <2>1 DEF MintsSound
    <2>4. tx[m].account # None BY <2>2, NoneFacts
    <2>5. holder[c] = tx[m].account BY <2>1, <2>3, <2>4 DEF MintsSound
    <2>6. /\ tx[c].status = "accepted" /\ req[c].op \in Creates
          /\ holder[c] = tx[c].supplyKey
      BY <2>1, <2>4, <2>5 DEF MintsSound
    <2>7. tx[c].supplyKey = SupplyKey(c) /\ tx[c].account = action[c]
      BY <2>1, <2>6 DEF MintsSound
    <2>8. SupplyKey(c) # None BY <2>4, <2>5, <2>6, <2>7
    <2>9. SupplyKey(c) = IF req[c].supplyKey = "default" THEN action[c] ELSE req[c].supplyKey
      BY <2>8, ConstantsAssumption DEF SupplyKey
    <2> QED BY <2>5, <2>6, <2>7, <2>9
  <1> QED BY BookkeepingCorrect, <1>1, PTL

-----------------------------------------------------------------------------
(* TokenService implements Delegation.                                     *)

LEMMA RightsInit == Init => Rights!Init
  BY DEF Init, Registry!Init, Registry!NoRow, NoTx, Rights!Init

LEMMA StepFacts ==
  ASSUME TypeOK, HandlersSound, NEW c \in Calls, Step(c)
  PROVE  /\ pc[c] # "new" /\ UNCHANGED <<gmAccounts, req>>
         /\ \E s \in Stages \cup Answers : pc' = [pc EXCEPT ![c] = s]
  <1> USE DEF Stages, Answers
  <1>1. CASE Moves(c)
    <2>1. pc[c] # "new"
      BY <1>1 DEF Moves, MirrorKnows, MirrorLacks, AccountMissing, FeeAliasUnknown,
         CreateClient, UploadMetadata, MaxSupplyUndefined,
         Receipt, CallFails, Live
    <2> QED BY <1>1, <2>1, MovesFacts
  <1>2. CASE Finds(c) BY <1>2, FindsFacts DEF Ends
  <1>3. CASE FeeAliasFound(c) BY <1>3, AfterFeesFacts DEF FeeAliasFound, Goto
  <1>4. CASE AddSpace(c) BY <1>4 DEF AddSpace, Goto
  <1>5. CASE SetCurrentSpace(c) BY <1>5, AfterFeesFacts DEF SetCurrentSpace, Goto
  <1>6. CASE Submit(c) BY <1>6 DEF Submit, Acknowledge, Goto
  <1> QED BY <1>1, <1>2, <1>3, <1>4, <1>5, <1>6 DEF Step, Moves, Finds

LEMMA RightsStep ==
  ASSUME Bookkeeping, Bookkeeping', [Next]_vars
  PROVE  [Rights!Next]_(Rights!vars)
  <1> DEFINE owner == [a \in Accounts |-> gmAccounts[a].user]
             caller == [c \in Calls |-> IF pc[c] = "new" THEN None ELSE req[c].user]
             effect == [c \in Calls |->
               IF tx[c].status = "accepted"
               THEN [account |-> tx[c].account, payer |-> tx[c].payer] ELSE None]
  <1> USE DEF Bookkeeping
  <1>1. ASSUME UNCHANGED <<owner, caller, effect>> PROVE UNCHANGED Rights!vars
    BY <1>1 DEF Rights!vars
  <1>2. CASE RegisterAccount
    <2>1. PICK row \in Rows :
            /\ ~Registered(row.id)
            /\ gmAccounts' = [gmAccounts EXCEPT ![row.id] =
                 [user |-> row.user, alias |-> row.alias]]
      BY <1>2 DEF RegisterAccount, Registry!Register, Registered
    <2>2. row.id \in Accounts /\ row.user \in Users BY ConstantsAssumption
    <2>3. owner' = [owner EXCEPT ![row.id] = row.user]
      BY <2>1, <2>2 DEF TypeOK
    <2>4. owner[row.id] = None BY <2>1, <2>2 DEF Registered, Registry!Registered
    <2>5. UNCHANGED <<caller, effect>> BY <1>2 DEF RegisterAccount, Registry!Register, Registered
    <2>6. Rights!Register(row.id) BY <2>2, <2>3, <2>4, <2>5 DEF Rights!Register
    <2> QED BY <2>2, <2>6 DEF Rights!Next
  <1>3. ASSUME NEW c \in Calls, Arrive(c) PROVE Rights!Next
    <2>1. PICK body \in Bodies, s \in Stages \cup Answers :
            /\ req' = [req EXCEPT ![c] = body]
            /\ pc' = [pc EXCEPT ![c] = s]
      <3>1. PICK body \in Bodies :
              /\ req' = [req EXCEPT ![c] = body]
              /\ Goto(c, IF Refused(body) THEN "BadRequest"
                         ELSE IF EscrowKey(body) \in EscrowErrors
                         THEN EscrowKey(body)
                         ELSE IF body.op \in Mints THEN "mirror" ELSE "account")
        BY <1>3 DEF Arrive
      <3> QED BY <3>1, EscrowKeyTypes DEF Goto, Stages, Answers
    <2>2. pc[c] = "new" /\ UNCHANGED <<gmAccounts, tx>> BY <1>3 DEF Arrive
    <2>3. caller' = [caller EXCEPT ![c] = body.user]
      BY <2>1 DEF TypeOK, Stages, Answers
    <2>4. caller[c] = None /\ body.user \in Users BY <2>2, BodyTypes
    <2>5. UNCHANGED <<owner, effect>> BY <2>2
    <2>6. Rights!Call(c) BY <2>3, <2>4, <2>5 DEF Rights!Call
    <2> QED BY <2>6 DEF Rights!Next
  <1>4. ASSUME NEW c \in Calls, Accept(c) PROVE Rights!Next
    <2>1. /\ tx[c].status = "pending" /\ tx' = [tx EXCEPT ![c].status = "accepted"]
          /\ UNCHANGED <<gmAccounts, req, pc>>
      BY <1>4 DEF Accept
    <2>2. pc[c] # "new"
      BY <2>1 DEF HandlersSound, BeforeSubmit, BeforeClient, BeforeBuild
    <2>3. effect' = [effect EXCEPT ![c] =
            [account |-> tx[c].account, payer |-> tx[c].payer]]
      <3>1. /\ tx'[c].status = "accepted"
            /\ tx'[c].account = tx[c].account /\ tx'[c].payer = tx[c].payer
            /\ \A d \in Calls \ {c} : tx'[d] = tx[d]
        BY <2>1 DEF TypeOK
      <3> QED BY <3>1
    <2>4. effect[c] = None BY <2>1
    <2>5. {tx[c].account, tx[c].payer} \subseteq {a \in Accounts : owner[a] = caller[c]}
      BY <2>1, <2>2 DEF OwnAccountsOnly, AccountsOf
    <2>6. caller[c] # None BY <2>2, FindTypes, NoneFacts
    <2>7. UNCHANGED <<owner, caller>> BY <2>1
    <2>8. Rights!Act(c) BY <2>3, <2>4, <2>5, <2>6, <2>7 DEF Rights!Act
    <2> QED BY <2>8 DEF Rights!Next
  <1>5. ASSUME NEW c \in Calls, Reject(c) PROVE UNCHANGED <<owner, caller, effect>>
    BY <1>5 DEF Reject, TypeOK
  <1>6. CASE RenameAccount
    <2>1. PICK rename \in Renames :
            gmAccounts' = [gmAccounts EXCEPT ![rename.id].alias = rename.alias]
      BY <1>6 DEF RenameAccount, Registry!Rename
    <2>2. \A a \in Accounts : gmAccounts'[a].user = gmAccounts[a].user
      BY <2>1 DEF TypeOK
    <2> QED BY <1>1, <1>6, <2>2 DEF RenameAccount, Registry!Rename
  <1>7. ASSUME UNCHANGED <<gmAccounts, tx>>,
               \A d \in Calls : (pc'[d] = "new" <=> pc[d] = "new") /\ req'[d] = req[d]
        PROVE  UNCHANGED <<owner, caller, effect>>
    BY <1>7
  <1>8. CASE Crash
    <2>1. \A d \in Calls : pc'[d] = IF pc[d] \in Stages THEN "crashed" ELSE pc[d]
      BY <1>8 DEF Crash, Live
    <2> QED BY <1>1, <1>7, <1>8, <2>1 DEF Crash, Stages
  <1>9. ASSUME NEW c \in Calls, Step(c) PROVE UNCHANGED <<owner, caller, effect>>
    <2>1. /\ pc[c] # "new" /\ UNCHANGED <<gmAccounts, req>>
          /\ \E s \in Stages \cup Answers : pc' = [pc EXCEPT ![c] = s]
      BY <1>9, StepFacts
    <2>2. \A d \in Calls : (pc'[d] = "new" <=> pc[d] = "new")
      BY <2>1 DEF TypeOK, Stages, Answers
    <2>3. CASE UNCHANGED tx BY <1>7, <2>1, <2>2, <2>3
    <2>4. CASE Submit(c)
      <3>1. tx[c].status = "unsent"
        BY <2>4 DEF Submit, HandlersSound, BeforeSubmit, BeforeClient, BeforeBuild
      <3>2. UNCHANGED effect BY <2>4, <3>1 DEF Submit, TypeOK
      <3>3. UNCHANGED <<owner, caller>> BY <2>1, <2>2
      <3> QED BY <3>2, <3>3
    <2>5. UNCHANGED tx \/ Submit(c)
      BY <1>9 DEF Step, MirrorKnows, MirrorLacks, FindSupplyAccount, FindAccount,
         FindPayer, AccountMissing, FeeAliasFound, FeeAliasUnknown, CreateClient,
         AddSpace, SetCurrentSpace, UploadMetadata, MaxSupplyUndefined,
         Receipt, CallFails
    <2> QED BY <2>3, <2>4, <2>5
  <1>10. CASE Quiescent \/ UNCHANGED vars
    <2>1. UNCHANGED <<gmAccounts, req, pc, tx>> BY <1>10 DEF Quiescent, vars
    <2> QED BY <1>1, <1>7, <2>1
  <1> QED
    BY <1>1, <1>2, <1>3, <1>4, <1>5, <1>6, <1>8, <1>9, <1>10 DEF Next, Settle

(* Effects on the ledger are those that Delegation allows.                 *)
THEOREM ImplementsDelegation == Spec => RightsSpec
  <1>1. Bookkeeping /\ Bookkeeping' /\ [Next]_vars => [Rights!Next]_(Rights!vars)
    BY RightsStep
  <1> QED BY RightsInit, BookkeepingCorrect, <1>1, PTL DEF Spec, RightsSpec, Rights!Spec

-----------------------------------------------------------------------------
(* Which mints are given up.                                               *)

(* The requests that meet neither of the two faults of mintNftTransaction: *)
(* a list with an object in it, an amount without metadata.                *)
Servable(body) ==
  body.op = "mintNft" => ~Unbound(body) /\ (body.amount # 0 => body.metadata # None)

(* One of the accounts that would sign is not the caller's, or its key is  *)
(* not the one decrypted.                                                  *)
CannotSign(c) == \E a \in Signers(c) : a \in Accounts /\ Registered(a) /\ ~CanSignFor(c, a)

(* A mint that had found its account is only given up for that reason.     *)
MintsExcused ==
  \A c \in Calls :
    pc[c] # "new" /\ req[c].op = "mintNft" =>
      /\ pc[c] = "payer" => action[c] \in AccountsOf(req[c].user)
      /\ pc[c] = "unavailable" /\ action[c] # None /\ tx[c].status = "unsent"
         => CannotSign(c)

LEMMA MintStages ==
  ASSUME NEW body \in Bodies, body.op = "mintNft", Servable(body)
  PROVE  /\ Assembled(body) = "submit"
         /\ AfterInit(body) \in {"upload", "submit"}
         /\ AfterBuild(body) \in {"import", "upload", "submit"}
  <1>1. AliasFees(body.fees) = {} BY BodyTypes DEF Creates
  <1>2. Assembled(body) = "submit" BY DEF Assembled, Malformed, Creates
  <1>3. AfterInit(body) \in {"upload", "submit"} BY <1>2 DEF AfterInit, Servable
  <1>4. AfterFees(body) \in {"import", "upload", "submit"}
    BY <1>2, <1>3 DEF AfterFees, WithClient, KeyMalformed, Creates
  <1> QED BY <1>1, <1>2, <1>3, <1>4 DEF AfterBuild

(* A row stays with its user, another's as well as the caller's.           *)
LEMMA RowsKept ==
  ASSUME TypeOK, [Next]_vars, NEW a \in Accounts, Registered(a)
  PROVE  Registered(a)' /\ gmAccounts'[a].user = gmAccounts[a].user
  <1>1. gmAccounts[a].user \in Users
    BY DEF TypeOK, Registered, Registry!Registered
  <1>2. PICK u \in Users : u = gmAccounts[a].user BY <1>1
  <1>3. AccountsOf(u) \subseteq AccountsOf(u)' BY OwnersKept
  <1>4. a \in AccountsOf(u)' BY <1>2, <1>3 DEF AccountsOf
  <1>5. gmAccounts'[a].user = gmAccounts[a].user BY <1>2, <1>4 DEF AccountsOf
  <1> QED BY <1>1, <1>5, NoneFacts DEF Registered, Registry!Registered

LEMMA ExcusesKept ==
  ASSUME TypeOK, [Next]_vars, NEW d \in Calls, CannotSign(d),
         UNCHANGED <<req[d], action[d], payer[d]>>
  PROVE  CannotSign(d)'
  <1>1. PICK a \in Signers(d) : a \in Accounts /\ Registered(a) /\ ~CanSignFor(d, a)
    BY DEF CannotSign
  <1>2. Registered(a)' /\ gmAccounts'[a].user = gmAccounts[a].user BY <1>1, RowsKept
  <1>3. a \in Signers(d)' BY <1>1 DEF Signers, Operator
  <1>4. ~CanSignFor(d, a)' BY <1>1, <1>2 DEF CanSignFor, EscrowKey
  <1> QED BY <1>1, <1>2, <1>3, <1>4 DEF CannotSign

(* buildClientAndSigningKeys gives up for want of a key only.              *)
LEMMA BuildExcused ==
  ASSUME TypeOK, NEW d \in Calls, req[d] \in Bodies, req[d].op = "mintNft",
         Servable(req[d]), NEW accounts \in SUBSET Accounts, Build(d, accounts),
         \A a \in accounts : Registered(a), UNCHANGED <<req, gmAccounts>>,
         Signers(d)' = accounts
  PROVE  /\ pc'[d] # "payer" /\ pc'[d] # "new"
         /\ pc'[d] = "unavailable" => CannotSign(d)'
  <1>1. CASE \A a \in accounts : CanSignFor(d, a)
    BY <1>1, MintStages DEF Build, Goto, TypeOK
  <1>2. CASE \E a \in accounts : ~CanSignFor(d, a)
    <2>1. PICK a \in accounts : ~CanSignFor(d, a) BY <1>2
    <2>2. ~CanSignFor(d, a)' /\ Registered(a)'
      BY <2>1 DEF CanSignFor, EscrowKey, Registered, Registry!Registered
    <2>3. CannotSign(d)' BY <2>1, <2>2 DEF CannotSign
    <2>4. pc'[d] \in {"DecryptionFailedError", "unavailable"}
      BY <2>1 DEF Build, Goto, TypeOK
    <2> QED BY <2>3, <2>4
  <1> QED BY <1>1, <1>2

LEMMA NextMintsExcused ==
  ASSUME ~Faults, \A body \in Bodies : Servable(body),
         Bookkeeping, MintsExcused, [Next]_vars
  PROVE  MintsExcused'
  <1>0. TypeOK /\ HandlersSound /\ FeesSound /\ MintsSound BY DEF Bookkeeping
  <1> SUFFICES ASSUME NEW d \in Calls, pc'[d] # "new", req'[d].op = "mintNft"
      PROVE  /\ pc'[d] = "payer" => action'[d] \in AccountsOf(req[d].user)'
             /\ pc'[d] = "unavailable" /\ action'[d] # None /\ tx'[d].status = "unsent"
                => CannotSign(d)'
    BY DEF MintsExcused
  <1>1. tx'[d].status = "unsent" => tx[d].status = "unsent"
    BY <1>0, TransactionSteps DEF Submit, TypeOK
  <1>2. CASE Idle(d)
    <2>1. /\ pc[d] = "payer" => action[d] \in AccountsOf(req[d].user)
          /\ pc[d] = "unavailable" /\ action[d] # None /\ tx[d].status = "unsent"
             => CannotSign(d)
      BY <1>2 DEF Idle, MintsExcused
    <2>2. req[d].user \in Users BY <1>0, <1>2, FindTypes DEF Idle
    <2>3. AccountsOf(req[d].user) \subseteq AccountsOf(req[d].user)'
      BY <1>0, <1>2, <2>2, OwnersKept DEF Idle, AccountsOf
    <2> QED BY <1>0, <1>1, <1>2, <2>1, <2>3, ExcusesKept DEF Idle
  <1>3. CASE Arrive(d)
    <2>1. action'[d] = None
      BY <1>0, <1>3 DEF Arrive, MintsSound, BeforeBuild
    <2>2. pc'[d] # "payer"
      BY <1>0, <1>3, EscrowKeyTypes DEF Arrive, Goto, TypeOK
    <2> QED BY <2>1, <2>2
  <1> DEFINE Mint == pc[d] # "new" /\ req[d] \in Bodies /\ req[d].op = "mintNft"
  <1>4. CASE Moves(d)
    <2>1. Mint /\ UNCHANGED <<req[d], action[d]>>
      BY <1>0, <1>4, MovesFacts
      DEF Moves, MirrorKnows, MirrorLacks, AccountMissing, FeeAliasUnknown, CreateClient,
          UploadMetadata, MaxSupplyUndefined, Receipt, CallFails, Live, Stages, locals,
          TypeOK
    <2>2. pc'[d] # "payer" BY <1>0, <1>4, MovesFacts DEF TypeOK
    <2>3. CASE MirrorKnows(d) \/ AccountMissing(d) \/ FeeAliasUnknown(d) \/ CreateClient(d)
      BY <1>0, <2>2, <2>3
      DEF MirrorKnows, AccountMissing, FeeAliasUnknown, CreateClient, Goto, TypeOK
    <2>4. CASE MirrorLacks(d)
      BY <1>0, <2>1, <2>2, <2>4 DEF MirrorLacks, MintsSound, BeforeBuild
    <2>5. CASE UploadMetadata(d)
      BY <1>0, <2>1, <2>2, <2>5, MintStages DEF UploadMetadata, Goto, TypeOK
    <2>6. CASE Receipt(d)
      BY <1>1, <2>2, <2>6 DEF Receipt
    <2> QED
      BY <1>4, <2>1, <2>3, <2>4, <2>5, <2>6
      DEF Moves, MaxSupplyUndefined, Creates, CallFails
  <1>5. ASSUME Finds(d) PROVE Mint /\ UNCHANGED <<req, gmAccounts>>
    BY <1>0, <1>5, FindsFacts DEF BeforeBuild, TypeOK
  <1>6. CASE FindSupplyAccount(d)
    <2>1. Mint /\ UNCHANGED <<req, gmAccounts, payer>>
      BY <1>5, <1>6 DEF Finds, FindSupplyAccount
    <2>2. pc[d] = "supply" /\ payer[d] = None
      BY <1>0, <1>6 DEF FindSupplyAccount, HandlersSound, BeforeBuild
    <2>3. CASE holder[req[d].token] \in AccountsOf(req[d].user)
      <3> DEFINE a == holder[req[d].token]
      <3>1. Proceed(d, a) BY <1>6, <2>3 DEF FindSupplyAccount
      <3>2. action'[d] = a /\ Signers(d)' = {a}
        BY <1>0, <2>1, <2>2, <3>1 DEF Proceed, Signers, Operator, TypeOK
      <3>3. a \in Accounts /\ Registered(a)
        BY <1>0, <2>1, <2>3, BodyTypes, NoneFacts
        DEF AccountsOf, Registered, Registry!Registered
      <3>4. CASE req[d].payerId # None
        <4>1. pc'[d] = "payer" BY <1>0, <3>1, <3>4 DEF Proceed, Goto, TypeOK
        <4> QED BY <2>1, <2>3, <3>2, <4>1 DEF AccountsOf
      <3>5. CASE req[d].payerId = None
        <4>1. Build(d, {a}) BY <3>1, <3>5 DEF Proceed
        <4>2. Servable(req[d]) BY <2>1
        <4> HIDE DEF a
        <4>3. {a} \in SUBSET Accounts /\ \A b \in {a} : Registered(b) BY <3>3
        <4> QED BY <1>0, <2>1, <3>2, <4>1, <4>2, <4>3, BuildExcused
      <3> QED BY <3>4, <3>5
    <2>4. CASE holder[req[d].token] \notin AccountsOf(req[d].user)
      <3>1. pc'[d] = "unavailable" /\ action'[d] = action[d]
        BY <1>0, <1>6, <2>4 DEF FindSupplyAccount, Goto, TypeOK
      <3>2. action[d] = None BY <1>0, <2>2 DEF MintsSound, BeforeBuild
      <3> QED BY <3>1, <3>2
    <2> QED BY <2>3, <2>4
  <1>7. CASE FindAccount(d)
    BY <1>0, <1>5, <1>7 DEF Finds, FindAccount, MintsSound, Mints
  <1>8. CASE FindPayer(d)
    <2>1. Mint /\ UNCHANGED <<req, gmAccounts, action>>
      BY <1>5, <1>8 DEF Finds, FindPayer
    <2>2. PICK a \in UserAccountByAlias(req[d].user, req[d].payerId) :
            payer' = [payer EXCEPT ![d] = a] /\ Build(d, {action[d], a})
      BY <1>8 DEF FindPayer
    <2>3. a \in Accounts /\ Registered(a)
      BY <1>0, <2>1, <2>2, BodyTypes, NoneFacts, FindTypes
      DEF UserAccountByAlias, UserAccountIdByAlias, AccountsOf, Registered,
          Registry!Registered
    <2>4. action[d] \in AccountsOf(req[d].user)
      BY <1>8, <2>1 DEF FindPayer, MintsExcused
    <2>5. action[d] \in Accounts /\ Registered(action[d])
      BY <2>1, <2>4, BodyTypes, NoneFacts DEF AccountsOf, Registered, Registry!Registered
    <2>6. Signers(d)' = {action[d], a}
      BY <1>0, <2>1, <2>2, <2>3, NoneFacts DEF Signers, Operator, TypeOK
    <2>7. Servable(req[d]) BY <2>1
    <2>8. /\ {action[d], a} \in SUBSET Accounts
          /\ \A b \in {action[d], a} : Registered(b)
      BY <2>3, <2>5
    <2> QED BY <1>0, <2>1, <2>2, <2>6, <2>7, <2>8, BuildExcused
  <1>9. CASE FeeAliasFound(d)
    <2>1. pc[d] = "fees" /\ lookups[d] # {} /\ UNCHANGED req BY <1>9 DEF FeeAliasFound
    <2>2. Mint BY <1>0, <2>1 DEF TypeOK
    <2>3. lookups[d] \subseteq AliasFees(req[d].fees) BY <1>0, <2>2 DEF FeesSound
    <2> QED BY <2>1, <2>2, <2>3, BodyTypes DEF Creates
  <1>10. CASE AddSpace(d) \/ SetCurrentSpace(d)
    <2>1. Mint BY <1>0, <1>10 DEF AddSpace, SetCurrentSpace, TypeOK
    <2>2. pc'[d] \in {"setSpace", "upload", "submit"}
      BY <1>0, <1>10, <2>1, MintStages DEF AddSpace, SetCurrentSpace, Goto, TypeOK
    <2> QED BY <2>2
  <1>11. CASE Submit(d)
    BY <1>0, <1>11 DEF Submit, Acknowledge, Goto, TypeOK
  <1> QED
    BY <1>0, <1>2, <1>3, <1>4, <1>6, <1>7, <1>8, <1>9, <1>10, <1>11, HandlerSteps
    DEF Dies, Finds

(* Without faults, those two faults of mintNftTransaction are all that is  *)
(* wrong with the metadata of NFTs: every other mint that has found its    *)
(* account and can be signed is sent, with metadata the caller gave.       *)
THEOREM OtherMetadataServed ==
  ASSUME ~Faults, \A body \in Bodies : Servable(body)
  PROVE  Spec => []MetadataServed
  <1>1. Init => MintsExcused BY DEF Init, MintsExcused
  <1>2. Bookkeeping /\ MintsExcused /\ [Next]_vars => MintsExcused'
    BY NextMintsExcused
  <1>3. Bookkeeping /\ MintsExcused => MetadataServed
    <2> SUFFICES ASSUME Bookkeeping, MintsExcused, NEW c \in Calls, req[c].op = "mintNft"
        PROVE  /\ /\ pc[c] = "unavailable" /\ action[c] # None
                  /\ \A a \in Signers(c) : CanSignFor(c, a)
                  => tx[c].status # "unsent"
               /\ tx[c].status # "unsent" => None \notin Attached(req[c])
      BY DEF MetadataServed
    <2>1. ASSUME pc[c] = "unavailable", action[c] # None,
                 \A a \in Signers(c) : CanSignFor(c, a)
          PROVE  tx[c].status # "unsent"
      BY <2>1 DEF MintsExcused, CannotSign
    <2>2. ASSUME tx[c].status # "unsent" PROVE None \notin Attached(req[c])
      <3>1. req[c] \in Bodies BY <2>2, SentIsKnown DEF Bookkeeping
      <3>2. req[c].metadatas \in Seq(Contents)
        BY <3>1, ConstantsAssumption DEF Body
      <3>3. \A i \in DOMAIN req[c].metadatas : req[c].metadatas[i] # None
        BY <3>2, ConstantsAssumption
      <3> QED BY <3>1, <3>3 DEF Attached, Servable
    <2> QED BY <2>1, <2>2
  <1> QED BY <1>1, <1>2, <1>3, BookkeepingCorrect, PTL DEF Spec
=============================================================================
