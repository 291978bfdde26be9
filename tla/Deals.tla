-------------------------------- MODULE Deals --------------------------------
(***************************************************************************)
(* The deals of the GoMint API as data: what a deal transfers, when it is  *)
(* acceptable, and what becomes of it when names are replaced by accounts. *)
(*                                                                         *)
(* The three lists of the DTO are one sequence of legs.  A leg credits     *)
(* (amount > 0) or debits (amount < 0) an account with hbar or a fungible  *)
(* token (nft = 0), or is one half of the NFT transfer number nft: -1 for  *)
(* the sender, 1 for the receiver.  The serial numbers of the NFT          *)
(* transfers are kept apart, as they are filled in later.                  *)
(***************************************************************************)
EXTENDS Integers, Sequences, Functions

CONSTANTS
  Accounts,          \* account ids, '0.0.n'
  Aliases,           \* other names a leg may use for an account of its author
  Tokens,            \* hbar and the tokens of the ledger
  Serials,           \* serial numbers of NFTs
  None               \* undefined

Placeholders == {"receiver", "payer"}
Refs == Accounts \cup Aliases \cup Placeholders

Leg == [account: Refs, token: Tokens, nft: Nat, amount: Int]
Deal == [legs: Seq(Leg), serials: Seq(Serials \cup {None})]

ASSUME NamesAssumption ==
  /\ Accounts \cap Aliases = {}
  /\ (Accounts \cup Aliases) \cap Placeholders = {}
  /\ None \notin Refs /\ None \notin Serials /\ None \notin Deal

(* Legs about the same fungible token, or hbar, and what they add up to.   *)
Fungible(d, token) ==
  {i \in DOMAIN d.legs : d.legs[i].nft = 0 /\ d.legs[i].token = token}

Amounts(d) == [i \in DOMAIN d.legs |-> d.legs[i].amount]

(* validateAmounts                                                         *)
Balanced(d) ==
  \A token \in Tokens : SumFunctionOnSet(Amounts(d), Fungible(d, token)) = 0

(* The legs whose account is an alias, to be looked up (shouldSwap).       *)
AliasLegs(d) == {i \in DOMAIN d.legs : d.legs[i].account \in Aliases}

SetAccount(d, i, account) == [d EXCEPT !.legs[i].account = account]

(* swapAccountId: account for every occurrence of a placeholder.           *)
SwapAccountId(d, placeholder, account) ==
  [d EXCEPT !.legs = [i \in DOMAIN @ |->
     IF @[i].account = placeholder THEN [@[i] EXCEPT !.account = account] ELSE @[i]]]

(* The serial number of the first NFT transfer, unless the deal fixes it.  *)
LacksSerial(d) == d.serials # <<>> /\ d.serials[1] = None

SetSerial(d, serial) ==
  IF LacksSerial(d) THEN [d EXCEPT !.serials[1] = serial] ELSE d

(* What the SDK can put in a transaction: account ids and serial numbers.  *)
Executable(d) ==
  /\ \A i \in DOMAIN d.legs : d.legs[i].account \in Accounts
  /\ \A k \in DOMAIN d.serials : d.serials[k] # None

RequiredSigners_Fungible(d) ==
  {d.legs[i].account :
     i \in {j \in DOMAIN d.legs : d.legs[j].amount < 0 /\ d.legs[j].nft = 0}}

(* findRequiredSigners: whoever gives something away in some leg.          *)
RequiredSigners(d) ==
  {d.legs[i].account : i \in {j \in DOMAIN d.legs : d.legs[j].amount < 0}}

-----------------------------------------------------------------------------
(* Reference definitions.                                                  *)

(* Whose assets the ledger moves away: it adds up the legs of an account   *)
(* and a token, and takes each NFT from its sender.  The fee is no leg.    *)
NetDebits(d) ==
  {a \in Accounts :
     \/ \E token \in Tokens :
          SumFunctionOnSet(Amounts(d),
            {i \in Fungible(d, token) : d.legs[i].account = a}) < 0
     \/ \E i \in DOMAIN d.legs :
          d.legs[i].nft # 0 /\ d.legs[i].amount < 0 /\ d.legs[i].account = a}

(* Whose signatures the ledger asks for: theirs and that of the account it *)
(* charges the fee to, which the transaction's id names.                   *)
LedgerSigners(d, feePayer) == {feePayer} \cup NetDebits(d)

(* b moves what d moves, leg by leg, between the accounts d names; one     *)
(* account stands for each placeholder, one serial for each that is open.  *)
Instantiates(b, d) ==
  /\ DOMAIN b.legs = DOMAIN d.legs
  /\ \A i \in DOMAIN d.legs :
       /\ b.legs[i].token = d.legs[i].token
       /\ b.legs[i].nft = d.legs[i].nft
       /\ b.legs[i].amount = d.legs[i].amount
       /\ d.legs[i].account \notin Placeholders =>
            b.legs[i].account = d.legs[i].account
  /\ \A i, j \in DOMAIN d.legs :
       d.legs[i].account = d.legs[j].account => b.legs[i].account = b.legs[j].account
  /\ DOMAIN b.serials = DOMAIN d.serials
  /\ \A k \in DOMAIN d.serials : d.serials[k] # None => b.serials[k] = d.serials[k]
=============================================================================
