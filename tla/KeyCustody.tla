----------------------------- MODULE KeyCustody -----------------------------
(***************************************************************************)
(* What GoMint promises about the keys it generates for its users.  The    *)
(* private key of a ledger account is worth the account, so a key is put   *)
(* in the vault (the table gm_keys) before any account is opened on it,    *)
(* an account is only registered (gm_accounts) once the ledger has opened  *)
(* it, and nothing is ever taken back.  How the handlers, the database and *)
(* the ledger bring this about is the business of AccountService.          *)
(***************************************************************************)

CONSTANT Keys        \* the private keys that can be generated

VARIABLES
  vault,             \* keys whose encrypted form is stored
  opened,            \* keys that control an account of the ledger
  registered         \* keys linked to a registered account

vars == <<vault, opened, registered>>

TypeOK ==
  /\ vault \subseteq Keys
  /\ opened \subseteq Keys
  /\ registered \subseteq Keys

Init ==
  /\ vault = {}
  /\ opened = {}
  /\ registered = {}

Deposit(k) ==
  /\ vault' = vault \cup {k}
  /\ UNCHANGED <<opened, registered>>

Open(k) ==
  /\ k \in vault
  /\ opened' = opened \cup {k}
  /\ UNCHANGED <<vault, registered>>

Register(k) ==
  /\ k \in opened
  /\ registered' = registered \cup {k}
  /\ UNCHANGED <<vault, opened>>

Next == \E k \in Keys : Deposit(k) \/ Open(k) \/ Register(k)

Spec == Init /\ [][Next]_vars

-----------------------------------------------------------------------------

(* An account is controlled by a stored key, and a registered account is   *)
(* one the ledger has.                                                     *)
Custody == registered \subseteq opened /\ opened \subseteq vault
=============================================================================
