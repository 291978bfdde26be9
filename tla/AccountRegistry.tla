--------------------------- MODULE AccountRegistry ---------------------------
(***************************************************************************)
(* What the rest of GoMint relies on when it reads the table gm_accounts   *)
(* between two awaits: an account is registered once, for one user, and    *)
(* from then on only its alias changes.  AccountService implements this    *)
(* for the users of one network; the deal and the token handlers take the  *)
(* actions of this module for what other calls do meanwhile.               *)
(***************************************************************************)

CONSTANTS
  Accounts,          \* account ids
  Users,             \* rows of the users table
  Names,             \* what may be stored as an alias
  None               \* null

VARIABLE rows        \* user and alias of each account, None before

NoRow == [user |-> None, alias |-> None]

Init == rows = [a \in Accounts |-> NoRow]

Registered(a) == rows[a].user # None

Register(a, user, alias) ==
  /\ ~Registered(a)
  /\ rows' = [rows EXCEPT ![a] = [user |-> user, alias |-> alias]]

Rename(a, alias) ==
  /\ Registered(a)
  /\ rows' = [rows EXCEPT ![a].alias = alias]

Next ==
  \E a \in Accounts, alias \in Names :
    Rename(a, alias) \/ \E user \in Users : Register(a, user, alias)

Spec == Init /\ [][Next]_rows
=============================================================================
