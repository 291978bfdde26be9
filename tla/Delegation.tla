----------------------------- MODULE Delegation ------------------------------
(***************************************************************************)
(* What GoMint promises about acting on the ledger for its users.  An      *)
(* account comes to belong to one user for good, and a call has at most    *)
(* one effect on the ledger, on and at the expense of accounts of the user *)
(* who called.  How accounts are named, found and signed for is the        *)
(* business of TokenService.                                               *)
(***************************************************************************)

CONSTANTS
  Users,
  Accounts,
  Calls,
  None

VARIABLES
  owner,             \* whose an account is, None before it is registered
  caller,            \* who makes each call, None before it is made
  effect             \* accounts acted on and charged by each call, None before

vars == <<owner, caller, effect>>

Init ==
  /\ owner = [a \in Accounts |-> None]
  /\ caller = [c \in Calls |-> None]
  /\ effect = [c \in Calls |-> None]

Register(a) ==
  /\ owner[a] = None
  /\ \E u \in Users : owner' = [owner EXCEPT ![a] = u]
  /\ UNCHANGED <<caller, effect>>

Call(c) ==
  /\ caller[c] = None
  /\ \E u \in Users : caller' = [caller EXCEPT ![c] = u]
  /\ UNCHANGED <<owner, effect>>

Act(c) ==
  /\ caller[c] # None
  /\ effect[c] = None
  /\ \E account, payer \in {a \in Accounts : owner[a] = caller[c]} :
       effect' = [effect EXCEPT ![c] = [account |-> account, payer |-> payer]]
  /\ UNCHANGED <<owner, caller>>

Next ==
  \/ \E a \in Accounts : Register(a)
  \/ \E c \in Calls : Call(c) \/ Act(c)

Spec == Init /\ [][Next]_vars
=============================================================================
