------------------------------ MODULE DealBook -------------------------------
(***************************************************************************)
(* What GoMint promises about deals: a book of published deals to which    *)
(* balanced deals between known parties are added and from which nothing   *)
(* is taken or changed, and transactions each of which is one published    *)
(* deal with its open places filled in, issued once.                       *)
(***************************************************************************)
EXTENDS Deals

CONSTANT Issues      \* transactions that can be asked for

VARIABLES
  published,         \* the deals in the book
  issued             \* the transaction of each issue, None before

vars == <<published, issued>>

Publishable(d) == d \in Deal /\ Balanced(d) /\ AliasLegs(d) = {}

Init ==
  /\ published = {}
  /\ issued = [f \in Issues |-> None]

Publish ==
  /\ \E d \in published' : Publishable(d) /\ published' = published \cup {d}
  /\ UNCHANGED issued

Issue(f) ==
  /\ issued[f] = None
  /\ issued'[f] # None
  /\ issued' = [issued EXCEPT ![f] = issued'[f]]
  /\ Executable(issued'[f])
  /\ \E d \in published : Instantiates(issued'[f], d)
  /\ UNCHANGED published

Next == Publish \/ \E f \in Issues : Issue(f)

Spec == Init /\ [][Next]_vars
=============================================================================
