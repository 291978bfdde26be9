----------------------------- MODULE MCGoMintApi -----------------------------
(***************************************************************************)
(* A small instance of GoMintApi for TLC: ann and bob sign up and in and   *)
(* generate a key each, r1 to r3 open accounts, the second of bob's of     *)
(* which may name ann's as payer, n1 renames one, and d1 deletes g1.       *)
(***************************************************************************)
EXTENDS GoMintApi, TLC

CONSTANTS ann, bob, secret, other, main, x, y, u1, u2, s1, s2, g1, g2, d1, r1, r2, r3, n1

OneNet == [u \in Users |-> main]
Encrypted == [u \in Users |-> u = u1]

Request(op, username, password, token, key) ==
  [op |-> op, username |-> username, email |-> None, password |-> password,
   session |-> token, apiKey |-> key, target |-> g1]

Guarded(op, token, key) == Request(op, ann, secret, token, key)

MCBodies ==
  u1 :> {Request("signup", ann, secret, None, None)} @@
  u2 :> {Request("signup", bob, other, None, None)} @@
  s1 :> {Request("signin", ann, secret, None, None)} @@
  s2 :> {Request("signin", bob, other, None, None)} @@
  g1 :> {Guarded("generate", s1, None)} @@
  g2 :> {Guarded("generate", s2, None)} @@
  d1 :> {Guarded("delete", s1, None)} @@
  r1 :> {Guarded("use", None, g1)} @@
  r2 :> {Guarded("use", None, g2)} @@
  r3 :> {Guarded("use", None, g2)} @@
  n1 :> {Guarded("manage", s2, g1)}

B(user, alias, payerId, header) ==
  [user |-> user, alias |-> alias, payerId |-> payerId, header |-> header,
   funded |-> FALSE]

(* First accounts, and a second one of bob's, whose payer is the account   *)
(* opened first, his own or ann's.                                         *)
MCAccountBodies ==
  {B(u1, x, None, "right"), B(u2, y, None, "none"), B(u2, x, 1, "none")}

(* A bound: both users are set up, one call after the other, before the    *)
(* keys are used; AuthFaults has these calls interleave and fail.          *)
SetUp == <<u1, s1, g1, u2, s2, g2>>
Done(c) == apc[c] \in {"signedUp", "signedIn", "generated"}
SetUpFirst ==
  /\ \A i \in 1 .. 5 : apc[SetUp[i + 1]] # "new" => Done(SetUp[i])
  /\ \A c \in {d1, r1, r2, r3, n1} : apc[c] # "new" => Done(g2)
  /\ apc[r2] # "new" => apc[r1] # "new"
  /\ apc[r3] # "new" => pc[r2] = "created"

R(user, id, alias) == [user |-> user, id |-> id, alias |-> alias]
MCRenames == {R(u1, 1, y), R(u2, 1, y)}
=============================================================================
