-------------------------- MODULE MCAccountService --------------------------
(***************************************************************************)
(* Small instances of AccountService for TLC.  ann protects her escrow key *)
(* with an encryption key, bob does not.                                   *)
(***************************************************************************)
EXTENDS AccountService, TLC

CONSTANTS ann, bob, main, test, x, y, long

OneNet == ann :> main @@ bob :> main
TwoNets == ann :> main @@ bob :> test
Encrypted == ann :> TRUE @@ bob :> FALSE

B(user, alias, payerId, header, funded) ==
  [user |-> user, alias |-> alias, payerId |-> payerId, header |-> header,
   funded |-> funded]

(* First accounts and second ones, named and unnamed payers, the right     *)
(* header and a wrong one that decrypts to something, and bob naming an    *)
(* account of ann's as payer.  ann's first account has no alias, and is    *)
(* called x once it is renamed.                                            *)
FaultBodies ==
  {B(ann, None, None, "right", TRUE), B(ann, y, x, "right", TRUE),
   B(ann, None, 1, "colliding", FALSE), B(bob, x, 1, "none", FALSE),
   B(bob, y, 1, "none", TRUE)}

NetworkBodies ==
  {B(ann, x, None, "right", FALSE), B(bob, x, None, "none", TRUE),
   B(ann, y, x, "right", TRUE), B(bob, y, 1, "none", TRUE)}

(* An alias that does not fit its column, and a key that does not decrypt. *)
TooLong == {B(ann, long, None, "right", FALSE)}
LiveBodies == NetworkBodies \cup TooLong \cup {B(ann, y, None, "wrong", FALSE)}

SerialBodies ==
  {B(ann, x, None, "right", TRUE), B(ann, x, 1, "right", FALSE),
   B(ann, None, 1, "right", FALSE), B(ann, 2, 1, "right", FALSE),
   B(ann, y, x, "none", FALSE), B(ann, y, 1, "wrong", FALSE),
   B(bob, None, 2, "wrong", TRUE)}

TwoFree == {B(ann, x, None, "right", FALSE), B(ann, y, None, "right", FALSE)}
SameAlias == {B(bob, x, None, "none", FALSE), B(bob, y, 1, "none", FALSE)}
NoAlias == {B(bob, None, None, "none", FALSE), B(bob, None, 1, "none", FALSE)}
IdAlias == {B(bob, 2, None, "none", FALSE), B(bob, x, 1, "none", FALSE)}
Colliding == {B(ann, x, None, "colliding", FALSE)}

R(user, id, alias) == [user |-> user, id |-> id, alias |-> alias]
NamedX == {R(ann, 1, x)}
OneRename == {R(ann, 1, y), R(bob, 1, x)}
LiveRenames == OneRename \cup {R(ann, 1, long)}
Swap == {R(bob, 1, y), R(bob, 1, x)}
ToX == {R(bob, 2, x)}
NoRenames == {}

Interchangeable == Permutations(Creations)
=============================================================================
