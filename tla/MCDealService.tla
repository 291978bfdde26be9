--------------------------- MODULE MCDealService -----------------------------
(***************************************************************************)
(* Small instances of DealService for TLC.  ann protects her escrow key    *)
(* with an encryption key, bob does not; both call an account x.           *)
(***************************************************************************)
EXTENDS DealService, TLC

CONSTANTS ann, bob, a1, a2, a3, a4, x, y, hbar, gold, art

Encrypted == ann :> TRUE @@ bob :> FALSE

L(account, token, nft, amount) ==
  [account |-> account, token |-> token, nft |-> nft, amount |-> amount]

(* x sells an NFT, any of his, to whoever pays.                            *)
Sale ==
  [legs |-> <<L("payer", hbar, 0, -5), L(x, hbar, 0, 5),
              L(x, art, 1, -1), L("receiver", art, 1, 1)>>,
   serials |-> <<None>>]

(* y pays gold for a named NFT of a2's, a4 an hbar in and out.             *)
Barter ==
  [legs |-> <<L(y, gold, 0, -2), L(a2, gold, 0, 2), L(a4, hbar, 0, -1),
              L(a4, hbar, 0, 1), L(a2, art, 1, -1), L("receiver", art, 1, 1)>>,
   serials |-> <<1>>]

(* Two NFTs, of which only the first may be left open.                     *)
Pair ==
  [legs |-> <<L(a2, art, 1, -1), L("receiver", art, 1, 1),
              L(a2, art, 2, -1), L("payer", art, 2, 1)>>,
   serials |-> <<None, None>>]

(* Adds up over all tokens, and over none of them.                         *)
Mixed ==
  [legs |-> <<L(a2, hbar, 0, -3), L("receiver", gold, 0, 3)>>, serials |-> <<>>]

P(user, deal) == [user |-> user, deal |-> deal]
Q(receiverId, payerId, serial, header) ==
  [receiverId |-> receiverId, payerId |-> payerId, serial |-> serial, header |-> header]

Row(id, user, alias) == [id |-> id, user |-> user, alias |-> alias]
ThreeRows == {Row(a1, ann, x), Row(a2, bob, x), Row(a3, ann, y)}
MoveX == {[id |-> a1, alias |-> y], [id |-> a3, alias |-> x]}
NoRenames == {}

Bazaar == {P(ann, Sale), P(ann, Barter), P(bob, Pair), P(bob, Mixed)}
Visitors ==
  {Q(a4, None, None, ann), Q(a4, a2, 2, None), Q("payer", a3, 2, bob),
   Q(a1, "payer", 1, ann), Q(a4, a1, 1, ann)}
OneSale == {P(ann, Sale), P(bob, Sale)}
OneVisitor == {Q(a4, None, None, ann)}
=============================================================================
