--------------------------- MODULE MCTokenService ----------------------------
(***************************************************************************)
(* Small instances of TokenService for TLC.  ann protects her escrow key   *)
(* with an encryption key, bob does not; a1 and a3 are hers, a2 is his, and*)
(* both call an account x.                                                 *)
(***************************************************************************)
EXTENDS TokenService, TLC

CONSTANTS ann, bob, a1, a2, a3, x, y, text, picture, brochure, plain, fixed, c1, c2

Encrypted == ann :> TRUE @@ bob :> FALSE
Holders == plain :> a1 @@ fixed :> None

Row(id, user, alias) == [id |-> id, user |-> user, alias |-> alias]
ThreeRows == {Row(a1, ann, x), Row(a2, bob, x), Row(a3, ann, y)}
MoveX == {[id |-> a1, alias |-> y], [id |-> a3, alias |-> x]}

Request(op, user, account, payerId) ==
  [op |-> op, user |-> user, header |-> "right", payerId |-> payerId,
   account |-> account, token |-> None, fees |-> <<>>, unpriced |-> FALSE,
   renew |-> None, supplyKey |-> "default", initialSupply |-> None,
   maxSupply |-> None, finite |-> FALSE,
   amount |-> 0, metadata |-> None, metadatas |-> <<>>]

Creation(op, user, account, payerId, fees, renew, metadata) ==
  [Request(op, user, account, payerId) EXCEPT
     !.fees = fees, !.renew = renew, !.metadata = metadata]

Supplied(finite, initial, max, key, body) ==
  [body EXCEPT !.finite = finite, !.initialSupply = initial,
               !.maxSupply = max, !.supplyKey = key]

Mint(op, user, payerId, token, amount, metadata, metadatas) ==
  [Request(op, user, a1, payerId) EXCEPT
     !.token = token, !.amount = amount, !.metadata = metadata,
     !.metadatas = metadatas]

With(header, body) == [body EXCEPT !.header = header]

(* Associations by id and alias, of one's own accounts and another's.      *)
Associations ==
  {Request("account/association", ann, a1, None),
   Request("account/association", ann, x, y),
   Request("token/association", ann, x, y),
   Request("token/association", ann, a3, a2),
   Request("token/association", bob, a1, x)}

(* Tokens with fees collected by alias and by id, their metadata an object *)
(* of either standard; finite by a maximum, by an initial supply with a    *)
(* maximum of 0, by neither; minted with a key of the payer, of nobody, or *)
(* no key at all.                                                          *)
Creations ==
  {Creation("createFt", ann, x, None, <<y, a2, x>>, None, brochure),
   Supplied(FALSE, 1, 2, "default",
     Creation("createFt", ann, a1, a3, <<x>>, a3, text)),
   Supplied(TRUE, 1, 0, a3, Creation("createFt", ann, a1, None, <<>>, None, None)),
   Supplied(TRUE, None, None, None,
     Creation("createNft", ann, a1, None, <<>>, None, None)),
   Supplied(FALSE, None, None, "malformed",
     Creation("createFt", ann, a1, None, <<>>, None, brochure)),
   [Creation("createFt", ann, a1, None, <<>>, None, text) EXCEPT !.unpriced = TRUE],
   Creation("createNft", ann, a1, None, <<>>, None, picture),
   Creation("createNft", bob, x, None, <<>>, y, None)}

(* Mints of a token there from the start, of one without a supply key, and *)
(* of one that another call creates meanwhile.                             *)
Mintings ==
  {Mint("mintFt", ann, None, plain, 0, None, <<>>),
   Mint("mintFt", bob, None, plain, 1, None, <<>>),
   Mint("mintFt", ann, a2, fixed, 1, None, <<>>),
   Mint("mintFt", ann, None, c1, 1, None, <<>>),
   Mint("mintFt", ann, None, c1, 2, None, <<>>),
   Mint("mintNft", ann, y, plain, 2, picture, <<>>),
   Mint("mintNft", ann, None, plain, 2, brochure, <<>>),
   Mint("mintNft", ann, None, plain, 0, None, <<text, text>>),
   Mint("mintNft", bob, None, c1, 0, None, <<text, picture>>)}

(* The encryption key of ann is wrong, missing or looks right.             *)
Strangers ==
  {With("wrong", Request("token/association", ann, a1, None)),
   With("none", Mint("mintFt", ann, None, plain, 1, None, <<>>)),
   With("colliding", Creation("createFt", ann, a1, a3, <<>>, None, None))}

Everything == Associations \cup Creations \cup Mintings \cup Strangers

(* One of each kind, for liveness.                                         *)
Sample ==
  {Request("token/association", ann, x, y),
   Creation("createNft", ann, x, None, <<y, x>>, None, brochure),
   Supplied(TRUE, 1, None, "default",
     Creation("createFt", ann, a1, None, <<>>, None, None)),
   Mint("mintNft", ann, None, c1, 0, None, <<text>>)}

MixedList == {Mint("mintNft", ann, None, plain, 0, None, <<text, picture>>)}
AmountAndList == {Mint("mintNft", ann, None, plain, 1, None, <<text>>)}
NoRenames == {}
=============================================================================
