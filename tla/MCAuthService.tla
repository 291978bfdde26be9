---------------------------- MODULE MCAuthService ----------------------------
(***************************************************************************)
(* Small instances of AuthService for TLC.  Each call carries one of a few *)
(* requests: two sign-ups and two sign-ins, which may clash, then two that *)
(* generate keys, and two that use and delete them.                        *)
(***************************************************************************)
EXTENDS AuthService, TLC

CONSTANTS ann, bob, mail, secret, other, u1, u2, s1, s2, g1, g2, d1, d2

Request(op, username, password, token, key, target) ==
  [op |-> op, username |-> username, email |-> None, password |-> password,
   session |-> token, apiKey |-> key, target |-> target]

SignUp(username, email, password) ==
  [Request("signup", username, password, None, None, u1) EXCEPT !.email = email]
SignIn(username, password) == Request("signin", username, password, None, None, u1)
Guarded(op, token, key, target) ==
  Request(op, ann, secret, token, key, target)

Everything ==
  u1 :> {SignUp(ann, mail, secret)} @@
  u2 :> {SignUp(bob, None, secret), SignUp(ann, None, other)} @@
  s1 :> {SignIn(ann, secret)} @@
  s2 :> {SignIn(bob, secret), SignIn(ann, other)} @@
  g1 :> {Guarded("generate", s1, None, u1)} @@
  g2 :> {Guarded("generate", s2, None, u1), Guarded("profile", Forged, None, u1)} @@
  d1 :> {Guarded("delete", s1, None, g1), Guarded("delete", Forged, g2, g1),
         Guarded("list", None, g1, u1), Guarded("list", Forged, None, u1)} @@
  d2 :> {Guarded("delete", s2, g1, g1), Guarded("use", None, g1, u1),
         Guarded("use", None, None, u1)}

SignUps ==
  u1 :> {SignUp(ann, mail, secret), SignUp(ann, None, other)} @@
  u2 :> {SignUp(ann, None, secret), SignUp(bob, mail, other)}
=============================================================================
