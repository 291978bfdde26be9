----------------------------- MODULE Credentials -----------------------------
(***************************************************************************)
(* What GoMint promises about who may act as whom.  A call may issue a     *)
(* credential; a credential belongs to one user while it is valid and is   *)
(* void for good afterwards; a call acts for the owner of a credential     *)
(* that is valid when the call is admitted, and may issue another in the   *)
(* name of nobody else.                                                    *)
(***************************************************************************)

CONSTANTS
  Users,
  Calls,             \* also names the credential a call may issue
  None

VARIABLES
  credential,        \* "unissued", the user it belongs to, or "void"
  acts               \* the user each admitted call acts for, None before

vars == <<credential, acts>>

Valid(k) == credential[k] \notin {"unissued", "void"}

Init ==
  /\ credential = [k \in Calls |-> "unissued"]
  /\ acts = [c \in Calls |-> None]

(* On a password.                                                          *)
SignIn(k) ==
  /\ credential[k] = "unissued"
  /\ \E u \in Users : credential' = [credential EXCEPT ![k] = u]
  /\ UNCHANGED acts

(* On another credential.                                                  *)
Issue(k) ==
  /\ credential[k] = "unissued"
  /\ acts[k] # None
  /\ credential' = [credential EXCEPT ![k] = acts[k]]
  /\ UNCHANGED acts

Void ==
  /\ \E S \in SUBSET Calls :
       credential' = [k \in Calls |-> IF k \in S THEN "void" ELSE credential[k]]
  /\ UNCHANGED acts

Admit(c) ==
  /\ acts[c] = None
  /\ \E k \in Calls : Valid(k) /\ acts' = [acts EXCEPT ![c] = credential[k]]
  /\ credential' \in {credential, [credential EXCEPT ![c] = "void"]}

Next == Void \/ \E c \in Calls : SignIn(c) \/ Issue(c) \/ Admit(c)

Spec == Init /\ [][Next]_vars
=============================================================================
