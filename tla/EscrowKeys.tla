----------------------------- MODULE EscrowKeys ------------------------------
(***************************************************************************)
(* What KeyService makes of the encryption key that comes in the header of *)
(* a call.  A user's private keys are stored encrypted under his escrow    *)
(* key, and the escrow key of a user who chose an encryption key is itself *)
(* stored encrypted under that one.                                        *)
(***************************************************************************)

CONSTANT hasEncryptionKey  \* whether a user's escrow key is itself encrypted

(* "colliding" is a wrong key under which the stored escrow key happens to *)
(* decrypt with valid padding: AES-CBC is not authenticated, so about one  *)
(* wrong key in 256 yields bytes instead of an error.                      *)
Headers == {"right", "wrong", "colliding", "none"}

(* The escrow keys a call may come to hold, and the errors it may get.     *)
EscrowKeys == {"good", "garbage"}
EscrowErrors == {"DecryptionFailedError", "EncryptionKeyNotProvidedError"}

(* decryptString of an escrow key: the string obtained, or the error.      *)
DecryptString(header) ==
  CASE header = "right" -> "good"
    [] header = "colliding" -> "garbage"
    [] header = "wrong" -> "DecryptionFailedError"
    [] header = "none" -> "EncryptionKeyNotProvidedError"

DecryptUserEscrowKey(user, header) ==
  IF hasEncryptionKey[user] THEN DecryptString(header) ELSE "good"

(* decryptAccountKeys: a private key comes back under the escrow key that  *)
(* encryptString stored it under, and under no other.                      *)
Decrypts(escrow, stored) == escrow = stored
=============================================================================
