---------------------------- MODULE NodeProcess -----------------------------
(***************************************************************************)
(* The one process whose handlers AuthService and AccountService describe. *)
(***************************************************************************)

CONSTANTS
  Concurrency,       \* bound on the handlers in flight at a time
  Faults,            \* whether calls fail, answers get lost and the process crashes
  None               \* undefined, null
=============================================================================
