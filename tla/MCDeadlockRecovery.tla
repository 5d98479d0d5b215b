------------------------- MODULE MCDeadlockRecovery -------------------------
(***************************************************************************)
(* Deadlock recovery with the durations of the code, in seconds.           *)
(***************************************************************************)
EXTENDS DeadlockRecovery
=============================================================================
