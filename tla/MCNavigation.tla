---------------------------- MODULE MCNavigation ----------------------------
(***************************************************************************)
(* Navigation on small instances.  The configurations set how many         *)
(* requests RMF makes and which of the environment's liberties are taken.  *)
(***************************************************************************)
EXTENDS NavigationPromise
=============================================================================
