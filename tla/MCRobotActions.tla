--------------------------- MODULE MCRobotActions ---------------------------
(***************************************************************************)
(* The actions of one robot with the categories that the repository's      *)
(* configuration accepts.                                                  *)
(***************************************************************************)
EXTENDS RobotActions
=============================================================================
