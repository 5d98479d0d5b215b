--------------------------- MODULE MCFleetSpawner ---------------------------
(***************************************************************************)
(* The fleet spawner with two fleets.                                      *)
(***************************************************************************)
EXTENDS FleetSpawner
=============================================================================
