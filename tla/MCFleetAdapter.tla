--------------------------- MODULE MCFleetAdapter ---------------------------
(***************************************************************************)
(* The fleet adapter with a robot of the configuration and one that is     *)
(* only discovered.                                                        *)
(***************************************************************************)
EXTENDS FleetAdapter
=============================================================================
