------------------------------ MODULE MCSquads ------------------------------
(***************************************************************************)
(* Values for Squads: monsters of one class, with and without a netname.   *)
(***************************************************************************)
EXTENDS Squads

CONSTANTS n1, n2, g1, g2
=============================================================================
