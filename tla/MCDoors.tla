------------------------------ MODULE MCDoors ------------------------------
(***************************************************************************)
(* Values for Doors: the pieces of one door, and doors of their own.       *)
(***************************************************************************)
EXTENDS Doors

CONSTANTS slide, swing, hatch, gate, ajar
=============================================================================
