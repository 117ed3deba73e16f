------------------------ MODULE MCScriptedSequences ------------------------
(***************************************************************************)
(* Values for ScriptedSequences: two scripts of a group send an actor each *)
(* to a mark. The second takes either of the two monsters.                 *)
(***************************************************************************)
EXTENDS ScriptedSequences

CONSTANTS barney, hassault, enter, greet

MCCast == [s \in Scripts |-> IF s = greet THEN {barney, hassault} ELSE {barney}]
=============================================================================
