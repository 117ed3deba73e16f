----------------------------- MODULE MCCTFFlags -----------------------------
(* Model values for CTFFlags: two client slots, which suffice for a carrier *)
(* and an opponent, and for a slot that is taken over beside them.          *)
EXTENDS CTFFlags

CONSTANTS p1, p2

MCPlayers == {p1, p2}
=============================================================================
