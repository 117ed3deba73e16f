----------------------------- MODULE MCCTFRound -----------------------------
(* Bounds for CTFRound: four slots and batches of two, so that a full      *)
(* server needs several batches and one can end just short of the last     *)
(* slot; an intermission of at most seven steps, so that it can be over    *)
(* before and after the statistics; and values of mp_chattime on both      *)
(* sides of the two values it is clamped to.                               *)
EXTENDS CTFRound

MCChatTimes == {0, 9}
=============================================================================
