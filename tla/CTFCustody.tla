----------------------------- MODULE CTFCustody -----------------------------
(***************************************************************************)
(* What Capture the Flag promises its players about the two flags, without *)
(* the entity machinery that implements it: while a round is being played  *)
(* every flag is at its base, lies on the ground, or is in the hands of    *)
(* exactly one player, and a player never has more than one flag.          *)
(*                                                                         *)
(* CTFFlags is shown to implement this specification.                      *)
(***************************************************************************)
CONSTANTS Players,   \* the client slots
          Flags      \* the flags, by goal number

VARIABLES holder,    \* holder[f]: "base", "ground", or the player who has f
          playing    \* FALSE from the intermission to the next level

vars == <<holder, playing>>

Places == {"base", "ground"}

TypeOK ==
  /\ holder \in [Flags -> Places \cup Players]
  /\ playing \in BOOLEAN

Carries(p, f) == holder[f] = p

Init ==
  /\ holder = [f \in Flags |-> "base"]
  /\ playing = TRUE

(* A player who has no flag takes one that nobody has. *)
Take(p, f) ==
  /\ holder[f] \in Places
  /\ \A g \in Flags : ~Carries(p, g)
  /\ holder' = [holder EXCEPT ![f] = p]

(* Only a flag that somebody has can be dropped. *)
Drop(f) ==
  /\ holder[f] \in Players
  /\ holder' = [holder EXCEPT ![f] = "ground"]

(* A flag that is away from its base goes back to it. *)
Return(f) ==
  /\ holder[f] # "base"
  /\ holder' = [holder EXCEPT ![f] = "base"]

Play ==
  /\ playing
  /\ UNCHANGED playing
  /\ \/ \E f \in Flags, p \in Players : Take(p, f)
     \/ \E f \in Flags : Drop(f) \/ Return(f)

EndRound ==
  /\ playing
  /\ playing' = FALSE
  /\ UNCHANGED holder

(* Nothing is promised between the end of a round and the next level. *)
Aftermath ==
  /\ ~playing
  /\ UNCHANGED playing
  /\ holder' \in [Flags -> Places \cup Players]

NextLevel ==
  /\ ~playing
  /\ holder' = [f \in Flags |-> "base"]
  /\ playing' = TRUE

Next == Play \/ EndRound \/ Aftermath \/ NextLevel

Spec == Init /\ [][Next]_vars
=============================================================================
