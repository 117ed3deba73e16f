------------------------------- MODULE Doors -------------------------------
(***************************************************************************)
(* Doors (CBaseDoor, CRotDoor): pushers between a bottom and a top, opened *)
(* by a player's touch, by Use (a player, a monster on its route, a        *)
(* trigger), reversed by what blocks them, closed again by a timer.        *)
(* Doors that share a targetname are the pieces of one door.               *)
(*                                                                         *)
(* A master that is not triggered makes a call do nothing, and so is a     *)
(* step that is not taken. What a door fires when it arrives is not        *)
(* modelled: Use comes at any time.                                        *)
(***************************************************************************)
EXTENDS Naturals

CONSTANTS
  Doors,         \* the doors and the pieces of doors
  Named,         \* those with the one targetname: the pieces of one door
  NoAutoReturn,  \* SF_DOOR_NO_AUTO_RETURN: they stay open until used again
  UseOnly,       \* SF_DOOR_USE_ONLY: they are not opened by touch
  Forever,       \* those whose m_flWait is -1, the others wait for a while
  Rotating,      \* func_door_rotating
  TwoWay,        \* of these, those that swing away from who opens them
  StartOpen,     \* of the rotating ones, those with SF_DOOR_START_OPEN
  MaxBlocks      \* how often anything gets in the way

ASSUME DoorsAssumption ==
  /\ Named \subseteq Doors /\ NoAutoReturn \subseteq Doors /\ UseOnly \subseteq Doors
  /\ Forever \subseteq Doors /\ Rotating \subseteq Doors /\ TwoWay \subseteq Rotating
  /\ StartOpen \subseteq Rotating
ASSUME BlocksAssumption == MaxBlocks \in Nat

VARIABLES
  door,    \* the fields of each door
  raced,   \* history: doors whose last touch sent them to where they were
  blocks   \* the calls of Blocked

vars == <<door, raced, blocks>>

(* Where m_vecPosition1 or m_vecAngle1 is, and where the door goes up to.  *)
(* CRotDoor::Spawn means to swap the two angles of a door that starts open *)
(* but keeps the closed one in both: such a door, put where it is open,    *)
(* goes up and down to one and the same place. A sliding door is swapped   *)
(* well and is like any other.                                             *)
Tops(d) ==
  {IF d \in StartOpen THEN "bottom" ELSE "top"} \cup IF d \in TwoWay THEN {"back"} ELSE {}
Ends   == {"bottom", "top", "back"}
Places == Ends \cup {"between"}

(* timer: what nextthink and the think function will call, if anything;    *)
(* done: m_pfnCallWhenMoveDone; dest: m_vecFinalDest or m_vecFinalAngle.   *)
DoorState ==
  [toggle : {"bottom", "goingUp", "top", "goingDown"},
   pos    : Places,
   dest   : Ends,
   done   : {"none", "hitTop", "hitBottom"},
   timer  : {"off", "moveDone", "goDown"},
   armed  : BOOLEAN]

Spawned(d) ==
  [toggle |-> "bottom", pos |-> IF d \in StartOpen THEN "top" ELSE "bottom",
   dest |-> "bottom", done |-> "none", timer |-> "off", armed |-> d \notin UseOnly]

Init ==
  /\ door = [d \in Doors |-> Spawned(d)]
  /\ raced = {}
  /\ blocks = 0

Moving(r) == r.timer = "moveDone"

-----------------------------------------------------------------------------
(* The member functions, from a door's fields to its fields.               *)

(* Mutant of DoorHitTop: a toggle door forgets to listen to touches.       *)
DoorHitTop_StaysDeaf(d, r) ==
  [r EXCEPT !.toggle = "top",
            !.timer = IF d \in NoAutoReturn \cup Forever THEN "off" ELSE "goDown"]

DoorHitTop(d, r) ==
  [r EXCEPT !.toggle = "top",
            !.timer = IF d \in NoAutoReturn \cup Forever THEN "off" ELSE "goDown",
            !.armed = @ \/ (d \in NoAutoReturn /\ d \notin UseOnly)]

DoorHitBottom(d, r) == [r EXCEPT !.toggle = "bottom", !.armed = d \notin UseOnly]

(* nextthink is -1 before the callback, which may schedule another think.  *)
MoveDone(d, r) ==
  LET s == [r EXCEPT !.pos = r.dest, !.timer = "off"]
  IN IF s.done = "hitTop" THEN DoorHitTop(d, s) ELSE DoorHitBottom(d, s)

(* LinearMove and AngularMove: a door that is already there has arrived.   *)
Move(d, r, p) ==
  LET s == [r EXCEPT !.dest = p]
  IN IF r.pos = p THEN MoveDone(d, s) ELSE [s EXCEPT !.timer = "moveDone"]

DoorGoUp(d, r, p) == Move(d, [r EXCEPT !.toggle = "goingUp", !.done = "hitTop"], p)

(* Mutant of DoorGoDown: the callback of the way up is left in place.      *)
DoorGoDown_OldCallback(d, r) == Move(d, [r EXCEPT !.toggle = "goingDown"], "bottom")

DoorGoDown(d, r) == Move(d, [r EXCEPT !.toggle = "goingDown", !.done = "hitBottom"], "bottom")

(* A door that stays open is closed from the top only; from anywhere else, *)
(* and any other door from the top too, it is told to go up.               *)
DoorActivate(d, r, p) ==
  IF d \in NoAutoReturn /\ r.toggle = "top" THEN DoorGoDown(d, r) ELSE DoorGoUp(d, r, p)

Reverse(d, r, p) ==
  IF d \in Forever THEN r
  ELSE IF r.toggle = "goingDown" THEN DoorGoUp(d, r, p) ELSE DoorGoDown(d, r)

(* Blocked puts piece e, seen to have d's velocity, where d is, which on   *)
(* its own track is anywhere. The test compares pDoor's avelocity with d's *)
(* velocity, so that it finds only pieces at rest.                         *)
Realigned(d, s, e, q) ==
  IF e \notin Forever /\ ~Moving(door[e]) /\ (d \in Rotating \/ ~Moving(s))
  THEN [door[e] EXCEPT !.pos = q] ELSE door[e]

-----------------------------------------------------------------------------

Arms == raced' = {d \in raced : ~door'[d].armed}

(* A player touches d. DoorActivate comes first and may re-arm the touch   *)
(* that is then taken away: the touch turns d round where it still is, or  *)
(* sends a door that started open from one of its ends to the other.       *)
DoorTouch(d) ==
  /\ d \notin Named /\ door[d].armed
  /\ \E p \in Tops(d) :
       LET s == DoorActivate(d, door[d], p)
       IN /\ door' = [door EXCEPT ![d] = [s EXCEPT !.armed = FALSE]]
          /\ raced' = IF ~Moving(s) /\ (Moving(door[d]) \/ d \in StartOpen)
                       THEN raced \cup {d} ELSE raced
  /\ UNCHANGED blocks

(* Mutant of Use: a door in motion takes the call as well.                 *)
Use_AnyTime(S) ==
  /\ S \subseteq Named \/ \E d \in Doors : S = {d}
  /\ \E side \in [S -> Ends] :
       /\ \A d \in S : side[d] \in Tops(d)
       /\ door' = [d \in Doors |->
                     IF d \in S THEN DoorActivate(d, door[d], side[d]) ELSE door[d]]
  /\ Arms
  /\ UNCHANGED blocks

(* Use of one door by a player, or of any of the pieces by a trigger or by *)
(* a monster in OpenDoorAndWait. A door that is moving ignores it.         *)
Use(S) ==
  /\ S \subseteq Named \/ \E d \in Doors : S = {d}
  /\ \E side \in [S -> Ends] :
       /\ \A d \in S : side[d] \in Tops(d)
       /\ door' = [d \in Doors |->
                     IF d \in S /\ (\/ door[d].toggle = "bottom"
                                    \/ d \in NoAutoReturn /\ door[d].toggle = "top")
                     THEN DoorActivate(d, door[d], side[d]) ELSE door[d]]
  /\ Arms
  /\ UNCHANGED blocks

(* The engine moves d for a frame; at the end of its way its think comes.  *)
Push(d) ==
  /\ Moving(door[d]) /\ door[d].pos # "between"
  /\ door' = [door EXCEPT ![d].pos = "between"]
  /\ UNCHANGED <<raced, blocks>>

Think(d) ==
  /\ door[d].timer # "off"
  /\ door' = [door EXCEPT ![d] = IF Moving(@) THEN MoveDone(d, @) ELSE DoorGoDown(d, @)]
  /\ Arms
  /\ UNCHANGED blocks

(* Something is in d's way: d turns round, and then so does every other    *)
(* piece, those that do not move included.                                 *)
Blocked(d) ==
  /\ Moving(door[d]) /\ blocks < MaxBlocks
  /\ \E p \in Tops(d), side \in [Named -> Ends], q \in Places :
       LET s == Reverse(d, door[d], p)
       IN /\ \A e \in Named : side[e] \in Tops(e)
          /\ door' = [e \in Doors |->
                        IF e = d THEN s
                        ELSE IF {d, e} \subseteq Named
                             THEN Reverse(e, Realigned(d, s, e, q), side[e])
                             ELSE door[e]]
  /\ Arms
  /\ blocks' = blocks + 1

Next ==
  \/ \E d \in Doors : DoorTouch(d) \/ Push(d) \/ Think(d) \/ Blocked(d)
  \/ \E S \in SUBSET Doors : Use(S)

(* The engine runs the thinks of every pusher, frame after frame. Nobody   *)
(* has to touch or use a door or get in its way.                           *)
Spec == Init /\ [][Next]_vars /\ \A d \in Doors : WF_vars(Think(d))

-----------------------------------------------------------------------------

TypeOK ==
  /\ door \in [Doors -> DoorState]
  /\ raced \subseteq Doors
  /\ blocks \in 0 .. MaxBlocks

(* No sequence of touches, uses, blocks and thinks strands a door: one     *)
(* that moves has a think that ends in the callback of its direction, one  *)
(* that is closed or open is where it was sent to, or starts open and has  *)
(* not been moved yet, and one that closes by itself has the think that    *)
(* will close it.                                                          *)
NoDoorStranded ==
  \A d \in Doors : LET r == door[d] IN
    /\ r.toggle = "bottom" =>
         r.timer = "off" /\ (r.pos = "bottom" \/ (d \in StartOpen /\ r = Spawned(d)))
    /\ r.toggle = "top" =>
         /\ r.pos \in Tops(d)
         /\ r.timer = IF d \in NoAutoReturn \cup Forever THEN "off" ELSE "goDown"
    /\ r.toggle = "goingUp" => Moving(r) /\ r.done = "hitTop" /\ r.dest \in Tops(d) \ {r.pos}
    /\ r.toggle = "goingDown" => Moving(r) /\ r.done = "hitBottom" /\ r.dest = "bottom" /\ r.pos # "bottom"

AtRest(d) ==
  door[d].toggle = "bottom" \/ (d \in NoAutoReturn /\ door[d].toggle = "top")

(* A door that has come to rest listens to touches again, whichever way it *)
(* came there, unless a touch met it on the spot that it sent it to: one   *)
(* in motion and not pushed yet, or one whose two ends are one place since *)
(* it starts open.                                                         *)
RestingDoorListens ==
  \A d \in Doors \ (UseOnly \cup raced) : AtRest(d) => door[d].armed

(* doors.cpp:361 "Temporarily disable the touch function, until movement   *)
(* is finished": a door at rest that is opened by touch can be touched.    *)
TouchDisabledTemporarily ==
  \A d \in Doors \ UseOnly : AtRest(d) => door[d].armed

(* A door that closes by itself does close, if things do not get in its    *)
(* way for ever, whoever touches it and whatever the other pieces do.      *)
AutoReturnCloses ==
  \A d \in Doors \ (NoAutoReturn \cup Forever) :
    door[d].toggle # "bottom" ~> door[d].toggle = "bottom"

(* How far d is from being closed: by the blocks still to come, by whether *)
(* a touch can turn it once more, and by the way it has to go.             *)
WayLeft(r) == CASE r.toggle = "bottom"    -> 0
                [] r.toggle = "goingDown" -> 1
                [] r.toggle = "top"       -> 2
                [] r.toggle = "goingUp"   -> 3

ToClose(d) ==
  8 * (MaxBlocks - blocks) + (IF door[d].armed THEN 4 ELSE 0) + WayLeft(door[d])

(* Until a door that closes by itself is closed, each step that changes    *)
(* it, but for its being moved along, brings it nearer to that: no touch,  *)
(* use or other piece can keep it open except by blocks.                   *)
ClosingApproaches ==
  [][\A d \in Doors \ (NoAutoReturn \cup Forever) :
       door[d].toggle # "bottom" =>
         \/ door'[d].toggle = "bottom"
         \/ ToClose(d)' < ToClose(d)
         \/ blocks' = blocks /\ door'[d] \in {door[d], [door[d] EXCEPT !.pos = "between"]}]_vars
=============================================================================
