---------------------------- MODULE Doors_proofs ----------------------------
(***************************************************************************)
(* Proofs about Doors for any doors, flags and number of blocks. What the  *)
(* member functions leave behind does not depend on the state they find,   *)
(* so that each has a lemma of its own and an action only says for which   *)
(* doors it is called.                                                     *)
(***************************************************************************)
EXTENDS Doors, Integers, TLAPS

(* One door, its state given: what NoDoorStranded says of it once it has   *)
(* been moved, or if it starts closed.                                     *)
Settled(d, r) ==
  /\ r \in DoorState
  /\ r.toggle = "bottom" => r.pos = "bottom" /\ r.timer = "off"
  /\ r.toggle = "top" =>
       /\ r.pos \in Tops(d)
       /\ r.timer = IF d \in NoAutoReturn \cup Forever THEN "off" ELSE "goDown"
  /\ r.toggle = "goingUp" => Moving(r) /\ r.done = "hitTop" /\ r.dest \in Tops(d) \ {r.pos}
  /\ r.toggle = "goingDown" => Moving(r) /\ r.done = "hitBottom" /\ r.dest = "bottom" /\ r.pos # "bottom"

Sound(d, r) == Settled(d, r) \/ (d \in StartOpen /\ r = Spawned(d))

Rests(d, r) == r.toggle = "bottom" \/ (d \in NoAutoReturn /\ r.toggle = "top")

Listens(d, r) == d \notin UseOnly /\ Rests(d, r) => r.armed

IInv ==
  /\ raced \subseteq Doors
  /\ blocks \in 0 .. MaxBlocks
  /\ door = [d \in Doors |-> door[d]]
  /\ \A d \in Doors : Sound(d, door[d]) /\ (d \in raced \/ Listens(d, door[d]))

LEMMA TopsArePlaces ==
  ASSUME NEW d \in Doors
  PROVE  Tops(d) \subseteq Ends
BY DEF Tops, Ends

LEMMA SpawnedState ==
  ASSUME NEW d \in Doors
  PROVE  /\ Spawned(d) \in DoorState
         /\ Spawned(d).toggle = "bottom" /\ Spawned(d).timer = "off"
         /\ Listens(d, Spawned(d))
BY DEF Spawned, DoorState, Places, Ends, Listens

LEMMA SoundState ==
  ASSUME NEW d \in Doors, NEW r, Sound(d, r)
  PROVE  r \in DoorState
BY SpawnedState DEF Sound, Settled

(* A door that goes up is on its way or has arrived, and listens then.     *)
LEMMA GoUp ==
  ASSUME NEW d \in Doors, NEW r \in DoorState, NEW p \in Tops(d)
  PROVE  /\ Settled(d, DoorGoUp(d, r, p))
         /\ Listens(d, DoorGoUp(d, r, p))
         /\ r.pos # p => DoorGoUp(d, r, p).toggle = "goingUp"
         /\ r.pos = p => DoorGoUp(d, r, p).toggle = "top"
<1>p. p \in {"bottom", "top", "back"}
  BY TopsArePlaces DEF Ends
<1> DEFINE s == [r EXCEPT !.toggle = "goingUp", !.done = "hitTop", !.dest = p]
<1>1. CASE r.pos # p
  <2>1. DoorGoUp(d, r, p) = [s EXCEPT !.timer = "moveDone"]
    BY <1>1 DEF DoorGoUp, Move, DoorState, Ends
  <2> QED
    BY <1>p, <1>1, <2>1 DEF Settled, Listens, Rests, DoorState, Moving, Ends
<1>2. CASE r.pos = p
  <2>1. DoorGoUp(d, r, p) = DoorHitTop(d, [s EXCEPT !.pos = p, !.timer = "off"])
    BY <1>2 DEF DoorGoUp, Move, MoveDone, DoorState
  <2> QED
    BY <1>p, <1>2, <2>1 DEF DoorHitTop, Settled, Listens, Rests, DoorState, Moving, Places, Ends
<1> QED
  BY <1>1, <1>2

(* The same for the way down, from wherever the door is.                   *)
LEMMA GoDown ==
  ASSUME NEW d \in Doors, NEW r \in DoorState
  PROVE  /\ Settled(d, DoorGoDown(d, r))
         /\ Listens(d, DoorGoDown(d, r))
         /\ r.pos # "bottom" => DoorGoDown(d, r).toggle = "goingDown"
<1> DEFINE s == [r EXCEPT !.toggle = "goingDown", !.done = "hitBottom", !.dest = "bottom"]
<1>1. CASE r.pos # "bottom"
  <2>1. DoorGoDown(d, r) = [s EXCEPT !.timer = "moveDone"]
    BY <1>1 DEF DoorGoDown, Move, DoorState
  <2> QED
    BY <1>1, <2>1 DEF Settled, Listens, Rests, DoorState, Moving, Ends
<1>2. CASE r.pos = "bottom"
  <2>1. DoorGoDown(d, r) = DoorHitBottom(d, [s EXCEPT !.pos = "bottom", !.timer = "off"])
    BY <1>2 DEF DoorGoDown, Move, MoveDone, DoorState
  <2> QED
    BY <1>2, <2>1 DEF DoorHitBottom, Settled, Listens, Rests, DoorState, Moving, Places
<1> QED
  BY <1>1, <1>2

(* A door told to move by DoorActivate moves, unless it was on its way, or *)
(* open and about to close, or has both its ends at one place.             *)
LEMMA Activate ==
  ASSUME NEW d \in Doors, NEW r, Sound(d, r), NEW p \in Tops(d)
  PROVE  /\ Settled(d, DoorActivate(d, r, p))
         /\ Listens(d, DoorActivate(d, r, p))
         /\ Rests(d, DoorActivate(d, r, p)) =>
              /\ ~Moving(DoorActivate(d, r, p))
              /\ Moving(r) \/ d \in StartOpen
<1>t. r \in DoorState /\ p \in Ends /\ Tops(d) \subseteq Ends
  BY TopsArePlaces, SoundState
<1>r. ASSUME NEW z, Settled(d, z), Rests(d, z)
      PROVE  ~Moving(z)
  BY <1>r DEF Settled, Rests, Moving
<1>n. d \notin StartOpen => Settled(d, r) /\ Tops(d) \subseteq {"top", "back"}
  BY DEF Sound, Tops
<1>1. CASE d \in NoAutoReturn /\ r.toggle = "top"
  <2>1. DoorActivate(d, r, p) = DoorGoDown(d, r)
    BY <1>1 DEF DoorActivate
  <2>2. Settled(d, DoorGoDown(d, r)) /\ Listens(d, DoorGoDown(d, r))
    BY <1>t, GoDown
  <2>3. ASSUME d \notin StartOpen
        PROVE  ~Rests(d, DoorGoDown(d, r))
    <3>1. r.pos # "bottom"
      BY <1>1, <1>n, <2>3 DEF Settled
    <3> QED
      BY <1>t, <3>1, GoDown DEF Rests
  <2> QED
    BY <1>r, <2>1, <2>2, <2>3
<1>2. CASE ~(d \in NoAutoReturn /\ r.toggle = "top")
  <2>1. DoorActivate(d, r, p) = DoorGoUp(d, r, p)
    BY <1>2 DEF DoorActivate
  <2>2. Settled(d, DoorGoUp(d, r, p)) /\ Listens(d, DoorGoUp(d, r, p))
    BY <1>t, GoUp
  <2>3. ASSUME Rests(d, DoorGoUp(d, r, p)), d \notin StartOpen
        PROVE  Moving(r)
    <3>1. r.pos = p /\ DoorGoUp(d, r, p).toggle = "top" /\ d \in NoAutoReturn
      BY <1>t, <2>3, GoUp DEF Rests
    <3>2. r.toggle \in {"goingUp", "goingDown"}
      BY <1>t, <1>2, <1>n, <2>3, <3>1 DEF Settled, DoorState
    <3> QED
      BY <1>n, <2>3, <3>2 DEF Settled
  <2> QED
    BY <1>r, <2>1, <2>2, <2>3
<1> QED
  BY <1>1, <1>2

LEMMA ReverseSettled ==
  ASSUME NEW d \in Doors, NEW r \in DoorState, NEW p \in Tops(d), d \notin Forever
  PROVE  Settled(d, Reverse(d, r, p)) /\ Listens(d, Reverse(d, r, p))
BY GoUp, GoDown DEF Reverse

(* The end of the way, in either direction.                                *)
LEMMA Arrive ==
  ASSUME NEW d \in Doors, NEW r, Settled(d, r), Moving(r)
  PROVE  Settled(d, MoveDone(d, r)) /\ Listens(d, MoveDone(d, r))
<1>t. r \in DoorState /\ Tops(d) \subseteq {"bottom", "top", "back"}
  BY TopsArePlaces DEF Settled, Ends
<1>0. r.toggle \in {"goingUp", "goingDown"}
  BY <1>t DEF Settled, Moving, DoorState
<1> DEFINE s == [r EXCEPT !.pos = r.dest, !.timer = "off"]
<1>1. CASE r.toggle = "goingUp"
  <2>1. MoveDone(d, r) = DoorHitTop(d, s) /\ r.dest \in Tops(d)
    BY <1>t, <1>1 DEF MoveDone, Settled, DoorState
  <2> QED
    BY <1>t, <2>1 DEF DoorHitTop, Settled, Listens, Rests, DoorState, Moving, Places, Ends
<1>2. CASE r.toggle = "goingDown"
  <2>1. MoveDone(d, r) = DoorHitBottom(d, s) /\ r.dest = "bottom"
    BY <1>t, <1>2 DEF MoveDone, Settled, DoorState
  <2> QED
    BY <1>t, <2>1 DEF DoorHitBottom, Settled, Listens, Rests, DoorState, Moving, Places, Ends
<1> QED
  BY <1>0, <1>1, <1>2

LEMMA InitInv ==
  ASSUME Init
  PROVE  IInv
<1>1. ASSUME NEW d \in Doors
      PROVE  Sound(d, Spawned(d)) /\ Listens(d, Spawned(d))
  <2>1. d \notin StartOpen => Settled(d, Spawned(d))
    BY SpawnedState DEF Spawned, Settled
  <2> QED
    BY <2>1, SpawnedState DEF Sound
<1>2. /\ door = [d \in Doors |-> door[d]]
      /\ \A d \in Doors : door[d] = Spawned(d)
      /\ raced = {} /\ blocks = 0
  BY DEF Init
<1> QED
  BY <1>1, <1>2, BlocksAssumption DEF IInv

(* A step after which every door is settled and listens, and that only     *)
(* takes doors out of raced that listen.                                   *)
LEMMA QuietStep ==
  ASSUME IInv, Arms, blocks' \in 0 .. MaxBlocks,
         door' = [d \in Doors |-> door'[d]],
         \A d \in Doors : \/ door'[d] = door[d]
                          \/ Settled(d, door'[d]) /\ Listens(d, door'[d])
  PROVE  IInv'
<1>1. raced' \subseteq raced /\ \A d \in raced \ raced' : door'[d].armed
  BY DEF Arms
<1>2. ASSUME NEW d \in Doors
      PROVE  Sound(d, door'[d]) /\ (d \in raced' \/ Listens(d, door'[d]))
  BY <1>1, <1>2 DEF IInv, Listens, Sound
<1> QED
  BY <1>1, <1>2 DEF IInv

LEMMA TouchStep ==
  ASSUME IInv, NEW d \in Doors, DoorTouch(d)
  PROVE  IInv'
<1>1. PICK p \in Tops(d) :
        /\ door' = [door EXCEPT ![d] = [DoorActivate(d, door[d], p) EXCEPT !.armed = FALSE]]
        /\ raced' = IF /\ ~Moving(DoorActivate(d, door[d], p))
                       /\ Moving(door[d]) \/ d \in StartOpen
                    THEN raced \cup {d} ELSE raced
        /\ blocks' = blocks
  BY DEF DoorTouch
<1> DEFINE s == DoorActivate(d, door[d], p)
<1>2. Settled(d, s) /\ (Rests(d, s) => ~Moving(s) /\ (Moving(door[d]) \/ d \in StartOpen))
  BY Activate DEF IInv
<1>3. /\ door' = [e \in Doors |-> door'[e]]
      /\ \A e \in Doors : door'[e] = IF e = d THEN [s EXCEPT !.armed = FALSE] ELSE door[e]
  BY <1>1 DEF IInv
<1>4. Settled(d, [s EXCEPT !.armed = FALSE])
  BY <1>2 DEF Settled, DoorState, Moving
<1>5. Rests(d, [s EXCEPT !.armed = FALSE]) => Rests(d, s)
  BY <1>2 DEF Rests, Settled, DoorState
<1>6. d \in raced' \/ Listens(d, [s EXCEPT !.armed = FALSE])
  BY <1>1, <1>2, <1>5 DEF Listens
<1>8. Sound(d, [s EXCEPT !.armed = FALSE])
  BY <1>4 DEF Sound
<1>7. raced \subseteq raced' /\ raced' \subseteq raced \cup {d}
  BY <1>1
<1> HIDE DEF s
<1> QED
  BY <1>1, <1>3, <1>8, <1>6, <1>7 DEF IInv

LEMMA UseStep ==
  ASSUME IInv, NEW S \in SUBSET Doors, Use(S)
  PROVE  IInv'
<1>1. PICK side \in [S -> Ends] :
        /\ \A d \in S : side[d] \in Tops(d)
        /\ door' = [d \in Doors |->
                     IF d \in S /\ (\/ door[d].toggle = "bottom"
                                    \/ d \in NoAutoReturn /\ door[d].toggle = "top")
                     THEN DoorActivate(d, door[d], side[d]) ELSE door[d]]
  BY DEF Use
<1>2. ASSUME NEW d \in Doors, door'[d] # door[d]
      PROVE  Settled(d, door'[d]) /\ Listens(d, door'[d])
  <2>1. d \in S /\ door'[d] = DoorActivate(d, door[d], side[d])
    BY <1>1, <1>2
  <2> QED
    BY <1>1, <2>1, Activate DEF IInv
<1>3. Arms /\ blocks' \in 0 .. MaxBlocks /\ door' = [d \in Doors |-> door'[d]]
  BY <1>1 DEF Use, IInv
<1> QED
  BY <1>2, <1>3, QuietStep

LEMMA PushStep ==
  ASSUME IInv, NEW d \in Doors, Push(d)
  PROVE  IInv'
<1>1. /\ door' = [e \in Doors |-> door'[e]]
      /\ \A e \in Doors : door'[e] = IF e = d THEN [door[e] EXCEPT !.pos = "between"] ELSE door[e]
      /\ raced' = raced /\ blocks' = blocks
  BY DEF Push, IInv
<1>2. Settled(d, door[d]) /\ Moving(door[d]) /\ (d \in raced \/ Listens(d, door[d]))
  BY SpawnedState DEF Push, IInv, Sound, Moving
<1>t. Tops(d) \subseteq {"bottom", "top", "back"}
  BY TopsArePlaces DEF Ends
<1>3. Settled(d, [door[d] EXCEPT !.pos = "between"])
  BY <1>2, <1>t DEF Settled, DoorState, Moving, Places, Ends
<1>4. d \in raced \/ Listens(d, [door[d] EXCEPT !.pos = "between"])
  BY <1>2 DEF Listens, Rests, Settled, DoorState
<1> QED
  BY <1>1, <1>3, <1>4 DEF IInv, Sound

LEMMA ThinkStep ==
  ASSUME IInv, NEW d \in Doors, Think(d)
  PROVE  IInv'
<1>1. /\ Arms /\ blocks' \in 0 .. MaxBlocks /\ door' = [e \in Doors |-> door'[e]]
      /\ \A e \in Doors : door'[e] =
           IF e = d THEN IF Moving(door[d]) THEN MoveDone(d, door[d]) ELSE DoorGoDown(d, door[d])
                    ELSE door[e]
  BY DEF Think, IInv
<1>2. Settled(d, door[d]) /\ door[d] \in DoorState
  BY SpawnedState DEF Think, IInv, Sound, Settled
<1>3. Settled(d, door'[d]) /\ Listens(d, door'[d])
  <2>1. CASE Moving(door[d])
    BY <1>1, <1>2, <2>1, Arrive
  <2>2. CASE ~Moving(door[d])
    BY <1>1, <1>2, <2>2, GoDown
  <2> QED
    BY <2>1, <2>2
<1> QED
  BY <1>1, <1>3, QuietStep

LEMMA BlockedStep ==
  ASSUME IInv, NEW d \in Doors, Blocked(d)
  PROVE  IInv'
<1>1. PICK p \in Tops(d), side \in [Named -> Ends], q \in Places :
        /\ \A e \in Named : side[e] \in Tops(e)
        /\ door' = [e \in Doors |->
              IF e = d THEN Reverse(d, door[d], p)
              ELSE IF {d, e} \subseteq Named
                   THEN Reverse(e, Realigned(d, Reverse(d, door[d], p), e, q), side[e])
                   ELSE door[e]]
  BY DEF Blocked
<1>2. ASSUME NEW e \in Doors, door'[e] # door[e]
      PROVE  Settled(e, door'[e]) /\ Listens(e, door'[e])
  <2>1. door[e] \in DoorState
    BY SoundState DEF IInv
  <2>2. CASE e = d
    <3>1. door'[e] = Reverse(e, door[e], p) /\ p \in Tops(e)
      BY <1>1, <2>2
    <3>2. e \notin Forever
      BY <1>2, <3>1 DEF Reverse
    <3> QED
      BY <2>1, <3>1, <3>2, ReverseSettled
  <2>3. CASE e # d
    <3> DEFINE z == Realigned(d, Reverse(d, door[d], p), e, q)
    <3>1. {d, e} \subseteq Named /\ door'[e] = Reverse(e, z, side[e]) /\ side[e] \in Tops(e)
      BY <1>1, <1>2, <2>3
    <3>2. e \notin Forever
      BY <1>2, <3>1 DEF Reverse, Realigned
    <3>3. z \in DoorState
      BY <2>1 DEF Realigned, DoorState
    <3> HIDE DEF z
    <3> QED
      BY <3>1, <3>2, <3>3, ReverseSettled
  <2> QED
    BY <2>2, <2>3
<1>3. Arms /\ blocks' \in 0 .. MaxBlocks /\ door' = [e \in Doors |-> door'[e]]
  BY <1>1, BlocksAssumption DEF Blocked, IInv
<1> QED
  BY <1>2, <1>3, QuietStep

LEMMA NextStep ==
  ASSUME IInv, [Next]_vars
  PROVE  IInv'
<1>1. CASE UNCHANGED vars
  BY <1>1 DEF IInv, vars
<1>2. CASE Next
  BY <1>2, TouchStep, PushStep, ThinkStep, BlockedStep, UseStep DEF Next
<1> QED
  BY <1>1, <1>2

THEOREM Invariant == Spec => []IInv
<1>1. Init => IInv
  BY InitInv
<1>2. IInv /\ [Next]_vars => IInv'
  BY NextStep
<1> QED
  BY <1>1, <1>2, PTL DEF Spec

(* The fields of every door keep their types.                              *)
THEOREM TypeCorrect == Spec => []TypeOK
<1>1. IInv => TypeOK
  BY SoundState DEF IInv, TypeOK
<1> QED
  BY <1>1, Invariant, PTL

(* For any doors, flags and calls, those that start open included, no door *)
(* is stranded: what moves will arrive in the callback of its direction.   *)
THEOREM NobodyStranded == Spec => []NoDoorStranded
<1>1. IInv => NoDoorStranded
  BY SpawnedState DEF IInv, NoDoorStranded, Sound, Settled
<1> QED
  BY <1>1, Invariant, PTL

(* A door at rest listens, unless a touch sent it to where it was: in the  *)
(* frame it was turned round in, or having both its ends at one place.     *)
THEOREM DoorsListen == Spec => []RestingDoorListens
<1>1. IInv => RestingDoorListens
  BY DEF IInv, RestingDoorListens, Listens, Rests, AtRest
<1> QED
  BY <1>1, Invariant, PTL

-----------------------------------------------------------------------------
(* A door that closes by itself comes nearer to being closed.              *)

SelfClosing == Doors \ (NoAutoReturn \cup Forever)

Approaches(d) ==
  \/ door'[d].toggle = "bottom"
  \/ ToClose(d)' < ToClose(d)
  \/ blocks' = blocks /\ door'[d] \in {door[d], [door[d] EXCEPT !.pos = "between"]}

LEMMA WayLeftRange ==
  ASSUME NEW r \in DoorState
  PROVE  WayLeft(r) \in 0 .. 3
BY DEF WayLeft, DoorState

(* Without a block, a door comes nearer if it can no longer be turned by a *)
(* touch, or has less of its way left and the touch is as it was.          *)
LEMMA Nearer ==
  ASSUME IInv, IInv', NEW d \in Doors, blocks' = blocks,
         \/ door[d].armed /\ ~door'[d].armed
         \/ door'[d].armed = door[d].armed /\ WayLeft(door'[d]) < WayLeft(door[d])
  PROVE  ToClose(d)' < ToClose(d)
<1>1. WayLeft(door[d]) \in 0 .. 3 /\ WayLeft(door'[d]) \in 0 .. 3
  BY WayLeftRange, SoundState DEF IInv
<1>2. blocks \in Nat /\ MaxBlocks \in Nat
  BY BlocksAssumption DEF IInv
<1> QED
  BY <1>1, <1>2 DEF ToClose

LEMMA BlockNearer ==
  ASSUME IInv, IInv', NEW d \in Doors, blocks' = blocks + 1
  PROVE  ToClose(d)' < ToClose(d)
<1>1. WayLeft(door[d]) \in 0 .. 3 /\ WayLeft(door'[d]) \in 0 .. 3
  BY WayLeftRange, SoundState DEF IInv
<1>2. blocks \in Nat /\ MaxBlocks \in Nat
  BY BlocksAssumption DEF IInv
<1> QED
  BY <1>1, <1>2 DEF ToClose

LEMMA ThinkApproaches ==
  ASSUME IInv, IInv', NEW d \in SelfClosing, Think(d), door[d].toggle # "bottom"
  PROVE  Approaches(d)
<1> DEFINE r == door[d]
<1>1. /\ Settled(d, r) /\ r \in DoorState
      /\ door'[d] = IF Moving(r) THEN MoveDone(d, r) ELSE DoorGoDown(d, r)
      /\ blocks' = blocks /\ r.timer # "off"
      /\ d \in Doors /\ d \notin NoAutoReturn /\ d \notin Forever
  BY SpawnedState DEF IInv, Think, Sound, Settled, SelfClosing
<1>2. CASE r.toggle = "goingUp"
  <2>1. door'[d] = DoorHitTop(d, [r EXCEPT !.pos = r.dest, !.timer = "off"])
    BY <1>1, <1>2 DEF Settled, MoveDone, DoorState
  <2>2. door'[d].toggle = "top" /\ door'[d].armed = r.armed
    BY <1>1, <2>1 DEF DoorHitTop, DoorState
  <2>3. WayLeft(door'[d]) = 2 /\ WayLeft(r) = 3
    BY <1>2, <2>2 DEF WayLeft
  <2>4. WayLeft(door'[d]) < WayLeft(r)
    BY <2>3
  <2> QED
    BY <1>1, <2>2, <2>4, Nearer DEF Approaches
<1>3. CASE r.toggle = "goingDown"
  <2>1. door'[d] = DoorHitBottom(d, [r EXCEPT !.pos = r.dest, !.timer = "off"])
    BY <1>1, <1>3 DEF Settled, MoveDone, DoorState
  <2> QED
    BY <1>1, <2>1 DEF DoorHitBottom, DoorState, Approaches
<1>4. CASE r.toggle = "top"
  <2>1. ~Moving(r) /\ door'[d] = DoorGoDown(d, r)
    BY <1>1, <1>4 DEF Settled, Moving
  <2>2. CASE r.pos = "bottom"
    <3>1. door'[d].toggle = "bottom"
      BY <1>1, <2>1, <2>2 DEF DoorGoDown, Move, MoveDone, DoorHitBottom, DoorState
    <3> QED
      BY <3>1 DEF Approaches
  <2>3. CASE r.pos # "bottom"
    <3>1. door'[d].toggle = "goingDown"
      BY <1>1, <2>1, <2>3, GoDown
    <3>2. door'[d].armed = r.armed
      BY <1>1, <2>1, <2>3 DEF DoorGoDown, Move, DoorState
    <3>3. WayLeft(door'[d]) = 1 /\ WayLeft(r) = 2
      BY <1>4, <3>1 DEF WayLeft
    <3>4. WayLeft(door'[d]) < WayLeft(r)
      BY <3>3
    <3> QED
      BY <1>1, <3>2, <3>4, Nearer DEF Approaches
  <2> QED
    BY <2>2, <2>3
<1> QED
  BY <1>1, <1>2, <1>3, <1>4 DEF DoorState

LEMMA StepApproaches ==
  ASSUME IInv, IInv', [Next]_vars, NEW d \in SelfClosing, door[d].toggle # "bottom"
  PROVE  Approaches(d)
<1>d. d \in Doors /\ d \notin NoAutoReturn /\ door = [e \in Doors |-> door[e]]
  BY DEF SelfClosing, IInv
<1>1. CASE UNCHANGED vars
  BY <1>1 DEF vars, Approaches
<1>2. ASSUME NEW e \in Doors, DoorTouch(e)  PROVE Approaches(d)
  <2>1. blocks' = blocks
    BY <1>2 DEF DoorTouch
  <2>2. CASE e = d
    <3>1. PICK p \in Tops(d) :
            door' = [door EXCEPT ![d] = [DoorActivate(d, door[d], p) EXCEPT !.armed = FALSE]]
      BY <1>2, <2>2 DEF DoorTouch
    <3>2. DoorActivate(d, door[d], p) \in DoorState
      BY <1>d, Activate DEF IInv, Settled
    <3>3. door[d].armed /\ ~door'[d].armed
      BY <1>d, <1>2, <2>2, <3>1, <3>2 DEF DoorTouch, DoorState
    <3> QED
      BY <1>d, <2>1, <3>3, Nearer DEF Approaches
  <2>3. CASE e # d
    <3>1. door'[d] = door[d]
      BY <1>d, <1>2, <2>3 DEF DoorTouch
    <3> QED
      BY <2>1, <3>1 DEF Approaches
  <2> QED
    BY <2>2, <2>3
<1>3. ASSUME NEW S \in SUBSET Doors, Use(S)  PROVE Approaches(d)
  BY <1>d, <1>3 DEF Use, Approaches
<1>4. ASSUME NEW e \in Doors, Push(e)  PROVE Approaches(d)
  BY <1>d, <1>4 DEF Push, Approaches
<1>5. ASSUME NEW e \in Doors, Think(e)  PROVE Approaches(d)
  <2>1. CASE e = d
    BY <1>5, <2>1, ThinkApproaches
  <2>2. CASE e # d
    BY <1>d, <1>5, <2>2 DEF Think, Approaches
  <2> QED
    BY <2>1, <2>2
<1>6. ASSUME NEW e \in Doors, Blocked(e)  PROVE Approaches(d)
  BY <1>d, <1>6, BlockNearer DEF Blocked, Approaches
<1> QED
  BY <1>1, <1>2, <1>3, <1>4, <1>5, <1>6 DEF Next

(* What comes nearer has an end, and a door on its way has a think to come. *)
CloseInSight ==
  \A d \in SelfClosing :
    ToClose(d) \in Nat /\ (door[d].toggle # "bottom" => door[d].timer # "off")

(* Only blocks keep a door open that closes by itself, and there is always *)
(* a think of its own to come that brings it nearer to being closed.       *)
THEOREM DoorsClose == Spec => ClosingApproaches /\ []CloseInSight
<1>1. IInv /\ IInv' /\ [Next]_vars =>
        [\A d \in Doors \ (NoAutoReturn \cup Forever) :
           door[d].toggle # "bottom" =>
             \/ door'[d].toggle = "bottom"
             \/ ToClose(d)' < ToClose(d)
             \/ blocks' = blocks /\ door'[d] \in {door[d], [door[d] EXCEPT !.pos = "between"]}]_vars
  BY StepApproaches DEF Approaches, SelfClosing
<1>2. IInv => CloseInSight
  <2> SUFFICES ASSUME IInv, NEW d \in SelfClosing
               PROVE  ToClose(d) \in Nat /\ (door[d].toggle # "bottom" => door[d].timer # "off")
    BY DEF CloseInSight
  <2>1. /\ d \in Doors /\ d \notin NoAutoReturn \cup Forever
        /\ Sound(d, door[d]) /\ door[d] \in DoorState
    BY SoundState DEF IInv, SelfClosing
  <2>2. WayLeft(door[d]) \in 0 .. 3 /\ blocks \in 0 .. MaxBlocks
    BY <2>1, WayLeftRange DEF IInv
  <2>3. ToClose(d) \in Nat
    BY <2>2, BlocksAssumption DEF ToClose
  <2>4. door[d].toggle # "bottom" => door[d].timer # "off"
    <3>1. CASE Settled(d, door[d])
      BY <2>1, <3>1 DEF Settled, DoorState, Moving
    <3>2. CASE door[d] = Spawned(d)
      BY <2>1, <3>2, SpawnedState
    <3> QED
      BY <2>1, <3>1, <3>2 DEF Sound
  <2> QED
    BY <2>3, <2>4
<1> QED
  BY <1>1, <1>2, Invariant, PTL DEF Spec, ClosingApproaches
=============================================================================
