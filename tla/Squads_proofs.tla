--------------------------- MODULE Squads_proofs ---------------------------
(***************************************************************************)
(* Proofs about Squads for any monsters, names, slots and size of a squad. *)
(*                                                                         *)
(* LiveSquadsAgree needs only that nothing refers to a monster before it   *)
(* is spawned and that no two monsters lead each other, corpses included.  *)
(* The slots need, beyond that, that a leader has started (so that a squad *)
(* begins with no slot marked).                                            *)
(***************************************************************************)
EXTENDS Squads, FiniteSetTheorems, WellFoundedInduction, TLAPS

(* Before a monster is spawned no handle points to it.                     *)
UnbornUnknown ==
  \A m \in Monsters : phase[m] = "unborn" =>
    leader[m] = None /\ \A l \in Monsters : m \notin members[l] /\ leader[l] # m

(* A leader has started, and before that its slots are all free.           *)
LeadersStarted ==
  \A l \in Monsters :
    /\ \A m \in Monsters : leader[m] = l => phase[l] \in {"running", "dead"}
    /\ phase[l] \in {"unborn", "unstarted", "dying"} => slots[l] = {}

(* No two monsters lead each other, alive or dead.                         *)
NoPairs ==
  \A m, n \in Monsters : leader[m] = n /\ leader[n] = m => m = n

IInv ==
  /\ TypeOK
  /\ NoPairs
  /\ UnbornUnknown
  /\ LeadersStarted
  /\ LiveSquadsAgree
  /\ SlotExclusive
  /\ NoSlotLeaks

LEMMA LeastIsLeast ==
  ASSUME NEW S, S \subseteq Nat, S # {}
  PROVE  Least(S) \in S
<1>1. PICK x \in S : \A y \in S : ~(<<y, x>> \in OpToRel(<, Nat))
  BY NatLessThanWellFounded, WFMin
<1>2. ASSUME NEW y \in S  PROVE x <= y
  <2>1. x \in Nat /\ y \in Nat /\ <<y, x>> \in Nat \X Nat
    OBVIOUS
  <2>2. ~(y < x)
    BY <1>1, <2>1 DEF OpToRel
  <2> QED
    BY <2>1, <2>2
<1> QED
  BY <1>2 DEF Least

LEMMA SlotFacts ==
  /\ Slots \subseteq Nat /\ NoSlot \notin Slots /\ Split \notin Slots
BY SizesAssumption DEF Slots, NoSlot, Split

(* What VacateSlot does, in a squad and outside.                           *)
LEMMA VacateEffect ==
  ASSUME TypeOK, NEW m \in Monsters, VacateSlot(m)
  PROVE  /\ leader[m] = None => slots' = slots /\ mySlot' = mySlot
         /\ leader[m] # None =>
              /\ slots' = [slots EXCEPT ![leader[m]] = @ \ {mySlot[m]}]
              /\ mySlot' = [mySlot EXCEPT ![m] = NoSlot]
<1>1. CASE leader[m] = None
  BY <1>1 DEF TypeOK, VacateSlot, Vacated, MySquadLeader, InSquad
<1>2. CASE leader[m] # None
  BY <1>2 DEF TypeOK, VacateSlot, Vacated, MySquadLeader, InSquad
<1> QED
  BY <1>1, <1>2

(* What a choice of a schedule does to the slots: V is what the squad has  *)
(* marked before, h what m holds before, S and k the same afterwards.      *)
SlotChange(m, V, h, S, k) ==
  /\ slots'  = [slots EXCEPT ![leader[m]] = S]
  /\ mySlot' = [mySlot EXCEPT ![m] = k]
  /\ \/ k \in {h, Split} /\ S = V
     \/ k \in Slots /\ k \notin V /\ S = V \cup {k}

LEMMA OccupyEffect ==
  ASSUME TypeOK, NEW m \in Monsters, NEW desired \in SUBSET Slots, NEW foe,
         NEW V \in SUBSET Slots, NEW marked, marked = [slots EXCEPT ![leader[m]] = V],
         NEW h \in Slots \cup {NoSlot, Split},
         leader[m] # None, OccupySlot(m, desired, foe, marked, h)
  PROVE  \E S \in SUBSET Slots, k \in Slots \cup {NoSlot, Split} : SlotChange(m, V, h, S, k)
<1> DEFINE l == leader[m]
           free == desired \ V
<1>1. l \in Monsters /\ marked[l] = V
  BY DEF TypeOK
<1>2. CASE SquadEnemySplit(l, foe)
  <2>1. slots' = marked /\ mySlot' = [mySlot EXCEPT ![m] = Split]
    BY <1>2 DEF OccupySlot
  <2> QED
    BY <2>1 DEF SlotChange
<1>3. CASE free = {} /\ ~SquadEnemySplit(l, foe)
  <2>1. slots' = marked /\ mySlot' = [mySlot EXCEPT ![m] = h]
    BY <1>1, <1>3 DEF OccupySlot
  <2> QED
    BY <2>1 DEF SlotChange
<1>4. CASE free # {} /\ ~SquadEnemySplit(l, foe)
  <2>1. Least(free) \in free
    BY LeastIsLeast, SlotFacts, <1>4
  <2>2. /\ slots' = [marked EXCEPT ![l] = @ \cup {Least(free)}]
        /\ mySlot' = [mySlot EXCEPT ![m] = Least(free)]
    BY <1>1, <1>4 DEF OccupySlot
  <2>3. slots' = [slots EXCEPT ![l] = V \cup {Least(free)}]
    BY <1>1, <2>2 DEF TypeOK
  <2>4. Least(free) \in Slots /\ Least(free) \notin V /\ V \cup {Least(free)} \in SUBSET Slots
    BY <2>1
  <2> QED
    BY <2>2, <2>3, <2>4 DEF SlotChange
<1> QED
  BY <1>2, <1>3, <1>4

(* A change of the schedule first gives the slot back.                     *)
LEMMA MaintainEffect ==
  ASSUME TypeOK, NEW m \in Monsters, MaintainSchedule(m)
  PROVE  /\ UNCHANGED <<phase, leader, members, spoilt>>
         /\ leader[m] = None => slots' = slots /\ mySlot' = mySlot
         /\ leader[m] # None =>
              \E S \in SUBSET Slots, k \in Slots \cup {NoSlot, Split} :
                /\ SlotChange(m, slots[leader[m]] \ {mySlot[m]}, NoSlot, S, k)
                /\ k \in Slots => phase[m] = "running"
<1> DEFINE V == slots[leader[m]] \ {mySlot[m]}
<1>1. CASE VacateSlot(m)
  <2>1. leader[m] # None => V \in SUBSET Slots
    BY DEF TypeOK
  <2> QED
    BY <1>1, <2>1, VacateEffect, SlotFacts DEF MaintainSchedule, SlotChange, TypeOK
<1>2. CASE /\ phase[m] = "running" /\ leader[m] # None
           /\ \E desired \in SUBSET Slots :
                OccupySlot(m, desired, enemy', Vacated(m), NoSlot)
  <2>1. leader[m] \in Monsters /\ V \in SUBSET Slots
    BY <1>2 DEF TypeOK
  <2>2. Vacated(m) = [slots EXCEPT ![leader[m]] = V]
    BY <1>2, <2>1 DEF Vacated, MySquadLeader, InSquad, TypeOK
  <2>3. NoSlot \in Slots \cup {NoSlot, Split}
    OBVIOUS
  <2>4. PICK desired \in SUBSET Slots :
          OccupySlot(m, desired, enemy', Vacated(m), NoSlot)
    BY <1>2
  <2>5. \E S \in SUBSET Slots, k \in Slots \cup {NoSlot, Split} :
          SlotChange(m, V, NoSlot, S, k)
    BY <1>2, <2>1, <2>2, <2>3, <2>4, OccupyEffect
  <2> QED
    BY <1>2, <2>5 DEF MaintainSchedule
<1> QED
  BY <1>1, <1>2 DEF MaintainSchedule, InSquad

(* A schedule set by a task does not, and the history tells when a slot is *)
(* forgotten.                                                              *)
LEMMA SetEffect ==
  ASSUME TypeOK, NEW m \in Monsters, SetSchedule(m)
  PROVE  /\ UNCHANGED <<phase, leader, members, enemy>>
         /\ leader[m] # None /\ phase[m] = "running"
         /\ spoilt' \in [Monsters -> SUBSET {"leftover", "overwritten", "removed", "restored"}]
         /\ \A l \in Monsters : spoilt[l] \subseteq spoilt'[l]
         /\ \A l \in Monsters : "overwritten" \notin spoilt[l] /\ "overwritten" \in spoilt'[l]
                               <=> "overwritten" \notin spoilt[l] /\ l = leader[m]
                                   /\ mySlot[m] \in Slots /\ mySlot'[m] # mySlot[m]
         /\ \E S \in SUBSET Slots, k \in Slots \cup {NoSlot, Split} :
              SlotChange(m, slots[leader[m]], mySlot[m], S, k)
<1>1. leader[m] \in Monsters /\ slots[leader[m]] \in SUBSET Slots
  BY DEF SetSchedule, InSquad, TypeOK
<1>2. slots = [slots EXCEPT ![leader[m]] = slots[leader[m]]] /\ Grenades \in SUBSET Slots
  BY <1>1, SizesAssumption DEF TypeOK, Slots
<1>3. mySlot[m] \in Slots \cup {NoSlot, Split}
  BY DEF TypeOK
<1>4. leader[m] # None /\ OccupySlot(m, Grenades, enemy, slots, mySlot[m])
  BY DEF SetSchedule, InSquad
<1>5. \E S \in SUBSET Slots, k \in Slots \cup {NoSlot, Split} :
        SlotChange(m, slots[leader[m]], mySlot[m], S, k)
  BY <1>1, <1>2, <1>3, <1>4, OccupyEffect
<1>6. spoilt' = [spoilt EXCEPT ![leader[m]] =
                   @ \cup IF mySlot[m] \in Slots /\ mySlot'[m] # mySlot[m]
                          THEN {"overwritten"} ELSE {}]
  BY DEF SetSchedule
<1>7. /\ spoilt' \in [Monsters -> SUBSET {"leftover", "overwritten", "removed", "restored"}]
      /\ \A l \in Monsters : spoilt[l] \subseteq spoilt'[l]
      /\ \A l \in Monsters : "overwritten" \notin spoilt[l] /\ "overwritten" \in spoilt'[l]
                            <=> "overwritten" \notin spoilt[l] /\ l = leader[m]
                                /\ mySlot[m] \in Slots /\ mySlot'[m] # mySlot[m]
  BY <1>1, <1>6 DEF TypeOK
<1> QED
  BY <1>4, <1>5, <1>7 DEF SetSchedule

(* What the death of m does to leaders and lists, whether it leads, follows *)
(* or belongs to nobody: a living monster other than m keeps its leader     *)
(* unless that is m, and drops out of no list but m's. A corpse whose leader  *)
(* has died since it recruited still has followers, and keeps them.         *)
LEMMA KilledEffect ==
  ASSUME TypeOK, LiveSquadsAgree, NoPairs, NEW m \in Monsters, Killed(m)
  PROVE  /\ VacateSlot(m) /\ spoilt' = spoilt
         /\ phase' = [phase EXCEPT ![m] = IF @ \in {"running", "dead"} THEN "dead" ELSE "dying"]
         /\ leader' \in [Monsters -> Monsters \cup {None}]
         /\ members' \in [Monsters -> SUBSET Monsters]
         /\ leader'[m] = None
         /\ \A n \in Monsters : leader'[n] = leader[n] \/ leader'[n] = None
         /\ \A n, l \in Monsters : n \in members'[l] => n \in members[l]
         /\ \A n \in Monsters : Alive(n) /\ n # m /\ leader[n] # m => leader'[n] = leader[n]
         /\ leader[m] = m =>
              /\ members'[m] = {}
              /\ \A n \in Monsters : Alive(n) /\ leader[n] = m => leader'[n] = None
         /\ leader[m] # m =>
              /\ members'[m] = members[m]
              /\ \A n \in Monsters : n # m => leader'[n] = leader[n]
         /\ \A n, l \in Monsters :
              Alive(n) /\ l # m /\ n # l /\ n \in members[l] => n \in members'[l]
<1> DEFINE l == leader[m]
           ll == MySquadLeader(l)
<1>a. /\ Exists(m) /\ VacateSlot(m) /\ spoilt' = spoilt
      /\ phase' = [phase EXCEPT ![m] = IF @ \in {"running", "dead"} THEN "dead" ELSE "dying"]
  BY DEF Killed
<1>b. leader \in [Monsters -> Monsters \cup {None}] /\ members \in [Monsters -> SUBSET Monsters]
  BY DEF TypeOK
<1>c. None \notin Monsters
  BY MonstersAssumption
<1>1. CASE l = None
  <2>1. leader' = leader /\ members' = members
    BY <1>1 DEF Killed, InSquad
  <2> QED
    BY <1>1, <1>a, <1>b, <1>c, <2>1
<1>2. CASE l # None /\ m = ll
  <2>1. l = m
    <3>1. l \in Monsters
      BY <1>2, <1>b
    <3>2. CASE leader[l] = None
      BY <1>2, <3>2 DEF MySquadLeader, InSquad
    <3>3. CASE leader[l] # None
      <4>1. leader[l] = m
        BY <1>2, <3>3 DEF MySquadLeader, InSquad
      <4> QED
        BY <3>1, <4>1 DEF NoPairs
    <3> QED
      BY <3>2, <3>3
  <2>2. SquadRemove(m, m) /\ MySquadLeader(m) = m
    BY <1>2, <2>1 DEF Killed, InSquad
  <2>3. /\ leader' = [n \in Monsters |-> IF n \in members[m] \cup {m} THEN None ELSE leader[n]]
        /\ members' = [members EXCEPT ![m] = {}]
    BY <2>2 DEF SquadRemove
  <2>4. \A n \in Monsters : Alive(n) /\ n \in members[m] => leader[n] = m
    BY DEF LiveSquadsAgree
  <2>5. \A n \in Monsters : Alive(n) /\ leader[n] = m => n = m \/ n \in members[m]
    BY DEF LiveSquadsAgree
  <2> QED
    BY <1>a, <1>b, <1>c, <2>1, <2>3, <2>4, <2>5
<1>3. CASE l # None /\ m # ll
  <2>1. SquadRemove(l, m)
    BY <1>3 DEF Killed, InSquad
  <2>2. /\ leader' = [leader EXCEPT ![m] = None]
        /\ members' = [members EXCEPT ![ll] = @ \ {l}]
    BY <1>3, <2>1 DEF SquadRemove
  <2>3. l \in Monsters /\ ll \in Monsters
    BY <1>3, <1>b DEF MySquadLeader, InSquad
  <2>4. Alive(l) => ll = l
    BY <1>3, <2>3, <1>a DEF LiveSquadsAgree, MySquadLeader, InSquad
  <2>5. l # m
    BY <1>3 DEF MySquadLeader, InSquad
  <2>6. leader[m] # m
    BY <2>5
  <2>7. /\ leader' \in [Monsters -> Monsters \cup {None}]
        /\ \A n \in Monsters : leader'[n] = IF n = m THEN None ELSE leader[n]
    BY <1>b, <2>2
  <2>8. /\ members' \in [Monsters -> SUBSET Monsters]
        /\ \A k \in Monsters : members'[k] = IF k = ll THEN members[k] \ {l} ELSE members[k]
    BY <1>b, <2>2
  <2>9. ASSUME NEW n \in Monsters, NEW k \in Monsters, Alive(n), n # k, n \in members[k]
        PROVE  n \in members'[k]
    <3>1. CASE k = ll /\ n = l
      BY <2>4, <2>9, <3>1
    <3>2. CASE ~(k = ll /\ n = l)
      BY <2>8, <2>9, <3>2
    <3> QED
      BY <3>1, <3>2
  <2> HIDE DEF l, ll
  <2> QED
    BY <1>a, <1>3, <2>6, <2>7, <2>8, <2>9
<1> QED
  BY <1>1, <1>2, <1>3

LEMMA ForgetEffect ==
  ASSUME TypeOK, NEW R \in SUBSET Monsters, Forget(R)
  PROVE  /\ phase' \in [Monsters -> Phases]
         /\ leader' \in [Monsters -> Monsters \cup {None}]
         /\ members' \in [Monsters -> SUBSET Monsters]
         /\ mySlot' \in [Monsters -> Slots \cup {NoSlot, Split}]
         /\ enemy' \in [Monsters -> Enemies \cup {None}]
         /\ \A m \in R : phase'[m] = "gone" /\ leader'[m] = None
         /\ \A m \in Monsters \ R :
              /\ phase'[m] = phase[m] /\ mySlot'[m] = mySlot[m]
              /\ leader[m] \in R => leader'[m] = None
              /\ leader[m] \notin R => leader'[m] = leader[m]
         /\ \A m, l \in Monsters : m \in members'[l] <=> m \in members[l] /\ m \notin R /\ l \notin R
<1>1. None \notin Monsters
  BY MonstersAssumption
<1>2. phase' \in [Monsters -> Phases] /\ mySlot' \in [Monsters -> Slots \cup {NoSlot, Split}]
  BY DEF Forget, TypeOK, Phases
<1>3. /\ leader' \in [Monsters -> Monsters \cup {None}]
      /\ members' \in [Monsters -> SUBSET Monsters]
      /\ enemy' \in [Monsters -> Enemies \cup {None}]
  BY DEF Forget, TypeOK
<1>4. /\ \A m \in R : phase'[m] = "gone" /\ leader'[m] = None
      /\ \A m \in Monsters \ R :
              /\ phase'[m] = phase[m] /\ mySlot'[m] = mySlot[m]
              /\ leader[m] \in R => leader'[m] = None
              /\ leader[m] \notin R => leader'[m] = leader[m]
  BY <1>1 DEF Forget, TypeOK
<1>5. \A m, l \in Monsters : m \in members'[l] <=> m \in members[l] /\ m \notin R /\ l \notin R
  BY DEF Forget, TypeOK
<1> QED
  BY <1>2, <1>3, <1>4, <1>5

(* Recruiting: x was in no squad; those it takes were in none either.      *)
LEMMA RecruitEffect ==
  ASSUME TypeOK, NEW x \in Monsters, NEW R \in Recruits(x), SquadRecruit(x, R)
  PROVE  /\ R \subseteq Monsters
         /\ \A n \in R : leader[n] = None /\ phase[n] \notin {"unborn", "gone"} /\ n # x
         /\ leader' \in [Monsters -> Monsters \cup {None}]
         /\ members' \in [Monsters -> SUBSET Monsters]
         /\ spoilt' \in [Monsters -> SUBSET {"leftover", "overwritten", "removed", "restored"}]
         /\ R = {} => leader' = leader
         /\ R # {} => \A n \in Monsters :
              leader'[n] = IF n \in R \cup {x} THEN x ELSE leader[n]
         /\ \A l \in Monsters : members'[l] = IF l = x THEN members[x] \cup R ELSE members[l]
         /\ \A l \in Monsters : spoilt[l] \subseteq spoilt'[l]
         /\ "leftover" \in spoilt'[x] \/ \A n \in R \cup {x} : mySlot[n] \notin Slots
<1>1. R \subseteq Recruitable(x)
  BY DEF Recruits
<1>2. R \subseteq Monsters /\ \A n \in R : leader[n] = None /\ phase[n] \notin {"unborn", "gone"} /\ n # x
  <2>1. CASE x \in Named
    BY <1>1, <2>1, MonstersAssumption DEF Recruitable, Exists, InSquad
  <2>2. CASE x \notin Named
    BY <1>1, <2>2, MonstersAssumption DEF Recruitable, Exists, InSquad
  <2> QED
    BY <2>1, <2>2
<1>3. leader' = [n \in Monsters |-> IF R # {} /\ n \in R \cup {x} THEN x ELSE leader[n]]
  BY DEF SquadRecruit
<1>4. members' = [members EXCEPT ![x] = @ \cup R]
  BY DEF SquadRecruit
<1>5. /\ leader' \in [Monsters -> Monsters \cup {None}]
      /\ R = {} => leader' = leader
      /\ R # {} => \A n \in Monsters :
              leader'[n] = IF n \in R \cup {x} THEN x ELSE leader[n]
  BY <1>3 DEF TypeOK
<1>6. /\ members' \in [Monsters -> SUBSET Monsters]
      /\ \A l \in Monsters : members'[l] = IF l = x THEN members[x] \cup R ELSE members[l]
  BY <1>2, <1>4 DEF TypeOK
<1>7. /\ spoilt' \in [Monsters -> SUBSET {"leftover", "overwritten", "removed", "restored"}]
      /\ \A l \in Monsters : spoilt[l] \subseteq spoilt'[l]
      /\ "leftover" \in spoilt'[x] \/ \A n \in R \cup {x} : mySlot[n] \notin Slots
  BY DEF SquadRecruit, TypeOK
<1> QED
  BY <1>2, <1>5, <1>6, <1>7

-----------------------------------------------------------------------------

LEMMA InitIInv ==
  ASSUME Init
  PROVE  IInv
<1>1. TypeOK
  BY DEF Init, TypeOK, Phases
<1>2. UnbornUnknown /\ LeadersStarted /\ NoPairs
  BY MonstersAssumption DEF Init, UnbornUnknown, LeadersStarted, NoPairs
<1>3. LiveSquadsAgree
  BY MonstersAssumption DEF Init, LiveSquadsAgree
<1>4. SlotExclusive /\ NoSlotLeaks
  BY MonstersAssumption, SlotFacts DEF Init, SlotExclusive, NoSlotLeaks
<1> QED
  BY <1>1, <1>2, <1>3, <1>4 DEF IInv

(* The steps that leave the squads and the slots alone.                    *)
Bystander ==
  /\ UNCHANGED <<leader, members, slots, mySlot, spoilt>>
  /\ \/ phase' = phase
     \/ \E m \in Monsters : /\ phase[m] = "unborn"
                            /\ phase' = [phase EXCEPT ![m] = "unstarted"]

LEMMA BystanderStep ==
  ASSUME IInv, Bystander
  PROVE  NoPairs' /\ UnbornUnknown' /\ LeadersStarted' /\ LiveSquadsAgree' /\ SlotExclusive' /\ NoSlotLeaks'
<1>0. phase \in [Monsters -> Phases] /\ UNCHANGED <<leader, members, slots, mySlot, spoilt>>
  BY DEF IInv, TypeOK, Bystander
<1>1. \A m \in Monsters :
        \/ phase'[m] = phase[m]
        \/ phase[m] = "unborn" /\ phase'[m] = "unstarted"
  BY <1>0 DEF Bystander
<1>2. UnbornUnknown' /\ LeadersStarted' /\ NoPairs'
  BY <1>0, <1>1 DEF IInv, UnbornUnknown, LeadersStarted, NoPairs
<1>3. LiveSquadsAgree'
  <2> SUFFICES ASSUME NEW m \in Monsters, NEW l \in Monsters, Alive(m)'
               PROVE  /\ leader[m] = l => m = l \/ m \in members[l]
                      /\ m \in members[l] => leader[m] = l
                      /\ leader[l] = m => leader[m] = m
    BY <1>0 DEF LiveSquadsAgree
  <2>1. CASE Alive(m)
    BY <2>1 DEF IInv, LiveSquadsAgree
  <2>2. CASE phase[m] = "unborn"
    BY <2>2, MonstersAssumption DEF IInv, UnbornUnknown
  <2> QED
    BY <1>1, <2>1, <2>2 DEF Alive
<1>4. SlotExclusive'
  BY <1>0 DEF IInv, SlotExclusive
<1>5. NoSlotLeaks'
  <2>1. \A m \in Monsters : Alive(m) => Alive(m)'
    BY <1>1 DEF Alive
  <2> QED
    BY <1>0, <2>1 DEF IInv, NoSlotLeaks
<1> QED
  BY <1>2, <1>3, <1>4, <1>5

LEMMA StartStep ==
  ASSUME IInv, NEW x \in Monsters, StartMonster(x)
  PROVE  IInv'
<1>t. TypeOK /\ None \notin Monsters
  BY MonstersAssumption DEF IInv
<1>p. /\ phase[x] \in {"unstarted", "dying"}
      /\ phase' = [phase EXCEPT ![x] = IF @ = "dying" THEN "dead" ELSE "running"]
      /\ UNCHANGED <<slots, mySlot, enemy>>
  BY DEF StartMonster
<1>q. /\ phase' \in [Monsters -> Phases]
      /\ \A n \in Monsters : n # x => phase'[n] = phase[n]
      /\ phase'[x] \in {"running", "dead"}
      /\ \A n \in Monsters : Alive(n)' <=> Alive(n)
  BY <1>p, <1>t DEF TypeOK, Phases, Alive
<1>1. CASE UNCHANGED <<leader, members, spoilt>>
  <2>1. TypeOK'
    BY <1>t, <1>p, <1>q, <1>1 DEF TypeOK
  <2>2. UnbornUnknown' /\ LeadersStarted' /\ NoPairs'
    BY <1>p, <1>q, <1>1 DEF IInv, UnbornUnknown, LeadersStarted, NoPairs
  <2>3. LiveSquadsAgree'
    BY <1>q, <1>1 DEF IInv, LiveSquadsAgree
  <2>4. SlotExclusive' /\ NoSlotLeaks'
    BY <1>p, <1>q, <1>1 DEF IInv, SlotExclusive, NoSlotLeaks
  <2> QED
    BY <2>1, <2>2, <2>3, <2>4 DEF IInv
<1>2. CASE leader[x] = None /\ \E R \in Recruits(x) : SquadRecruit(x, R)
  <2>0. PICK R \in Recruits(x) : SquadRecruit(x, R)
    BY <1>2
  <2>1. /\ R \subseteq Monsters
        /\ \A n \in R : leader[n] = None /\ phase[n] \notin {"unborn", "gone"} /\ n # x
        /\ leader' \in [Monsters -> Monsters \cup {None}]
        /\ members' \in [Monsters -> SUBSET Monsters]
        /\ spoilt' \in [Monsters -> SUBSET {"leftover", "overwritten", "removed", "restored"}]
        /\ R = {} => leader' = leader
        /\ R # {} => \A n \in Monsters :
              leader'[n] = IF n \in R \cup {x} THEN x ELSE leader[n]
        /\ \A l \in Monsters : members'[l] = IF l = x THEN members[x] \cup R ELSE members[l]
        /\ \A l \in Monsters : spoilt[l] \subseteq spoilt'[l]
        /\ "leftover" \in spoilt'[x] \/ \A n \in R \cup {x} : mySlot[n] \notin Slots
    BY <1>t, <2>0, RecruitEffect
  <2>2. TypeOK'
    BY <1>t, <1>p, <1>q, <2>1 DEF TypeOK
  <2>3. UnbornUnknown' /\ LeadersStarted' /\ NoPairs'
    <3>3. NoPairs'
      BY <1>t, <2>1 DEF IInv, NoPairs
    <3>1. UnbornUnknown'
      BY <1>p, <1>q, <1>t, <2>1 DEF IInv, UnbornUnknown
    <3>2. LeadersStarted'
      BY <1>p, <1>q, <1>t, <2>1 DEF IInv, LeadersStarted
    <3> QED
      BY <3>1, <3>2, <3>3
  <2>4. LiveSquadsAgree'
    <3> SUFFICES ASSUME NEW m \in Monsters, NEW l \in Monsters, Alive(m)
                 PROVE  /\ leader'[m] = l => m = l \/ m \in members'[l]
                        /\ m \in members'[l] => leader'[m] = l
                        /\ leader'[l] = m => leader'[m] = m
      BY <1>q DEF LiveSquadsAgree
    <3>1. /\ leader[m] = l => m = l \/ m \in members[l]
          /\ m \in members[l] => leader[m] = l
          /\ leader[l] = m => leader[m] = m
          /\ m \in members[x] => leader[m] = x
      BY DEF IInv, LiveSquadsAgree
    <3> QED
      BY <1>2, <1>t, <2>1, <3>1
  <2>5. SlotExclusive'
    <3> SUFFICES ASSUME NEW l \in Monsters, spoilt'[l] \cap {"leftover", "restored"} = {},
                        NEW m \in Monsters, NEW n \in Monsters,
                        leader'[m] = l, mySlot[m] \in Slots
                 PROVE  /\ mySlot[m] \in slots[l]
                        /\ leader'[n] = l /\ n # m => mySlot[n] # mySlot[m]
      BY <1>p DEF SlotExclusive
    <3>1. spoilt[l] \cap {"leftover", "restored"} = {}
      BY <2>1
    <3>2. leader[m] = l
      BY <2>1
    <3>3. leader'[n] = l => leader[n] = l \/ mySlot[n] \notin Slots
      BY <2>1
    <3> QED
      BY <3>1, <3>2, <3>3 DEF IInv, SlotExclusive
  <2>6. NoSlotLeaks'
    <3> SUFFICES ASSUME NEW l \in Monsters, leader'[l] = l, spoilt'[l] \cap {"overwritten", "removed"} = {},
                        NEW s \in slots[l]
                 PROVE  \E m \in Monsters : Alive(m) /\ leader'[m] = l /\ mySlot[m] = s
      BY <1>p, <1>q DEF NoSlotLeaks
    <3>1. l # x
      BY <1>p DEF IInv, LeadersStarted
    <3>2. leader[l] = l /\ spoilt[l] \cap {"overwritten", "removed"} = {}
      BY <2>1, <3>1
    <3>3. PICK m \in Monsters : Alive(m) /\ leader[m] = l /\ mySlot[m] = s
      BY <3>2 DEF IInv, NoSlotLeaks
    <3>4. leader'[m] = l
      BY <1>2, <1>t, <2>1, <3>3
    <3> QED
      BY <3>3, <3>4
  <2> QED
    BY <2>2, <2>3, <2>4, <2>5, <2>6 DEF IInv
<1> QED
  BY <1>1, <1>2 DEF StartMonster, InSquad

LEMMA MaintainStep ==
  ASSUME IInv, NEW m \in Monsters, MaintainSchedule(m)
  PROVE  IInv'
<1>t. TypeOK /\ None \notin Monsters
  BY MonstersAssumption DEF IInv
<1>0. /\ UNCHANGED <<phase, leader, members, spoilt>>
      /\ leader[m] = None => slots' = slots /\ mySlot' = mySlot
      /\ leader[m] # None =>
           \E S \in SUBSET Slots, k \in Slots \cup {NoSlot, Split} :
             /\ SlotChange(m, slots[leader[m]] \ {mySlot[m]}, NoSlot, S, k)
             /\ k \in Slots => phase[m] = "running"
  BY <1>t, MaintainEffect
<1>1. enemy' \in [Monsters -> Enemies \cup {None}]
  BY <1>t DEF MaintainSchedule, SquadMakeEnemy, TypeOK
<1>2. CASE leader[m] = None
  <2>1. TypeOK'
    BY <1>t, <1>0, <1>1, <1>2 DEF TypeOK
  <2>2. Bystander
    BY <1>0, <1>2 DEF Bystander
  <2> QED
    BY <2>1, <2>2, BystanderStep DEF IInv
<1>3. CASE leader[m] # None
  <2> DEFINE l == leader[m]
             V == slots[l] \ {mySlot[m]}
  <2>1. PICK S \in SUBSET Slots, k \in Slots \cup {NoSlot, Split} :
          SlotChange(m, V, NoSlot, S, k) /\ (k \in Slots => phase[m] = "running")
    BY <1>0, <1>3
  <2>2. /\ l \in Monsters
        /\ slots' \in [Monsters -> SUBSET Slots]
        /\ mySlot' \in [Monsters -> Slots \cup {NoSlot, Split}]
        /\ \A x \in Monsters : slots'[x] = IF x = l THEN S ELSE slots[x]
        /\ \A n \in Monsters : mySlot'[n] = IF n = m THEN k ELSE mySlot[n]
    BY <1>t, <1>3, <2>1 DEF SlotChange, TypeOK
  <2>3. \/ k \notin Slots /\ S = V
        \/ k \in Slots /\ k \notin V /\ S = V \cup {k} /\ phase[m] = "running"
    BY <2>1, SlotFacts DEF SlotChange
  <2>4. TypeOK'
    BY <1>t, <1>0, <1>1, <2>2 DEF TypeOK
  <2>5. UnbornUnknown' /\ LiveSquadsAgree' /\ NoPairs'
    BY <1>0 DEF IInv, UnbornUnknown, LiveSquadsAgree, Alive, NoPairs
  <2>6. LeadersStarted'
    <3>1. phase[l] \in {"running", "dead"}
      BY <2>2 DEF IInv, LeadersStarted
    <3> QED
      BY <1>0, <2>2, <3>1 DEF IInv, LeadersStarted
  <2>7. SlotExclusive'
    <3> SUFFICES ASSUME NEW x \in Monsters, spoilt[x] \cap {"leftover", "restored"} = {},
                        NEW a \in Monsters, NEW b \in Monsters,
                        leader[a] = x, mySlot'[a] \in Slots
                 PROVE  /\ mySlot'[a] \in slots'[x]
                        /\ leader[b] = x /\ b # a => mySlot'[b] # mySlot'[a]
      BY <1>0 DEF SlotExclusive
    <3>1. ASSUME NEW c \in Monsters, NEW d \in Monsters, leader[c] = x, mySlot[c] \in Slots
          PROVE  /\ mySlot[c] \in slots[x]
                 /\ leader[d] = x /\ d # c => mySlot[d] # mySlot[c]
      BY <3>1 DEF IInv, SlotExclusive
    <3>2. CASE x # l
      BY <2>2, <3>1, <3>2
    <3>3. CASE x = l
      <4>1. \A c \in Monsters : leader[c] = l /\ c # m /\ mySlot[c] \in Slots => mySlot[c] \in V
        <5> SUFFICES ASSUME NEW c \in Monsters, leader[c] = l, c # m, mySlot[c] \in Slots
                     PROVE  mySlot[c] \in slots[l] /\ mySlot[c] # mySlot[m]
          OBVIOUS
        <5> QED
          BY <3>1, <3>3
      <4>2. CASE a = m
        BY <2>2, <2>3, <3>3, <4>1, <4>2
      <4>3. CASE a # m
        BY <2>2, <2>3, <3>1, <3>3, <4>1, <4>3
      <4> QED
        BY <4>2, <4>3
    <3> QED
      BY <3>2, <3>3
  <2>8. NoSlotLeaks'
    <3> SUFFICES ASSUME NEW x \in Monsters, leader[x] = x, spoilt[x] \cap {"overwritten", "removed"} = {},
                        NEW s \in slots'[x]
                 PROVE  \E n \in Monsters : Alive(n) /\ leader[n] = x /\ mySlot'[n] = s
      BY <1>0 DEF NoSlotLeaks, Alive
    <3>1. CASE s \in slots[x] /\ (x = l => s # mySlot[m])
      <4>1. PICK n \in Monsters : Alive(n) /\ leader[n] = x /\ mySlot[n] = s
        BY <3>1 DEF IInv, NoSlotLeaks
      <4>2. n # m
        BY <3>1, <4>1
      <4> QED
        BY <2>2, <4>1, <4>2
    <3>2. CASE x = l /\ s = k /\ phase[m] = "running"
      BY <2>2, <3>2 DEF Alive
    <3> QED
      BY <2>2, <2>3, <3>1, <3>2
  <2> QED
    BY <2>4, <2>5, <2>6, <2>7, <2>8 DEF IInv
<1> QED
  BY <1>2, <1>3

(* A task's schedule leaves what the others hold alone; what m forgets     *)
(* stays marked, and is the only slot that does.                           *)
LEMMA SetStep ==
  ASSUME IInv, NEW m \in Monsters, SetSchedule(m)
  PROVE  IInv'
<1>t. TypeOK /\ None \notin Monsters
  BY MonstersAssumption DEF IInv
<1> DEFINE l == leader[m]
<1>0. /\ UNCHANGED <<phase, leader, members, enemy>>
      /\ l # None /\ phase[m] = "running"
      /\ spoilt' \in [Monsters -> SUBSET {"leftover", "overwritten", "removed", "restored"}]
      /\ \A x \in Monsters : spoilt[x] \subseteq spoilt'[x]
      /\ \A x \in Monsters : "overwritten" \notin spoilt[x] /\ "overwritten" \in spoilt'[x]
                            <=> "overwritten" \notin spoilt[x] /\ x = l
                                /\ mySlot[m] \in Slots /\ mySlot'[m] # mySlot[m]
      /\ \E S \in SUBSET Slots, k \in Slots \cup {NoSlot, Split} :
           SlotChange(m, slots[l], mySlot[m], S, k)
  BY <1>t, SetEffect
<1>1. PICK S \in SUBSET Slots, k \in Slots \cup {NoSlot, Split} :
        SlotChange(m, slots[l], mySlot[m], S, k)
  BY <1>0
<1>2. /\ l \in Monsters
      /\ slots' \in [Monsters -> SUBSET Slots]
      /\ mySlot' \in [Monsters -> Slots \cup {NoSlot, Split}]
      /\ \A x \in Monsters : slots'[x] = IF x = l THEN S ELSE slots[x]
      /\ \A n \in Monsters : mySlot'[n] = IF n = m THEN k ELSE mySlot[n]
  BY <1>t, <1>0, <1>1 DEF SlotChange, TypeOK
<1>3. \/ k = mySlot[m] /\ S = slots[l]
      \/ k \notin Slots /\ S = slots[l]
      \/ k \in Slots /\ k \notin slots[l] /\ S = slots[l] \cup {k}
  BY <1>1, SlotFacts DEF SlotChange
<1>4. TypeOK'
  BY <1>t, <1>0, <1>2 DEF TypeOK
<1>5. UnbornUnknown' /\ LiveSquadsAgree' /\ NoPairs'
  BY <1>0 DEF IInv, UnbornUnknown, LiveSquadsAgree, Alive, NoPairs
<1>6. LeadersStarted'
  <2>1. phase[l] \in {"running", "dead"}
    BY <1>2 DEF IInv, LeadersStarted
  <2> QED
    BY <1>0, <1>2, <2>1 DEF IInv, LeadersStarted
<1>7. SlotExclusive'
  <2> SUFFICES ASSUME NEW x \in Monsters, spoilt'[x] \cap {"leftover", "restored"} = {},
                      NEW a \in Monsters, NEW b \in Monsters,
                      leader[a] = x, mySlot'[a] \in Slots
               PROVE  /\ mySlot'[a] \in slots'[x]
                      /\ leader[b] = x /\ b # a => mySlot'[b] # mySlot'[a]
    BY <1>0 DEF SlotExclusive
  <2>0. spoilt[x] \cap {"leftover", "restored"} = {}
    BY <1>0
  <2>1. ASSUME NEW c \in Monsters, NEW d \in Monsters, leader[c] = x, mySlot[c] \in Slots
        PROVE  /\ mySlot[c] \in slots[x]
               /\ leader[d] = x /\ d # c => mySlot[d] # mySlot[c]
    BY <2>0, <2>1 DEF IInv, SlotExclusive
  <2>2. CASE x # l
    BY <1>2, <2>1, <2>2
  <2>3. CASE x = l
    <3>1. CASE a = m
      BY <1>2, <1>3, <2>1, <2>3, <3>1
    <3>2. CASE a # m
      BY <1>2, <1>3, <2>1, <2>3, <3>2
    <3> QED
      BY <3>1, <3>2
  <2> QED
    BY <2>2, <2>3
<1>8. NoSlotLeaks'
  <2> SUFFICES ASSUME NEW x \in Monsters, leader[x] = x,
                      spoilt'[x] \cap {"overwritten", "removed"} = {}, NEW s \in slots'[x]
               PROVE  \E n \in Monsters : Alive(n) /\ leader[n] = x /\ mySlot'[n] = s
    BY <1>0 DEF NoSlotLeaks, Alive
  <2>0. /\ spoilt[x] \cap {"overwritten", "removed"} = {}
        /\ x = l /\ mySlot[m] \in Slots => k = mySlot[m]
    BY <1>0, <1>2
  <2>1. CASE s \in slots[x]
    <3>1. PICK n \in Monsters : Alive(n) /\ leader[n] = x /\ mySlot[n] = s
      BY <2>0, <2>1 DEF IInv, NoSlotLeaks
    <3>2. s \in Slots
      BY <1>t, <2>1 DEF TypeOK
    <3> QED
      BY <1>2, <2>0, <3>1, <3>2
  <2>2. CASE x = l /\ s = k
    BY <1>0, <1>2, <2>2 DEF Alive
  <2> QED
    BY <1>2, <1>3, <2>1, <2>2
<1> QED
  BY <1>4, <1>5, <1>6, <1>7, <1>8 DEF IInv

LEMMA KilledStep ==
  ASSUME IInv, NEW m \in Monsters, Killed(m)
  PROVE  IInv'
<1>t. TypeOK /\ None \notin Monsters /\ LiveSquadsAgree /\ NoPairs
  BY MonstersAssumption DEF IInv
<1>0. /\ VacateSlot(m) /\ spoilt' = spoilt
      /\ phase' = [phase EXCEPT ![m] = IF @ \in {"running", "dead"} THEN "dead" ELSE "dying"]
      /\ leader' \in [Monsters -> Monsters \cup {None}]
      /\ members' \in [Monsters -> SUBSET Monsters]
      /\ leader'[m] = None
      /\ \A n \in Monsters : leader'[n] = leader[n] \/ leader'[n] = None
      /\ \A n, l \in Monsters : n \in members'[l] => n \in members[l]
      /\ \A n \in Monsters : Alive(n) /\ n # m /\ leader[n] # m => leader'[n] = leader[n]
      /\ leader[m] = m =>
           /\ members'[m] = {}
           /\ \A n \in Monsters : Alive(n) /\ leader[n] = m => leader'[n] = None
      /\ leader[m] # m =>
           /\ members'[m] = members[m]
           /\ \A n \in Monsters : n # m => leader'[n] = leader[n]
      /\ \A n, l \in Monsters :
           Alive(n) /\ l # m /\ n # l /\ n \in members[l] => n \in members'[l]
  BY <1>t, KilledEffect
<1>a. Exists(m) /\ enemy' = enemy
  BY DEF Killed
<1>1. /\ phase' \in [Monsters -> Phases]
      /\ \A n \in Monsters : n # m => phase'[n] = phase[n]
      /\ phase[m] \in {"running", "dead"} => phase'[m] = "dead"
      /\ phase[m] \in {"unstarted", "dying"} => phase'[m] = "dying"
      /\ \A n \in Monsters : Alive(n)' <=> Alive(n) /\ n # m
  BY <1>t, <1>0, <1>a DEF TypeOK, Phases, Alive, Exists
<1>2. /\ leader[m] = None => slots' = slots /\ mySlot' = mySlot
      /\ leader[m] # None =>
           /\ slots' = [slots EXCEPT ![leader[m]] = @ \ {mySlot[m]}]
           /\ mySlot' = [mySlot EXCEPT ![m] = NoSlot]
  BY <1>t, <1>0, VacateEffect
<1>3. /\ \A x \in Monsters :
           slots'[x] = IF x = leader[m] THEN slots[x] \ {mySlot[m]} ELSE slots[x]
      /\ \A n \in Monsters : n # m => mySlot'[n] = mySlot[n]
      /\ slots' \in [Monsters -> SUBSET Slots]
      /\ mySlot' \in [Monsters -> Slots \cup {NoSlot, Split}]
  <2>1. CASE leader[m] = None
    BY <1>t, <1>2, <2>1 DEF TypeOK
  <2>2. CASE leader[m] # None
    BY <1>t, <1>2, <2>2 DEF TypeOK
  <2> QED
    BY <2>1, <2>2
<1>4. TypeOK'
  BY <1>t, <1>0, <1>a, <1>1, <1>3 DEF TypeOK
<1>c. /\ phase[m] \in {"unstarted", "running", "dying", "dead"}
      /\ phase'[m] # "unborn"
  BY <1>t, <1>a, <1>1 DEF TypeOK, Phases, Exists
<1>5. UnbornUnknown'
  BY <1>t, <1>0, <1>1, <1>c DEF IInv, UnbornUnknown
<1>6. LeadersStarted'
  <2>1. ASSUME NEW l \in Monsters, NEW n \in Monsters, leader'[n] = l
        PROVE  phase'[l] \in {"running", "dead"}
    <3>1. phase[l] \in {"running", "dead"}
      BY <1>t, <1>0, <2>1 DEF IInv, LeadersStarted
    <3> QED
      BY <1>1, <3>1
  <2>2. ASSUME NEW l \in Monsters, phase'[l] \in {"unborn", "unstarted", "dying"}
        PROVE  slots'[l] = {}
    <3>1. phase[l] \in {"unborn", "unstarted", "dying"}
      BY <1>1, <1>c, <2>2
    <3> QED
      BY <1>3, <3>1 DEF IInv, LeadersStarted
  <2> QED
    BY <2>1, <2>2 DEF LeadersStarted
<1>b. NoPairs'
  BY <1>t, <1>0 DEF IInv, NoPairs
<1>7. LiveSquadsAgree'
  <2> SUFFICES ASSUME NEW n \in Monsters, NEW l \in Monsters, Alive(n), n # m
               PROVE  /\ leader'[n] = l => n = l \/ n \in members'[l]
                      /\ n \in members'[l] => leader'[n] = l
                      /\ leader'[l] = n => leader'[n] = n
    BY <1>1 DEF LiveSquadsAgree
  <2>1. /\ leader[n] = l => n = l \/ n \in members[l]
        /\ n \in members[l] => leader[n] = l
        /\ leader[l] = n => leader[n] = n
    BY <1>t DEF LiveSquadsAgree
  <2>2. leader'[n] = l => n = l \/ n \in members'[l]
    BY <1>t, <1>0, <2>1
  <2>3. n \in members'[l] => leader'[n] = l
    <3>1. CASE l # m
      BY <1>0, <2>1, <3>1
    <3>2. CASE l = m
      BY <1>0, <2>1, <3>2
    <3> QED
      BY <3>1, <3>2
  <2>4. leader'[l] = n => leader'[n] = n
    BY <1>t, <1>0, <2>1
  <2> QED
    BY <2>2, <2>3, <2>4
<1>8. SlotExclusive'
  <2> SUFFICES ASSUME NEW x \in Monsters, spoilt[x] \cap {"leftover", "restored"} = {},
                      NEW a \in Monsters, NEW b \in Monsters,
                      leader'[a] = x, mySlot'[a] \in Slots
               PROVE  /\ mySlot'[a] \in slots'[x]
                      /\ leader'[b] = x /\ b # a => mySlot'[b] # mySlot'[a]
    BY <1>0 DEF SlotExclusive
  <2>1. leader[a] = x /\ a # m /\ mySlot'[a] = mySlot[a]
    BY <1>t, <1>0, <1>3
  <2>2. leader'[b] = x => leader[b] = x /\ b # m /\ mySlot'[b] = mySlot[b]
    BY <1>t, <1>0, <1>3
  <2>3. ASSUME NEW c \in Monsters
        PROVE  /\ mySlot[a] \in slots[x]
               /\ leader[c] = x /\ c # a => mySlot[c] # mySlot[a]
    BY <2>1 DEF IInv, SlotExclusive
  <2>4. leader[m] = x => mySlot[m] # mySlot[a]
    BY <2>1, <2>3
  <2> QED
    BY <1>3, <2>1, <2>2, <2>3, <2>4
<1>9. NoSlotLeaks'
  <2> SUFFICES ASSUME NEW x \in Monsters, leader'[x] = x, spoilt[x] \cap {"overwritten", "removed"} = {},
                      NEW s \in slots'[x]
               PROVE  \E n \in Monsters : Alive(n) /\ n # m /\ leader'[n] = x /\ mySlot'[n] = s
    BY <1>0, <1>1 DEF NoSlotLeaks
  <2>1. leader[x] = x /\ x # m /\ s \in slots[x]
    BY <1>t, <1>0, <1>3
  <2>2. PICK n \in Monsters : Alive(n) /\ leader[n] = x /\ mySlot[n] = s
    BY <1>0, <2>1 DEF IInv, NoSlotLeaks
  <2>3. n # m
    BY <1>3, <2>2
  <2> QED
    BY <1>0, <1>3, <2>1, <2>2, <2>3
<1> QED
  BY <1>4, <1>5, <1>6, <1>b, <1>7, <1>8, <1>9 DEF IInv

LEMMA RemoveStep ==
  ASSUME IInv, NEW R \in SUBSET Monsters, Forget(R),
         \/ \E x \in Monsters : R = {x} /\ Remove(x)
         \/ Restore(R)
  PROVE  IInv'
<1>t. TypeOK /\ None \notin Monsters
  BY MonstersAssumption DEF IInv
<1>0. /\ phase' \in [Monsters -> Phases]
      /\ leader' \in [Monsters -> Monsters \cup {None}]
      /\ members' \in [Monsters -> SUBSET Monsters]
      /\ mySlot' \in [Monsters -> Slots \cup {NoSlot, Split}]
      /\ enemy' \in [Monsters -> Enemies \cup {None}]
      /\ \A m \in R : phase'[m] = "gone" /\ leader'[m] = None
      /\ \A m \in Monsters \ R :
           /\ phase'[m] = phase[m] /\ mySlot'[m] = mySlot[m]
           /\ leader[m] \in R => leader'[m] = None
           /\ leader[m] \notin R => leader'[m] = leader[m]
      /\ \A m, l \in Monsters : m \in members'[l] <=> m \in members[l] /\ m \notin R /\ l \notin R
  BY <1>t, ForgetEffect
<1>1. /\ slots' \in [Monsters -> SUBSET Slots]
      /\ spoilt' \in [Monsters -> SUBSET {"leftover", "overwritten", "removed", "restored"}]
      /\ \A l \in Monsters : spoilt[l] \subseteq spoilt'[l]
      /\ \A l \in Monsters : slots'[l] \subseteq slots[l]
  <2>1. CASE \E x \in Monsters : R = {x} /\ Remove(x)
    BY <1>t, <2>1 DEF Remove, TypeOK
  <2>2. CASE Restore(R)
    BY <1>t, <2>2 DEF Restore, TypeOK
  <2> QED
    BY <2>1, <2>2
<1>2. TypeOK'
  BY <1>0, <1>1 DEF TypeOK
<1>3. \A n, l \in Monsters : leader'[n] = l =>
        n \notin R /\ l \notin R /\ leader[n] = l /\ mySlot'[n] = mySlot[n]
  BY <1>t, <1>0
<1>4. \A n \in Monsters : Alive(n)' <=> Alive(n) /\ n \notin R
  BY <1>0 DEF Alive
<1>5. UnbornUnknown' /\ NoPairs'
  <2>1. UnbornUnknown'
    BY <1>t, <1>0 DEF IInv, UnbornUnknown
  <2>2. NoPairs'
    BY <1>3 DEF IInv, NoPairs
  <2> QED
    BY <2>1, <2>2
<1>6. LeadersStarted'
  <2>1. ASSUME NEW l \in Monsters, NEW n \in Monsters, leader'[n] = l
        PROVE  phase'[l] \in {"running", "dead"}
    BY <1>0, <1>3, <2>1 DEF IInv, LeadersStarted
  <2>2. ASSUME NEW l \in Monsters, phase'[l] \in {"unborn", "unstarted", "dying"}
        PROVE  slots'[l] = {}
    <3>1. l \notin R /\ phase[l] = phase'[l]
      BY <1>0, <2>2
    <3> QED
      BY <1>1, <2>2, <3>1 DEF IInv, LeadersStarted
  <2> QED
    BY <2>1, <2>2 DEF LeadersStarted
<1>7. LiveSquadsAgree'
  <2> SUFFICES ASSUME NEW n \in Monsters, NEW l \in Monsters, Alive(n), n \notin R
               PROVE  /\ leader'[n] = l => n = l \/ n \in members'[l]
                      /\ n \in members'[l] => leader'[n] = l
                      /\ leader'[l] = n => leader'[n] = n
    BY <1>4 DEF LiveSquadsAgree
  <2>1. /\ leader[n] = l => n = l \/ n \in members[l]
        /\ n \in members[l] => leader[n] = l
        /\ leader[l] = n => leader[n] = n
    BY DEF IInv, LiveSquadsAgree
  <2> QED
    BY <1>0, <1>3, <2>1
<1>8. ASSUME NEW l \in Monsters
      PROVE  \/ slots'[l] = slots[l]
             \/ l \in R
             \/ "restored" \in spoilt'[l]
             \/ \A n \in Monsters : leader[n] = l => mySlot[n] \notin Slots
  <2>1. CASE \E x \in Monsters : R = {x} /\ Remove(x)
    BY <1>t, <2>1 DEF Remove, TypeOK
  <2>2. CASE Restore(R)
    BY <1>t, <2>2 DEF Restore, TypeOK
  <2> QED
    BY <2>1, <2>2
<1>9. SlotExclusive'
  <2> SUFFICES ASSUME NEW x \in Monsters, spoilt'[x] \cap {"leftover", "restored"} = {},
                      NEW a \in Monsters, NEW b \in Monsters,
                      leader'[a] = x, mySlot'[a] \in Slots
               PROVE  /\ mySlot'[a] \in slots'[x]
                      /\ leader'[b] = x /\ b # a => mySlot'[b] # mySlot'[a]
    BY DEF SlotExclusive
  <2>1. spoilt[x] \cap {"leftover", "restored"} = {} /\ x \notin R
    BY <1>1, <1>3
  <2>2. leader[a] = x /\ mySlot'[a] = mySlot[a]
    BY <1>3
  <2>3. leader'[b] = x => leader[b] = x /\ mySlot'[b] = mySlot[b]
    BY <1>3
  <2>4. slots'[x] = slots[x]
    BY <1>8, <2>1, <2>2
  <2> QED
    BY <2>1, <2>2, <2>3, <2>4 DEF IInv, SlotExclusive
<1>10. NoSlotLeaks'
  <2> SUFFICES ASSUME NEW x \in Monsters, leader'[x] = x, spoilt'[x] \cap {"overwritten", "removed"} = {},
                      NEW s \in slots'[x]
               PROVE  \E n \in Monsters : Alive(n) /\ n \notin R /\ leader'[n] = x /\ mySlot'[n] = s
    BY <1>4 DEF NoSlotLeaks
  <2>1. leader[x] = x /\ x \notin R /\ spoilt[x] \cap {"overwritten", "removed"} = {} /\ s \in slots[x] /\ s \in Slots
    BY <1>1, <1>3
  <2>2. PICK n \in Monsters : Alive(n) /\ leader[n] = x /\ mySlot[n] = s
    BY <2>1 DEF IInv, NoSlotLeaks
  <2>3. PICK y \in Monsters : R = {y} /\ Remove(y)
    <3>1. CASE Restore(R)
      BY <3>1 DEF Restore
    <3> QED
      BY <3>1
  <2>4. n # y
    BY <1>t, <2>1, <2>2, <2>3 DEF Remove, TypeOK
  <2> QED
    BY <1>0, <2>1, <2>2, <2>3, <2>4
<1> QED
  BY <1>2, <1>5, <1>6, <1>7, <1>9, <1>10 DEF IInv

LEMMA NextStep ==
  ASSUME IInv, [Next]_vars
  PROVE  IInv'
<1>t. TypeOK
  BY DEF IInv
<1>1. ASSUME NEW m \in Monsters, Spawn(m)
      PROVE  IInv'
  <2>1. TypeOK'
    BY <1>t, <1>1 DEF Spawn, TypeOK, Phases
  <2>2. Bystander
    BY <1>1 DEF Spawn, Bystander
  <2> QED
    BY <2>1, <2>2, BystanderStep DEF IInv
<1>2. ASSUME UNCHANGED <<phase, leader, members, slots, mySlot, spoilt>>,
             enemy' \in [Monsters -> Enemies \cup {None}]
      PROVE  IInv'
  <2>1. TypeOK'
    BY <1>t, <1>2 DEF TypeOK
  <2>2. Bystander
    BY <1>2 DEF Bystander
  <2> QED
    BY <2>1, <2>2, BystanderStep DEF IInv
<1>3. ASSUME NEW m \in Monsters, TakeDamage(m)
      PROVE  IInv'
  <2>1. enemy' \in [Monsters -> Enemies \cup {None}]
    <3>1. PICK hit \in [Squad(MySquadLeader(m)) -> Enemies \cup {None}] :
            enemy' = [n \in Monsters |->
                        IF n \in DOMAIN hit /\ enemy[n] = None THEN hit[n] ELSE enemy[n]]
      BY <1>3 DEF TakeDamage
    <3>2. ASSUME NEW n \in Monsters, n \in DOMAIN hit
          PROVE  hit[n] \in Enemies \cup {None}
      BY <3>2
    <3> QED
      BY <1>t, <3>1, <3>2 DEF TypeOK
  <2> QED
    BY <1>2, <1>3, <2>1 DEF TakeDamage
<1>4. ASSUME NEW m \in Monsters, NEW e \in Enemies, GetEnemy(m, e)
      PROVE  IInv'
  <2>1. enemy' \in [Monsters -> Enemies \cup {None}]
    BY <1>t, <1>4 DEF GetEnemy, TypeOK
  <2> QED
    BY <1>2, <1>4, <2>1 DEF GetEnemy
<1>5. ASSUME NEW e \in Enemies, EnemyRemoved(e)
      PROVE  IInv'
  <2>1. enemy' \in [Monsters -> Enemies \cup {None}]
    BY <1>t, <1>5 DEF EnemyRemoved, TypeOK
  <2> QED
    BY <1>2, <1>5, <2>1 DEF EnemyRemoved
<1>6. ASSUME NEW m \in Monsters, Remove(m)
      PROVE  IInv'
  <2>1. {m} \in SUBSET Monsters /\ Forget({m})
    BY <1>6 DEF Remove
  <2> QED
    BY <1>6, <2>1, RemoveStep
<1>7. ASSUME NEW R \in SUBSET Monsters, Restore(R)
      PROVE  IInv'
  BY <1>7, RemoveStep DEF Restore
<1>8. CASE UNCHANGED vars
  BY <1>2, <1>t, <1>8 DEF vars, TypeOK
<1> QED
  BY <1>1, <1>3, <1>4, <1>5, <1>6, <1>7, <1>8, StartStep, MaintainStep, SetStep, KilledStep DEF Next

(* The invariant holds in every reachable state, for any monsters.         *)
THEOREM Invariant == Spec => []IInv
<1>1. Init => IInv
  BY InitIInv
<1>2. IInv /\ [Next]_vars => IInv'
  BY NextStep
<1> QED
  BY <1>1, <1>2, PTL DEF Spec

(* Types are preserved: slots stay within those a squad has, handles point *)
(* to monsters.                                                            *)
THEOREM TypeCorrect == Spec => []TypeOK
<1>1. IInv => TypeOK
  BY DEF IInv
<1> QED
  BY <1>1, Invariant, PTL

(* A living follower is in its leader's list and no other, and a living    *)
(* leader leads itself.                                                    *)
THEOREM SquadsAgree == Spec => []LiveSquadsAgree
<1>1. IInv => LiveSquadsAgree
  BY DEF IInv
<1> QED
  BY <1>1, Invariant, PTL

(* No two monsters of a squad hold one attack slot unless a slot of an     *)
(* earlier squad was brought along or a game restored.                     *)
THEOREM SlotsExclusive == Spec => []SlotExclusive
<1>1. IInv => SlotExclusive
  BY DEF IInv
<1> QED
  BY <1>1, Invariant, PTL

(* A slot is marked only while somebody alive holds it, unless a holder    *)
(* was removed without being killed, or a task made one ask for another.   *)
THEOREM SlotsDoNotLeak == Spec => []NoSlotLeaks
<1>1. IInv => NoSlotLeaks
  BY DEF IInv
<1> QED
  BY <1>1, Invariant, PTL

-----------------------------------------------------------------------------
(* Rolls.  A step that nobody joins a squad in is a stutter or lets some   *)
(* leave.                                                                  *)

LEMMA SomeLeave ==
  ASSUME TypeOK, leader' \in [Monsters -> Monsters \cup {None}],
         \A n \in Monsters : leader'[n] = leader[n] \/ leader'[n] = None
  PROVE  Rolls!Next
<1> DEFINE M == {n \in Monsters : leader[n] # None /\ leader'[n] = None}
<1>1. leader' = [n \in Monsters |-> IF n \in M THEN None ELSE leader[n]]
  BY DEF TypeOK
<1>2. \A n \in M : leader[n] # None
  OBVIOUS
<1>3. M \in SUBSET Monsters
  OBVIOUS
<1> HIDE DEF M
<1> QED
  BY <1>1, <1>2, <1>3 DEF Rolls!Next, Rolls!Leave

(* There is room in the list for as many as are recruited.                 *)
LEMMA SquadsAreSmall ==
  ASSUME TypeOK, NEW x \in Monsters, NEW R \in Recruits(x), R \subseteq Monsters
  PROVE  R # {} => R \in Bands
<1>1. IsFiniteSet(members[x]) /\ IsFiniteSet(R)
  BY MonstersAssumption, FS_Subset DEF TypeOK
<1>2. Cardinality(members[x]) \in Nat /\ Cardinality(R) \in Nat
  BY <1>1, FS_CardinalityType
<1>3. Cardinality(R) <= MaxFollowers - Cardinality(members[x])
  BY DEF Recruits
<1>4. Cardinality(R) <= MaxFollowers
  BY <1>2, <1>3, SizesAssumption
<1> QED
  BY <1>4 DEF Bands

LEMMA RecruitForms ==
  ASSUME IInv, NEW x \in Monsters, NEW R \in Recruits(x), SquadRecruit(x, R),
         leader[x] = None, phase[x] \in {"unstarted", "dying"}
  PROVE  [Rolls!Next]_leader
<1>1. /\ R \subseteq Monsters
      /\ \A n \in R : leader[n] = None /\ phase[n] \notin {"unborn", "gone"} /\ n # x
      /\ leader' \in [Monsters -> Monsters \cup {None}]
      /\ R = {} => leader' = leader
      /\ R # {} => \A n \in Monsters : leader'[n] = IF n \in R \cup {x} THEN x ELSE leader[n]
  <2>1. TypeOK
    BY DEF IInv
  <2> QED
    BY <2>1, RecruitEffect
<1>2. CASE R = {}
  BY <1>1, <1>2
<1>3. CASE R # {}
  <2>1. R \in Bands
    BY <1>1, <1>3, SquadsAreSmall DEF IInv
  <2>2. \A n \in Monsters : leader[n] # x
    BY DEF IInv, LeadersStarted
  <2>3. leader' = [n \in Monsters |-> IF n \in R \cup {x} THEN x ELSE leader[n]]
    BY <1>1, <1>3
  <2>4. x \notin R /\ \A m \in R \cup {x} : leader[m] = None
    BY <1>1
  <2>5. Rolls!Form(x, R)
    BY <2>2, <2>3, <2>4 DEF Rolls!Form
  <2> QED
    BY <2>1, <2>5 DEF Rolls!Next
<1> QED
  BY <1>2, <1>3

LEMMA RollsStep ==
  ASSUME IInv, [Next]_vars
  PROVE  [Rolls!Next]_leader
<1>t. TypeOK
  BY DEF IInv
<1>1. ASSUME NEW m \in Monsters, StartMonster(m)
      PROVE  [Rolls!Next]_leader
  <2>1. phase[m] \in {"unstarted", "dying"}
    BY <1>1 DEF StartMonster
  <2>2. \/ leader' = leader
        \/ leader[m] = None /\ \E R \in Recruits(m) : SquadRecruit(m, R)
    BY <1>1 DEF StartMonster, InSquad
  <2> QED
    BY <2>1, <2>2, RecruitForms
<1>2. ASSUME NEW m \in Monsters, Killed(m)
      PROVE  Rolls!Next
  BY <1>t, <1>2, KilledEffect, SomeLeave DEF IInv
<1>3. ASSUME NEW R \in SUBSET Monsters, Forget(R)
      PROVE  Rolls!Next
  <2>1. /\ leader' \in [Monsters -> Monsters \cup {None}]
        /\ \A n \in Monsters : leader'[n] = leader[n] \/ leader'[n] = None
    BY <1>t, <1>3, ForgetEffect
  <2> QED
    BY <1>t, <2>1, SomeLeave
<1>4. ASSUME NEW m \in Monsters, Remove(m)
      PROVE  Rolls!Next
  <2>1. {m} \in SUBSET Monsters /\ Forget({m})
    BY <1>4 DEF Remove
  <2> QED
    BY <1>3, <2>1
<1>5. CASE \/ UNCHANGED vars
           \/ \E m \in Monsters : \/ Spawn(m) \/ MaintainSchedule(m) \/ SetSchedule(m) \/ TakeDamage(m)
                                  \/ \E e \in Enemies : GetEnemy(m, e)
           \/ \E e \in Enemies : EnemyRemoved(e)
  BY <1>5 DEF vars, Spawn, MaintainSchedule, SetSchedule, TakeDamage, GetEnemy, EnemyRemoved
<1> QED
  BY <1>1, <1>2, <1>3, <1>4, <1>5 DEF Next, Restore

(* Squads are formed at once out of monsters without one, within the size  *)
(* of a leader's list, and only lose members after that.                   *)
THEOREM SquadsImplementRolls == Spec => ImplementsRolls
<1>1. Init => Rolls!Init
  BY DEF Init, Rolls!Init
<1>2. IInv /\ [Next]_vars => [Rolls!Next]_leader
  BY RollsStep
<1> QED
  BY Invariant, <1>1, <1>2, PTL DEF Spec, ImplementsRolls, Rolls!Spec
=============================================================================
