------------------------------- MODULE Squads -------------------------------
(***************************************************************************)
(* Squads of monsters (CSquadMonster): a monster that starts recruits the  *)
(* others around it, or those of its netname, and becomes their leader.    *)
(* The leader's entity holds the handles of its followers and one set of   *)
(* attack slots; a monster of the squad takes a slot when it chooses a     *)
(* schedule and gives it back when the schedule is over or it dies. A      *)
(* schedule that is replaced from within, by a task, gives nothing back.   *)
(*                                                                         *)
(* A handle of an entity that is removed reads as null: Remove clears it.  *)
(* The order in which SquadRecruit finds entities is arbitrary.            *)
(***************************************************************************)
EXTENDS Naturals, FiniteSets

CONSTANTS
  Monsters,      \* the entities with bits_CAP_SQUAD, all of one class
  Named,         \* those that share a netname
  Flagged,       \* those with SF_SQUADMONSTER_LEADER
  Placed,        \* those in the map from the start; the others are spawned later
  Enemies,       \* what m_hEnemy may be
  NumSlots,      \* the attack slots are 0 .. NumSlots - 1
  Grenades,      \* those a schedule already running may ask for: bits_SLOTS_HGRUNT_GRENADE
  MaxFollowers,  \* MAX_SQUAD_MEMBERS - 1
  None           \* the null handle

ASSUME MonstersAssumption ==
  /\ None \notin Monsters \cup Enemies
  /\ IsFiniteSet(Monsters)
  /\ Named \subseteq Monsters /\ Flagged \subseteq Monsters /\ Placed \subseteq Monsters
ASSUME SizesAssumption ==
  NumSlots \in Nat /\ MaxFollowers \in Nat /\ Grenades \subseteq 0 .. NumSlots - 1

VARIABLES
  phase,    \* where each entity is in its life
  leader,   \* m_hSquadLeader
  members,  \* the handles of m_hSquadMember, as a set
  slots,    \* m_afSquadSlots, used in the leader's entity only
  mySlot,   \* m_iMySlot
  enemy,    \* m_hEnemy
  spoilt    \* history: what happened to the slots kept by each leader

vars == <<phase, leader, members, slots, mySlot, enemy, spoilt>>

Slots  == 0 .. NumSlots - 1
NoSlot == NumSlots        \* bits_NO_SLOT
Split  == NumSlots + 1    \* bits_SLOT_SQUAD_SPLIT, which no leader ever marks

(* "unstarted" until the first think calls StartMonster; a monster killed  *)
(* before that is "dying": its first think comes all the same. Alive means *)
(* not killed yet. IsAlive() holds for longer, until the death animation   *)
(* has ended, and how long that takes is left open here.                   *)
Phases == {"unborn", "unstarted", "running", "dying", "dead", "gone"}
Alive(m)  == phase[m] \in {"unstarted", "running"}
Exists(m) == phase[m] \notin {"unborn", "gone"}

Init ==
  /\ phase   = [m \in Monsters |-> IF m \in Placed THEN "unstarted" ELSE "unborn"]
  /\ leader  = [m \in Monsters |-> None]
  /\ members = [m \in Monsters |-> {}]
  /\ slots   = [m \in Monsters |-> {}]
  /\ mySlot  = [m \in Monsters |-> NoSlot]
  /\ enemy   = [m \in Monsters |-> None]
  /\ spoilt  = [m \in Monsters |-> {}]

InSquad(m)       == leader[m] # None
MySquadLeader(m) == IF InSquad(m) THEN leader[m] ELSE m

(* MySquadMember(0 .. MAX_SQUAD_MEMBERS - 1) of l: its list and itself.    *)
Squad(l) == members[l] \cup {l}

Spawn(m) ==
  /\ phase[m] = "unborn"
  /\ phase' = [phase EXCEPT ![m] = "unstarted"]
  /\ UNCHANGED <<leader, members, slots, mySlot, enemy, spoilt>>

(* Mutant of Recruitable: those of other squads are recruited as well.     *)
Recruitable_Anybody(m) ==
  LET others == IF m \in Named THEN Named ELSE Monsters \ Named
  IN {n \in others \ {m} : Exists(n)}

(* By name every entity that shares it, dead or alive, seen or not; else   *)
(* those without a name, of which a corpse still falling passes IsAlive(). *)
Recruitable(m) ==
  LET others == IF m \in Named THEN Named ELSE Monsters \ Named
  IN {n \in others \ {m} : Exists(n) /\ ~InSquad(n)}

(* SquadAdd fails when the leader's list is full, and the search ends. An  *)
(* unnamed leader takes only those it finds near and can see.              *)
Recruits(m) ==
  LET free == MaxFollowers - Cardinality(members[m])
  IN {R \in SUBSET Recruitable(m) :
        /\ Cardinality(R) <= free
        /\ m \in Named => R = Recruitable(m) \/ Cardinality(R) = free}

SquadRecruit(m, R) ==
  /\ leader'  = [n \in Monsters |-> IF R # {} /\ n \in R \cup {m} THEN m ELSE leader[n]]
  /\ members' = [members EXCEPT ![m] = @ \cup R]
  /\ spoilt'  = [spoilt EXCEPT ![m] =
                   @ \cup IF \E n \in R \cup {m} : mySlot[n] \in Slots
                          THEN {"leftover"} ELSE {}]

StartMonster(m) ==
  /\ phase[m] \in {"unstarted", "dying"}
  /\ phase' = [phase EXCEPT ![m] = IF @ = "dying" THEN "dead" ELSE "running"]
  /\ IF InSquad(m) \/ (m \in Named /\ m \notin Flagged)
       THEN UNCHANGED <<leader, members, spoilt>>
       ELSE \E R \in Recruits(m) : SquadRecruit(m, R)
  /\ UNCHANGED <<slots, mySlot, enemy>>

(* The slots marked in m's squad once m has given its own back. Outside a  *)
(* squad VacateSlot does nothing: m_iMySlot keeps its value.               *)
Vacated(m) ==
  [slots EXCEPT ![MySquadLeader(m)] = IF InSquad(m) THEN @ \ {mySlot[m]} ELSE @]

VacateSlot(m) ==
  /\ slots'  = Vacated(m)
  /\ mySlot' = [mySlot EXCEPT ![m] = IF InSquad(m) THEN NoSlot ELSE @]

(* Some member of the squad fights another enemy than its leader.          *)
SquadEnemySplit(l, foe) == \E n \in Squad(l) : foe[n] \notin {None, foe[l]}

Least(S) == CHOOSE s \in S : \A t \in S : s <= t

(* Mutant of OccupySlot: the slot is not looked for among the free ones.   *)
OccupySlot_AnyBit(m, desired, foe, marked, held) ==
  /\ slots'  = [marked EXCEPT ![leader[m]] = @ \cup {Least(desired)}]
  /\ mySlot' = [mySlot EXCEPT ![m] = Least(desired)]

(* m, of a squad that has marked those slots, wants one of desired; what   *)
(* it holds is replaced when it gets one or when the squad is split, and   *)
(* is not given back here.                                                 *)
OccupySlot(m, desired, foe, marked, held) ==
  LET l    == leader[m]
      free == desired \ marked[l]
  IN IF SquadEnemySplit(l, foe) THEN
       /\ slots'  = marked
       /\ mySlot' = [mySlot EXCEPT ![m] = Split]
     ELSE IF free = {} THEN
       /\ slots'  = marked
       /\ mySlot' = [mySlot EXCEPT ![m] = held]
     ELSE
       /\ slots'  = [marked EXCEPT ![l] = @ \cup {Least(free)}]
       /\ mySlot' = [mySlot EXCEPT ![m] = Least(free)]

(* Those of the squad that see no enemy turn to m's enemy.                 *)
SquadMakeEnemy(m, blind) == [n \in Monsters |-> IF n \in blind THEN enemy[m] ELSE enemy[n]]

(* The schedule of m is over: ScheduleChange, which is VacateSlot, then    *)
(* GetIdealState (which passes a new enemy on) and GetSchedule, which may  *)
(* be after no slot at all. The dead choose no attack.                     *)
MaintainSchedule(m) ==
  /\ \/ /\ phase[m] = "running"
        /\ \/ enemy' = enemy
           \/ /\ InSquad(m) /\ enemy[m] # None
              /\ \E blind \in SUBSET Squad(leader[m]) : enemy' = SquadMakeEnemy(m, blind)
        /\ \E desired \in SUBSET Slots :
             IF InSquad(m) /\ desired # {}
             THEN OccupySlot(m, desired, enemy', Vacated(m), NoSlot)
             ELSE VacateSlot(m)
     \/ /\ phase[m] = "dead"
        /\ VacateSlot(m)
        /\ enemy' = enemy
  /\ UNCHANGED <<phase, leader, members, spoilt>>

(* TASK_SET_SCHEDULE: the last task of the schedule that throws a grenade  *)
(* asks for the schedule that takes cover, which on the hardest skill      *)
(* wants a slot for another grenade. ChangeSchedule does not tell m that   *)
(* its schedule changes, so the slot it still holds is not given back.     *)
SetSchedule(m) ==
  /\ phase[m] = "running"
  /\ InSquad(m)
  /\ mySlot[m] \in Grenades \cup {Split}
  /\ OccupySlot(m, Grenades, enemy, slots, mySlot[m])
  /\ spoilt' = [spoilt EXCEPT ![leader[m]] =
                  @ \cup IF mySlot[m] \in Slots /\ mySlot'[m] # mySlot[m]
                         THEN {"overwritten"} ELSE {}]
  /\ UNCHANGED <<phase, leader, members, enemy>>

(* m sees a new enemy, or falls back on one it remembers.                  *)
GetEnemy(m, e) ==
  /\ phase[m] = "running"
  /\ enemy' = [enemy EXCEPT ![m] = e]
  /\ UNCHANGED <<phase, leader, members, slots, mySlot, spoilt>>

(* The entity every handle of the enemy points to is removed.              *)
EnemyRemoved(e) ==
  /\ enemy' = [n \in Monsters |-> IF enemy[n] = e THEN None ELSE enemy[n]]
  /\ UNCHANGED <<phase, leader, members, slots, mySlot, spoilt>>

(* A blow as heavy as m's whole health, which for a corpse is 5, turns each *)
(* member without an enemy to what its trace to the attacker hits, if any. *)
TakeDamage(m) ==
  /\ Exists(m)
  /\ \E hit \in [Squad(MySquadLeader(m)) -> Enemies \cup {None}] :
       enemy' = [n \in Monsters |->
                   IF n \in DOMAIN hit /\ enemy[n] = None THEN hit[n] ELSE enemy[n]]
  /\ UNCHANGED <<phase, leader, members, slots, mySlot, spoilt>>

(* Mutant of SquadRemove: the followers of a leader that dies keep it.     *)
SquadRemove_KeepsLeader(l, m) ==
  LET ll == MySquadLeader(l)
  IN /\ leader'  = [leader EXCEPT ![m] = None]
     /\ members' = [members EXCEPT ![ll] = IF m = ll THEN {} ELSE @ \ {l}]

(* l->SquadRemove(m). When m leads, the squad is disbanded. Otherwise the  *)
(* list searched is that of l's leader, and what is searched for is l.     *)
SquadRemove(l, m) ==
  LET ll == MySquadLeader(l)
  IN IF m = ll
     THEN /\ leader'  = [n \in Monsters |->
                           IF n \in members[l] \cup {m} THEN None ELSE leader[n]]
          /\ members' = [members EXCEPT ![l] = {}]
     ELSE /\ leader'  = [leader EXCEPT ![m] = None]
          /\ members' = [members EXCEPT ![ll] = @ \ {l}]

(* Mutant of Killed: the slot is not given back.                           *)
Killed_KeepsSlot(m) ==
  /\ Exists(m)
  /\ phase' = [phase EXCEPT ![m] = IF @ \in {"running", "dead"} THEN "dead" ELSE "dying"]
  /\ IF InSquad(m) THEN SquadRemove(leader[m], m) ELSE UNCHANGED <<leader, members>>
  /\ UNCHANGED <<slots, mySlot, enemy, spoilt>>

(* A corpse is killed again by what destroys it.                           *)
Killed(m) ==
  /\ Exists(m)
  /\ phase' = [phase EXCEPT ![m] = IF @ \in {"running", "dead"} THEN "dead" ELSE "dying"]
  /\ VacateSlot(m)
  /\ IF InSquad(m) THEN SquadRemove(leader[m], m) ELSE UNCHANGED <<leader, members>>
  /\ UNCHANGED <<enemy, spoilt>>

(* The entities of R are deleted: faded corpses, killtargets, entities     *)
(* that stay behind at a level change. Nobody calls Killed.                *)
Forget(R) ==
  /\ phase'   = [m \in Monsters |-> IF m \in R THEN "gone" ELSE phase[m]]
  /\ leader'  = [m \in Monsters |->
                   IF m \in R \/ leader[m] \in R THEN None ELSE leader[m]]
  /\ members' = [m \in Monsters |-> IF m \in R THEN {} ELSE members[m] \ R]
  /\ mySlot'  = [m \in Monsters |-> IF m \in R THEN NoSlot ELSE mySlot[m]]
  /\ enemy'   = [m \in Monsters |-> IF m \in R THEN None ELSE enemy[m]]

Remove(m) ==
  /\ Exists(m)
  /\ Forget({m})
  /\ slots'  = [slots EXCEPT ![m] = {}]
  /\ spoilt' = [l \in Monsters |->
                  IF l = leader[m] /\ mySlot[m] \in Slots
                  THEN spoilt[l] \cup {"removed"} ELSE spoilt[l]]

(* A saved game or a level change restores everything but m_afSquadSlots.  *)
Restore(R) ==
  /\ R \subseteq {m \in Monsters : Exists(m)}
  /\ Forget(R)
  /\ slots'  = [m \in Monsters |-> {}]
  /\ spoilt' = [l \in Monsters |->
                  IF \E m \in Monsters : leader[m] = l /\ mySlot[m] \in Slots
                  THEN spoilt[l] \cup {"restored"} ELSE spoilt[l]]

Next ==
  \/ \E m \in Monsters :
       \/ Spawn(m) \/ StartMonster(m) \/ MaintainSchedule(m) \/ SetSchedule(m)
       \/ TakeDamage(m) \/ Killed(m) \/ Remove(m)
       \/ \E e \in Enemies : GetEnemy(m, e)
  \/ \E e \in Enemies : EnemyRemoved(e)
  \/ \E R \in SUBSET Monsters : Restore(R)

Spec == Init /\ [][Next]_vars

-----------------------------------------------------------------------------

TypeOK ==
  /\ phase \in [Monsters -> Phases]
  /\ leader \in [Monsters -> Monsters \cup {None}]
  /\ members \in [Monsters -> SUBSET Monsters]
  /\ slots \in [Monsters -> SUBSET Slots]
  /\ mySlot \in [Monsters -> Slots \cup {NoSlot, Split}]
  /\ enemy \in [Monsters -> Enemies \cup {None}]
  /\ spoilt \in [Monsters -> SUBSET {"leftover", "overwritten", "removed", "restored"}]

(* Through recruiting, deaths, removals and restored games: a living       *)
(* monster that has a leader is in that leader's list and in no other, and *)
(* a living leader leads itself, so that squads do not chain.              *)
LiveSquadsAgree ==
  \A m, l \in Monsters : Alive(m) =>
    /\ leader[m] = l => m = l \/ m \in members[l]
    /\ m \in members[l] => leader[m] = l
    /\ leader[l] = m => leader[m] = m

(* Who is in whose squad, through all recruiting, deaths, removals and     *)
(* restored games, is what SquadRolls says: squads are formed at once out  *)
(* of monsters without one, and only ever lose members.                    *)
Bands == {R \in SUBSET Monsters : R # {} /\ Cardinality(R) <= MaxFollowers}

Rolls == INSTANCE SquadRolls WITH squadOf <- leader

ImplementsRolls == Rolls!Spec

(* Two monsters of a squad never hold the same attack slot, and a slot     *)
(* that is held is marked, unless the leader has taken in a monster that   *)
(* still had the slot of a former squad, or a game was restored while a    *)
(* slot was held: those two break it (m_iMySlot outlives the squad and is  *)
(* saved, m_afSquadSlots is not).                                          *)
SlotExclusive ==
  \A l \in Monsters : spoilt[l] \cap {"leftover", "restored"} = {} =>
    \A m, n \in Monsters : leader[m] = l /\ mySlot[m] \in Slots =>
      /\ mySlot[m] \in slots[l]
      /\ leader[n] = l /\ n # m => mySlot[n] # mySlot[m]

(* A slot of a squad is marked only while a living member of it holds it,  *)
(* whatever schedules, deaths and disbanded squads went before, unless the *)
(* slot of one of its members was lost: a holder was removed that was      *)
(* never killed, or a task made a member ask for a second slot while it    *)
(* held one, and m_iMySlot forgot the first. Those stay marked for good.   *)
NoSlotLeaks ==
  \A l \in Monsters : leader[l] = l /\ spoilt[l] \cap {"overwritten", "removed"} = {} =>
    \A s \in slots[l] : \E m \in Monsters : Alive(m) /\ leader[m] = l /\ mySlot[m] = s

(* squadmonster.h:118 "remove pRemove from my squad": whoever a leader     *)
(* lists has it as leader.                                                 *)
ListedMembersBelong ==
  \A l, m \in Monsters : m \in members[l] => leader[m] = l
=============================================================================
