------------------------- MODULE ScriptedSequences -------------------------
(***************************************************************************)
(* Scripted sequences (CCineMonster): entities that take possession of a   *)
(* monster, have it walk to a mark, wait for the others of the group and   *)
(* play an animation. Scripts and monsters think one at a time, the        *)
(* scripts here share one targetname and so act in concert.                *)
(*                                                                         *)
(* Not modelled: aiscripted_sequence and SF_SCRIPT_OVERRIDESTATE, scripts  *)
(* without a name, with an empty animation, with a moveto of 4 or 5, death *)
(* animations, scripts removed by something else than their end, and a     *)
(* level change that takes the monster along and leaves its script.        *)
(***************************************************************************)
EXTENDS Integers, FiniteSets

CONSTANTS
  Monsters,
  Scripts,
  Cast,        \* the monsters a script may take, of the name in m_iszEntity
  WalkTo,      \* scripts with a mark to walk or to run to (m_fMoveTo 1, 2)
  Repeatable,  \* SF_SCRIPT_REPEATABLE: the others are removed when done
  Idle,        \* those with an idle animation: they take a monster at once
  Squad,       \* monsters that are squad members
  Prey,        \* monsters a barnacle can reach
  None,        \* a null handle
  MaxTurns,    \* how often a monster is taken
  MaxRestores  \* how often a saved game is loaded

ASSUME ScriptsAssumption ==
  /\ IsFiniteSet(Monsters)
  /\ Cast \in [Scripts -> SUBSET Monsters]
  /\ WalkTo \subseteq Scripts /\ Repeatable \subseteq Scripts /\ Idle \subseteq Scripts
  /\ Squad \subseteq Monsters /\ Prey \subseteq Monsters
  /\ None \notin Monsters \cup Scripts
  /\ MaxTurns \in Nat /\ MaxRestores \in Nat

VARIABLES
  script,   \* the fields of each script
  mon,      \* the fields of each monster
  spoilt,   \* history: why the count of those on their way may be wrong
  turns,    \* the possessions
  restores  \* the restored games

vars == <<script, mon, spoilt, turns, restores>>

(* think: the think function that is due, "gone" when the entity is gone;  *)
(* started: m_startTime has been reached.                                  *)
ScriptState == [think   : {"none", "cine", "remove", "gone"},
                target  : Monsters \cup {None},
                delay   : Int,
                started : BOOLEAN]

(* The state idle stands for ALERT too, from which a script takes monsters *)
(* as well if it knows them by name; as an ideal state ALERT and HUNT are  *)
(* told from IDLE. killed is bits_MEMORY_KILLED; task is where the monster *)
(* is in its schedule, if that is a script's schedule: fail is slFail, run *)
(* after a walk that failed, and chomp slBarnacleVictimChomp. caught: it   *)
(* hangs on the tongue of a barnacle.                                      *)
MonsterState == [state  : {"idle", "combat", "prone", "script", "dead", "gone"},
                 ideal  : {"idle", "alert", "combat", "prone", "script", "dead"},
                 task   : {"none", "walk", "fail", "wait", "play", "chomp"},
                 cine   : Scripts \cup {None},
                 killed : BOOLEAN,
                 caught : BOOLEAN]

Init ==
  /\ script = [s \in Scripts |-> [think |-> IF s \in Idle THEN "cine" ELSE "none",
                                  target |-> None, delay |-> 0, started |-> s \notin Idle]]
  /\ mon = [m \in Monsters |-> [state |-> "idle", ideal |-> "idle", task |-> "none",
                                cine |-> None, killed |-> FALSE, caught |-> FALSE]]
  /\ spoilt = {}
  /\ turns = 0
  /\ restores = 0

-----------------------------------------------------------------------------
(* State formulae and what the member functions do.                        *)

(* Counted in by a script and not yet at its mark.                         *)
OnTheWay(m) ==
  /\ mon[m].cine \in WalkTo
  /\ \/ mon[m].state = "script" /\ mon[m].task \in {"none", "walk", "fail"}
     \/ mon[m].state # "script" /\ mon[m].ideal = "script"

Walkers == {m \in Monsters : OnTheWay(m)}

(* Monsters of M leave without arriving: nobody counts them out.           *)
Leaving(M) == IF M \cap Walkers # {} THEN spoilt \cup {"late"} ELSE spoilt

(* The ideal state of m is set to something else: who is in the script     *)
(* state leaves it with its next schedule, who is not yet never enters it. *)
Diverted(m) == IF mon[m].state = "script" THEN spoilt ELSE Leaving({m})

(* A monster that was killed keeps its state until it thinks, and can be   *)
(* taken until then.                                                       *)
CanPlaySequence(m) ==
  /\ mon[m].cine = None
  /\ mon[m].state \notin {"prone", "dead", "gone"}
  /\ "idle" \in {mon[m].state, mon[m].ideal}

(* Mutant of DelayStart: scripts that have nobody yet are not told to wait. *)
DelayStart_TakenOnly(f) ==
  [s \in Scripts |-> IF f[s].think = "gone" \/ f[s].target = None THEN f[s] ELSE [f[s] EXCEPT !.delay = @ + 1]]

(* find all the scripts with the targetname and tell them to wait          *)
DelayStart(f) == [s \in Scripts |-> IF f[s].think = "gone" THEN f[s] ELSE [f[s] EXCEPT !.delay = @ + 1]]

(* Mutant of EnableStart: the last to arrive does not start the others.    *)
EnableStart_NoStart(f) ==
  [s \in Scripts |-> IF f[s].think = "gone" THEN f[s] ELSE [f[s] EXCEPT !.delay = @ - 1]]

(* Tell them that one less is to be waited for; the last one starts all.   *)
EnableStart(f) ==
  [s \in Scripts |-> IF f[s].think = "gone" THEN f[s]
                     ELSE [f[s] EXCEPT !.delay = @ - 1, !.started = f[s].started \/ f[s].delay <= 1]]

(* Mutant of Release: the script keeps its handle of the monster.          *)
Release_KeepsTarget(M) == script

(* CineCleanup of the monsters in M: on the scripts, and on a monster that *)
(* has been shot dead meanwhile or not.                                    *)
Release(M) ==
  [s \in Scripts |-> IF \E m \in M : mon[m].cine = s THEN [script[s] EXCEPT !.target = None] ELSE script[s]]

(* Mutant of CineCleanup: a monster that lives keeps its ideal state.      *)
CineCleanup_KeepsIdeal(r, shot) == [r EXCEPT !.cine = None, !.ideal = IF shot THEN "dead" ELSE @]

CineCleanup(r, shot) == [r EXCEPT !.cine = None, !.ideal = IF shot THEN "dead" ELSE "idle"]

(* CancelScript reaches the monsters that are in the script state already, *)
(* and leaves them their schedules.                                        *)
Cancelled == {m \in Monsters : mon[m].state = "script" /\ \E s \in Scripts : script[s].target = m}

AfterCancel(shot) ==
  [m \in Monsters |-> IF m \in Cancelled THEN CineCleanup(mon[m], m \in shot) ELSE mon[m]]

-----------------------------------------------------------------------------
(* Scripts.                                                                *)

Use(s) ==
  /\ script[s].think # "gone"
  /\ script' = [script EXCEPT ![s] = IF @.target # None THEN [@ EXCEPT !.started = TRUE]
                                     ELSE [@ EXCEPT !.think = "cine"]]
  /\ UNCHANGED <<mon, spoilt, turns, restores>>

(* The monster's task is left as it is: one whose script was cancelled and *)
(* that has not thought since goes on with the old schedule.               *)
PossessEntity(s, m) ==
  /\ script[s].think = "cine" /\ m \in Cast[s] /\ CanPlaySequence(m)
  /\ turns < MaxTurns
  /\ LET f == [script EXCEPT ![s].think = "none", ![s].target = m]
     IN script' = IF s \in WalkTo THEN DelayStart(f) ELSE f
  /\ mon' = [mon EXCEPT ![m].cine = s, ![m].ideal = "script"]
  /\ spoilt' = IF s \in WalkTo /\ mon[m].state = "script" /\ mon[m].task \in {"wait", "play", "chomp"}
               THEN spoilt \cup {"late"} ELSE spoilt
  /\ turns' = turns + 1
  /\ UNCHANGED restores

(* Nobody to be found: the whole group is cancelled, s tries again.        *)
FindNobody(s) ==
  /\ script[s].think = "cine"
  /\ \A m \in Cast[s] : ~CanPlaySequence(m)
  /\ \E shot \in SUBSET Cancelled : mon' = AfterCancel(shot)
  /\ script' = Release(Cancelled)
  /\ spoilt' = Leaving(Cancelled)
  /\ UNCHANGED <<turns, restores>>

SUB_Remove(s) ==
  /\ script[s].think = "remove"
  /\ script' = [script EXCEPT ![s] = [think |-> "gone", target |-> None, delay |-> 0, started |-> FALSE]]
  /\ UNCHANGED <<mon, spoilt, turns, restores>>

-----------------------------------------------------------------------------
(* Monsters: the steps of MaintainSchedule.                                *)

Playing(m, task) ==
  /\ mon[m].state = "script" /\ mon[m].ideal = "script" /\ mon[m].task = task

Adopted(ideal) == IF ideal = "alert" THEN "idle" ELSE ideal

(* A new state, no schedule, or the end of slFail: the ideal state becomes *)
(* the state, and in the script state the script starts from the walk.     *)
NewSchedule(m) ==
  /\ mon[m].state \notin {"dead", "gone"}
  /\ \/ mon[m].state # mon[m].ideal
     \/ mon[m].state = "script" /\ mon[m].task \in {"none", "fail"}
  /\ mon' = [mon EXCEPT ![m].state = Adopted(mon[m].ideal), ![m].ideal = Adopted(@),
                        ![m].task = IF mon[m].ideal # "script" THEN "none"
                                    ELSE IF mon[m].cine \in WalkTo THEN "walk" ELSE "wait"]
  /\ spoilt' = IF mon[m].ideal # "script" THEN Leaving({m}) ELSE spoilt
  /\ UNCHANGED <<script, turns, restores>>

(* GetIdealState of a monster that is not in a script. What it is to be    *)
(* next is forgotten, but for the commands SCRIPT and DEAD.                *)
ChangeMind(m) ==
  /\ mon[m].state \in {"idle", "combat"} /\ mon[m].ideal \notin {"script", "dead"}
  /\ \E i \in {"idle", "combat"} :
       /\ i = "combat" => mon[m].state = "idle"
       /\ mon' = [mon EXCEPT ![m].state = i, ![m].ideal = i]
  /\ UNCHANGED <<script, spoilt, turns, restores>>

(* The route to the mark cannot be built or is lost: slFail. No schedule   *)
(* of a script has TASK_FAILED in its mask, so IScheduleFlags hides it     *)
(* from GetIdealState and m stays in the script.                           *)
TaskFail(m) ==
  /\ Playing(m, "walk")
  /\ mon' = [mon EXCEPT ![m].task = "fail"]
  /\ UNCHANGED <<script, spoilt, turns, restores>>

(* A script's schedule is broken by damage: the group is cancelled, and m  *)
(* takes its new state at once. slFail and the barnacle's schedule have    *)
(* not the damage in their masks.                                          *)
ExitScriptedSequence(m) ==
  /\ mon[m].state = "script" /\ mon[m].task \in {"walk", "wait", "play"}
  /\ mon[m].cine # None
  /\ \E shot \in SUBSET Cancelled :
       LET f == AfterCancel(shot)
       IN mon' = [f EXCEPT ![m].state = Adopted(f[m].ideal), ![m].ideal = Adopted(@), ![m].task = "none"]
  /\ script' = Release(Cancelled)
  /\ spoilt' = Leaving(Cancelled)
  /\ UNCHANGED <<turns, restores>>

(* TASK_ENABLE_SCRIPT: m is on its mark.                                   *)
EnableScript(m) ==
  /\ Playing(m, "walk")
  /\ script' = EnableStart(script)
  /\ mon' = [mon EXCEPT ![m].task = "wait"]
  /\ spoilt' = IF mon[m].cine \in WalkTo THEN spoilt ELSE spoilt \cup {"early"}
  /\ UNCHANGED <<turns, restores>>

(* Mutant of WaitForScript: the others are not waited for.                 *)
WaitForScript_Impatient(m) ==
  /\ Playing(m, "wait")
  /\ script[mon[m].cine].started
  /\ mon' = [mon EXCEPT ![m].task = "play"]
  /\ UNCHANGED <<script, spoilt, turns, restores>>

(* TASK_WAIT_FOR_SCRIPT is over.                                           *)
WaitForScript(m) ==
  /\ Playing(m, "wait")
  /\ script[mon[m].cine].delay <= 0 /\ script[mon[m].cine].started
  /\ mon' = [mon EXCEPT ![m].task = "play"]
  /\ UNCHANGED <<script, spoilt, turns, restores>>

(* TASK_PLAY_SCRIPT is over. What the script fires then is a Use.          *)
SequenceDone(m) ==
  /\ Playing(m, "play")
  /\ LET s == mon[m].cine  f == Release({m})
     IN script' = IF s \in Repeatable THEN f ELSE [f EXCEPT ![s].think = "remove"]
  /\ \E shot \in BOOLEAN : mon' = [mon EXCEPT ![m] = [CineCleanup(@, shot) EXCEPT !.task = "none"]]
  /\ UNCHANGED <<spoilt, turns, restores>>

(* What a monster does in a script whenever its think comes.               *)
MaintainSchedule(m) ==
  NewSchedule(m) \/ TaskFail(m) \/ EnableScript(m) \/ WaitForScript(m) \/ SequenceDone(m)

-----------------------------------------------------------------------------
(* What happens to monsters.                                               *)

(* Damage kills only outside the script state. The second time nothing is  *)
(* done to the ideal state.                                                *)
Killed(m) ==
  /\ mon[m].state \notin {"script", "dead", "gone"} /\ ~mon[m].killed
  /\ mon' = [mon EXCEPT ![m].ideal = "dead", ![m].killed = TRUE]
  /\ spoilt' = Leaving({m})
  /\ UNCHANGED <<script, turns, restores>>

(* Mutant of TakeDamage: every monster goes hunting.                       *)
TakeDamage_Anybody(m) ==
  /\ mon[m].state \notin {"dead", "gone"}
  /\ mon' = [mon EXCEPT ![m].ideal = "alert"]
  /\ spoilt' = Diverted(m)
  /\ UNCHANGED <<script, turns, restores>>

(* CSquadMonster::TakeDamage sends who is shot hunting, script or not.     *)
TakeDamage(m) ==
  /\ m \in Squad /\ mon[m].state \notin {"dead", "gone"}
  /\ mon' = [mon EXCEPT ![m].ideal = "alert"]
  /\ spoilt' = Diverted(m)
  /\ UNCHANGED <<script, turns, restores>>

(* The tongue of a barnacle finds m, script or not. deadflag is still      *)
(* DEAD_NO while a monster that was killed has not thought.                *)
FBecomeProne(m) ==
  /\ m \in Prey /\ ~mon[m].caught
  /\ mon[m].state \notin {"dead", "gone"}
  /\ mon' = [mon EXCEPT ![m].ideal = "prone", ![m].caught = TRUE]
  /\ spoilt' = Diverted(m)
  /\ UNCHANGED <<script, turns, restores>>

(* The prey is lifted and bitten. One that is in the script state then, by *)
(* a script that took it when it had been caught, loses the schedule of    *)
(* the script for one that has no end and that nothing interrupts.         *)
BarnacleVictimBitten(m) ==
  /\ mon[m].caught /\ mon[m].state = "script"
  /\ mon' = [mon EXCEPT ![m].task = "chomp"]
  /\ spoilt' = Leaving({m})
  /\ UNCHANGED <<script, turns, restores>>

(* The barnacle is killed.                                                 *)
BarnacleVictimReleased(m) ==
  /\ mon[m].caught /\ mon[m].state \notin {"dead", "gone"}
  /\ mon' = [mon EXCEPT ![m].ideal = "idle", ![m].caught = FALSE]
  /\ spoilt' = Diverted(m)
  /\ UNCHANGED <<script, turns, restores>>

(* A player asks m to follow. CancelScript finds m only in the script      *)
(* state; a monster that has an enemy forgets what it was to become.       *)
StartFollowing(m) ==
  /\ mon[m].state \notin {"dead", "gone"} /\ ~mon[m].killed
  /\ "script" \in {mon[m].state, mon[m].ideal} => mon[m].cine # None
  /\ \E shot \in SUBSET Cancelled, enemy \in BOOLEAN :
       LET hit == mon[m].cine # None
           f   == IF hit THEN AfterCancel(shot) ELSE mon
       IN /\ mon' = [f EXCEPT ![m].ideal = IF enemy THEN "alert" ELSE @, ![m].task = "none"]
          /\ script' = IF hit THEN Release(Cancelled) ELSE script
          /\ spoilt' = Leaving((IF hit THEN Cancelled ELSE {}) \cup (IF enemy THEN {m} ELSE {}))
  /\ UNCHANGED <<turns, restores>>

(* Handles of a removed entity are null.                                   *)
RemoveMonster(m) ==
  /\ mon[m].state # "gone"
  /\ mon' = [mon EXCEPT ![m] = [state |-> "gone", ideal |-> "dead", task |-> "none",
                                cine |-> None, killed |-> TRUE, caught |-> FALSE]]
  /\ script' = [s \in Scripts |-> IF script[s].target = m THEN [script[s] EXCEPT !.target = None] ELSE script[s]]
  /\ spoilt' = Leaving({m})
  /\ UNCHANGED <<turns, restores>>

(* PostRestore: schedules are not saved, so that a monster on its mark     *)
(* walks to it and is counted out a second time.                           *)
PostRestore ==
  /\ restores < MaxRestores
  /\ mon' = [m \in Monsters |-> [mon[m] EXCEPT !.task = "none"]]
  /\ spoilt' = IF \E m \in Monsters : mon[m].cine \in WalkTo /\ mon[m].task \in {"wait", "play", "chomp"}
               THEN spoilt \cup {"early"} ELSE spoilt
  /\ restores' = restores + 1
  /\ UNCHANGED <<script, turns>>

Next ==
  \/ \E s \in Scripts : Use(s) \/ FindNobody(s) \/ SUB_Remove(s)
  \/ \E s \in Scripts, m \in Monsters : PossessEntity(s, m)
  \/ \E m \in Monsters :
       \/ MaintainSchedule(m) \/ ChangeMind(m) \/ ExitScriptedSequence(m)
       \/ Killed(m) \/ TakeDamage(m) \/ StartFollowing(m) \/ RemoveMonster(m)
       \/ FBecomeProne(m) \/ BarnacleVictimBitten(m) \/ BarnacleVictimReleased(m)
  \/ PostRestore

(* Every monster thinks again and again, a walk ends at the mark or fails, *)
(* and animations end. Nobody has to use, shoot or remove anything.        *)
Spec == Init /\ [][Next]_vars /\ \A m \in Monsters : WF_vars(MaintainSchedule(m))

-----------------------------------------------------------------------------

TypeOK ==
  /\ script \in [Scripts -> ScriptState]
  /\ mon \in [Monsters -> MonsterState]
  /\ spoilt \subseteq {"late", "early"}
  /\ turns \in 0 .. MaxTurns /\ restores \in 0 .. MaxRestores

(* A possession is written down twice: the monster's m_pCine and the       *)
(* script's m_hTargetEnt name each other through all cancels, deaths and   *)
(* removals. m_pCine is a plain pointer: a script that waits to be removed *)
(* or is gone is nobody's.                                                 *)
PossessionMutual ==
  /\ \A m \in Monsters, s \in Scripts :
       mon[m].cine = s <=> script[s].target = m
  /\ \A s \in Scripts : script[s].think # "none" => script[s].target = None

(* Who has whom, through all that happens to the two of them, as Possession *)
(* has it: a script takes one free monster of its cast, nobody is passed   *)
(* on, and a script is removed with empty hands.                           *)
Has   == [s \in Scripts |-> script[s].target]
Over  == {s \in Scripts : script[s].think = "gone"}
Away  == {m \in Monsters : mon[m].state = "gone"}

Hands == INSTANCE Possession WITH has <- Has, over <- Over, away <- Away

ImplementsPossession == Hands!Spec

(* schedule.cpp:1481 ASSERT(m_pCine != nullptr): a monster that is in a    *)
(* script, or will be, has one, and so the script's tasks may use it.      *)
ScriptedHaveCine ==
  \A m \in Monsters :
    mon[m].state \notin {"dead", "gone"} /\ mon[m].ideal = "script" => mon[m].cine # None

(* A monster in a script stays there until the script lets it go: whoever  *)
(* cancels, shoots or asks it to follow, CineCleanup is what ends it. Two  *)
(* leave a script that goes on to have them: a squad member that is shot,  *)
(* and the prey of a barnacle, when it is caught and when it is released.  *)
ActorsStay ==
  \A m \in Monsters :
    mon[m].state = "script" /\ mon[m].cine # None =>
      \/ mon[m].ideal = "script"
      \/ m \in Squad /\ mon[m].ideal = "alert"
      \/ m \in Prey /\ mon[m].ideal \in {"prone", "idle"}

(* m_iDelay counts the monsters of the group that are on their way, except *)
(* for those that leave without arriving, and after a saved game.          *)
DelayCounts ==
  \A s \in Scripts : script[s].think # "gone" =>
    /\ "early" \notin spoilt => script[s].delay >= Cardinality(Walkers)
    /\ "late" \notin spoilt => script[s].delay <= Cardinality(Walkers)

(* scripted.h:60 "there can be more than one with the same name, and they  *)
(* act in concert": nobody starts to play while another is on its way.     *)
InConcert ==
  [][\A m \in Monsters : mon[m].task = "wait" /\ mon'[m].task = "play" /\ "early" \notin spoilt
        => Walkers = {}]_vars

Held(m) == mon[m].cine \in WalkTo /\ (OnTheWay(m) \/ Playing(m, "wait"))

(* What the group waits for next, the guards of MaintainSchedule: m takes   *)
(* the script up or leaves it, is at its mark, or may begin to play.       *)
MayGoOn(m) ==
  /\ mon[m].cine \in WalkTo
  /\ \/ /\ mon[m].state \notin {"dead", "gone"}
        /\ mon[m].state # mon[m].ideal
           \/ (mon[m].state = "script" /\ mon[m].task \in {"none", "fail"})
     \/ Playing(m, "walk")
     \/ Playing(m, "wait") /\ script[mon[m].cine].delay <= 0 /\ script[mon[m].cine].started

(* The group never waits for nobody: as long as somebody is on its way or  *)
(* waits for the others, somebody of the group has a step to take, unless  *)
(* somebody has left without arriving. The step may be a walk that fails.  *)
NobodyWaitsInVain ==
  "late" \notin spoilt /\ (\E m \in Monsters : Held(m)) => \E n \in Monsters : MayGoOn(n)

(* Who is sent to a mark gets there and plays, or is let go, unless        *)
(* somebody has left without arriving. Only walks that fail, each tried    *)
(* again without end, can hold up the group for ever.                      *)
WalkersPlay ==
  \A m \in Monsters :
    Held(m) ~> \/ ~Held(m) \/ "late" \in spoilt
               \/ \E n \in Monsters : mon[n].task = "fail"
=============================================================================
