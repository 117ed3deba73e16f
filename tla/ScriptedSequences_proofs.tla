---------------------- MODULE ScriptedSequences_proofs ----------------------
(***************************************************************************)
(* Proofs about ScriptedSequences: types, the two sides of a possession    *)
(* and the scripts of monsters in the script state, for any monsters,      *)
(* scripts and casts. The three together are inductive; the count of those *)
(* on their way rests on them, and acting in concert on the count.         *)
(***************************************************************************)
EXTENDS ScriptedSequences, FiniteSetTheorems, TLAPS

Inv == TypeOK /\ PossessionMutual /\ ScriptedHaveCine

-----------------------------------------------------------------------------
(* What the operators return.                                              *)

LEMMA Fields ==
  ASSUME TypeOK
  PROVE  /\ \A s \in Scripts : script[s] \in ScriptState
         /\ \A m \in Monsters : mon[m] \in MonsterState
         /\ DOMAIN script = Scripts /\ DOMAIN mon = Monsters
BY DEF TypeOK

LEMMA DelayStartFields ==
  ASSUME NEW f \in [Scripts -> ScriptState]
  PROVE  /\ DelayStart(f) \in [Scripts -> ScriptState]
         /\ \A s \in Scripts :
              /\ DelayStart(f)[s].target = f[s].target
              /\ DelayStart(f)[s].think = f[s].think
              /\ f[s].think # "gone" => DelayStart(f)[s].delay = f[s].delay + 1
BY DEF DelayStart, ScriptState

LEMMA EnableStartFields ==
  ASSUME NEW f \in [Scripts -> ScriptState]
  PROVE  /\ EnableStart(f) \in [Scripts -> ScriptState]
         /\ \A s \in Scripts :
              /\ EnableStart(f)[s].target = f[s].target
              /\ EnableStart(f)[s].think = f[s].think
              /\ f[s].think # "gone" => EnableStart(f)[s].delay = f[s].delay - 1
<1> DEFINE last(s) == f[s].started \/ f[s].delay <= 1
           less(s) == [f[s] EXCEPT !.delay = f[s].delay - 1, !.started = last(s)]
<1>1. \A s \in Scripts : last(s) \in BOOLEAN /\ f[s].delay - 1 \in Int
  BY DEF ScriptState
<1>2. EnableStart(f) = [s \in Scripts |-> IF f[s].think = "gone" THEN f[s] ELSE less(s)]
  BY DEF EnableStart
<1> HIDE DEF last
<1>3. ASSUME NEW s \in Scripts
      PROVE  /\ less(s) \in ScriptState /\ less(s).target = f[s].target
             /\ less(s).think = f[s].think /\ less(s).delay = f[s].delay - 1
  <2>1. f[s] \in ScriptState /\ last(s) \in BOOLEAN /\ f[s].delay - 1 \in Int  BY <1>1
  <2> QED BY <2>1 DEF ScriptState
<1> HIDE DEF less
<1>4. \A s \in Scripts : EnableStart(f)[s] = IF f[s].think = "gone" THEN f[s] ELSE less(s)
  BY <1>2
<1>5. \A s \in Scripts : EnableStart(f)[s] \in ScriptState  BY <1>3, <1>4
<1>6. EnableStart(f) \in [Scripts -> ScriptState]  BY <1>2, <1>4, <1>5
<1> QED BY <1>3, <1>4, <1>6

LEMMA ReleaseFields ==
  ASSUME TypeOK, NEW M \in SUBSET Monsters
  PROVE  /\ Release(M) \in [Scripts -> ScriptState]
         /\ \A s \in Scripts :
              /\ Release(M)[s].think = script[s].think
              /\ Release(M)[s].delay = script[s].delay
              /\ Release(M)[s].target = IF \E m \in M : mon[m].cine = s THEN None ELSE script[s].target
BY DEF TypeOK, Release, ScriptState

LEMMA CineCleanupFields ==
  ASSUME NEW r \in MonsterState, NEW shot \in BOOLEAN
  PROVE  /\ CineCleanup(r, shot) \in MonsterState
         /\ CineCleanup(r, shot).cine = None /\ CineCleanup(r, shot).state = r.state
         /\ CineCleanup(r, shot).ideal \in {"idle", "dead"}
BY DEF CineCleanup, MonsterState

LEMMA AfterCancelFields ==
  ASSUME TypeOK, NEW shot \in SUBSET Cancelled
  PROVE  /\ AfterCancel(shot) \in [Monsters -> MonsterState]
         /\ \A m \in Monsters :
              /\ AfterCancel(shot)[m].state = mon[m].state
              /\ AfterCancel(shot)[m].cine = IF m \in Cancelled THEN None ELSE mon[m].cine
              /\ AfterCancel(shot)[m].ideal = "script" => m \notin Cancelled /\ mon[m].ideal = "script"
<1>1. \A m \in Monsters : mon[m] \in MonsterState  BY DEF TypeOK
<1>2. \A m \in Monsters : (m \in shot) \in BOOLEAN  OBVIOUS
<1> QED BY <1>1, <1>2, CineCleanupFields DEF AfterCancel

LEMMA LeavingType ==
  ASSUME TypeOK, NEW M  PROVE Leaving(M) \subseteq {"late", "early"}
BY DEF TypeOK, Leaving

LEMMA DivertedType ==
  ASSUME TypeOK, NEW m  PROVE Diverted(m) \subseteq {"late", "early"}
BY LeavingType DEF TypeOK, Diverted

LEMMA AdoptedType ==
  ASSUME NEW i \in {"idle", "alert", "combat", "prone", "script", "dead"}
  PROVE  /\ Adopted(i) \in {"idle", "combat", "prone", "script", "dead"}
         /\ Adopted(i) = "script" => i = "script"
BY DEF Adopted

-----------------------------------------------------------------------------
(* The two sides of a possession after a step that lets the monsters of M  *)
(* go, or nobody.                                                          *)

LEMMA LetGo ==
  ASSUME Inv, NEW M \in SUBSET Monsters,
         \A m \in Monsters : mon'[m].cine = IF m \in M THEN None ELSE mon[m].cine,
         \A s \in Scripts :
           /\ script'[s].target = IF \E m \in M : mon[m].cine = s THEN None ELSE script[s].target
           /\ script'[s].think = script[s].think \/ script'[s].think = "none" \/ script'[s].target = None
  PROVE  PossessionMutual'
<1> USE ScriptsAssumption
<1>1. ASSUME NEW m \in Monsters, NEW s \in Scripts
      PROVE  mon'[m].cine = s <=> script'[s].target = m
  <2>1. mon[m].cine = s <=> script[s].target = m  BY DEF Inv, PossessionMutual
  <2>2. \A n \in Monsters : mon[n].cine = s <=> script[s].target = n  BY DEF Inv, PossessionMutual
  <2>3. None # s /\ None # m  OBVIOUS
  <2> QED BY <2>1, <2>2, <2>3
<1>2. ASSUME NEW s \in Scripts, script'[s].think # "none"
      PROVE  script'[s].target = None
  BY <1>2 DEF Inv, PossessionMutual
<1> QED BY <1>1, <1>2 DEF PossessionMutual

LEMMA NobodyLetGo ==
  ASSUME Inv,
         \A m \in Monsters : mon'[m].cine = mon[m].cine,
         \A s \in Scripts :
           /\ script'[s].target = script[s].target
           /\ script'[s].think = script[s].think \/ script'[s].think = "none" \/ script'[s].target = None
  PROVE  PossessionMutual'
BY LetGo, {} \in SUBSET Monsters

-----------------------------------------------------------------------------
(* Actions of scripts.                                                     *)

LEMMA UseStep ==
  ASSUME Inv, NEW s \in Scripts, Use(s)  PROVE Inv'
<1> USE Fields DEF Use, Inv
<1>1. TypeOK'
  <2>1. script[s] \in ScriptState  BY DEF TypeOK
  <2>2. /\ [script[s] EXCEPT !.started = TRUE] \in ScriptState
        /\ [script[s] EXCEPT !.think = "cine"] \in ScriptState
    BY <2>1 DEF ScriptState
  <2>3. script' \in [Scripts -> ScriptState]  BY <2>2 DEF TypeOK
  <2> QED BY <2>3 DEF TypeOK
<1>2. \A t \in Scripts : /\ script'[t].target = script[t].target
                         /\ script'[t].think = script[t].think \/ script'[t].target = None
  BY DEF ScriptState
<1>3. PossessionMutual'  BY <1>2, NobodyLetGo
<1>4. ScriptedHaveCine'  BY DEF ScriptedHaveCine
<1> QED BY <1>1, <1>3, <1>4

LEMMA PossessStep ==
  ASSUME Inv, NEW s \in Scripts, NEW m \in Monsters, PossessEntity(s, m)  PROVE Inv'
<1> DEFINE f == [script EXCEPT ![s].think = "none", ![s].target = m]
<1> USE Fields DEF Inv
<1>1. /\ f \in [Scripts -> ScriptState]
      /\ \A t \in Scripts : /\ f[t].target = IF t = s THEN m ELSE script[t].target
                            /\ f[t].think = IF t = s THEN "none" ELSE script[t].think
  BY DEF TypeOK, ScriptState
<1>2. /\ script' \in [Scripts -> ScriptState]
      /\ \A t \in Scripts : script'[t].target = f[t].target /\ script'[t].think = f[t].think
  <2>1. script' = f \/ script' = DelayStart(f)  BY DEF PossessEntity
  <2> HIDE DEF f
  <2> QED BY <1>1, <2>1, DelayStartFields
<1>3. /\ mon' \in [Monsters -> MonsterState]
      /\ \A n \in Monsters : /\ mon'[n].cine = IF n = m THEN s ELSE mon[n].cine
                             /\ n # m => mon'[n] = mon[n]
  <2>1. mon' = [mon EXCEPT ![m] = [mon[m] EXCEPT !.cine = s, !.ideal = "script"]]
    BY DEF PossessEntity, TypeOK, MonsterState
  <2>2. [mon[m] EXCEPT !.cine = s, !.ideal = "script"] \in MonsterState  BY DEF MonsterState
  <2>3. [mon[m] EXCEPT !.cine = s, !.ideal = "script"].cine = s  BY DEF MonsterState
  <2> QED BY <2>1, <2>2, <2>3 DEF TypeOK
<1>4. TypeOK'
  <2>1. spoilt' \subseteq {"late", "early"}  BY DEF PossessEntity, TypeOK
  <2>2. turns' \in 0 .. MaxTurns /\ restores' \in 0 .. MaxRestores
    BY ScriptsAssumption DEF PossessEntity, TypeOK
  <2> QED BY <1>2, <1>3, <2>1, <2>2 DEF TypeOK
<1>5. PossessionMutual'
  <2>1. script[s].target = None /\ mon[m].cine = None
    BY DEF PossessEntity, CanPlaySequence, PossessionMutual
  <2>2. ASSUME NEW n \in Monsters, NEW t \in Scripts
        PROVE  mon'[n].cine = t <=> script'[t].target = n
    <3>1. mon[n].cine = t <=> script[t].target = n  BY DEF PossessionMutual
    <3>2. None # t /\ None # n  BY ScriptsAssumption
    <3> QED BY <1>1, <1>2, <1>3, <2>1, <3>1, <3>2
  <2>3. \A t \in Scripts : script'[t].think # "none" => script'[t].target = None
    BY <1>1, <1>2 DEF PossessionMutual
  <2> QED BY <2>2, <2>3 DEF PossessionMutual
<1>6. ScriptedHaveCine'
  BY <1>3, ScriptsAssumption DEF ScriptedHaveCine
<1> QED BY <1>4, <1>5, <1>6

(* A step that cancels the group, whatever else it does to m.              *)
LEMMA CancelStep ==
  ASSUME Inv, NEW shot \in SUBSET Cancelled,
         script' = Release(Cancelled),
         mon' \in [Monsters -> MonsterState],
         \A n \in Monsters :
           /\ mon'[n].cine = AfterCancel(shot)[n].cine
           /\ mon'[n].ideal = "script" => AfterCancel(shot)[n].ideal = "script"
           /\ mon'[n].state \notin {"dead", "gone"} => mon[n].state \notin {"dead", "gone"}
  PROVE  /\ script' \in [Scripts -> ScriptState]
         /\ PossessionMutual' /\ ScriptedHaveCine'
<1>0. TypeOK /\ Cancelled \in SUBSET Monsters  BY DEF Inv, Cancelled
<1>1. /\ script' \in [Scripts -> ScriptState]
      /\ \A s \in Scripts :
           /\ script'[s].think = script[s].think
           /\ script'[s].target = IF \E m \in Cancelled : mon[m].cine = s THEN None ELSE script[s].target
  BY <1>0, ReleaseFields
<1>2. \A m \in Monsters :
        /\ mon'[m].cine = IF m \in Cancelled THEN None ELSE mon[m].cine
        /\ mon'[m].ideal = "script" => m \notin Cancelled /\ mon[m].ideal = "script"
  <2>1. \A m \in Monsters :
          /\ AfterCancel(shot)[m].cine = IF m \in Cancelled THEN None ELSE mon[m].cine
          /\ AfterCancel(shot)[m].ideal = "script" => m \notin Cancelled /\ mon[m].ideal = "script"
    BY <1>0, AfterCancelFields
  <2> QED BY <2>1
<1>3. PossessionMutual'
  <2>1. \A s \in Scripts :
          script'[s].think = script[s].think \/ script'[s].think = "none" \/ script'[s].target = None
    BY <1>1
  <2>2. \A m \in Monsters : mon'[m].cine = IF m \in Cancelled THEN None ELSE mon[m].cine
    BY <1>2
  <2>3. PICK M \in SUBSET Monsters : M = Cancelled  BY <1>0
  <2>4. \A m \in Monsters : mon'[m].cine = IF m \in M THEN None ELSE mon[m].cine  BY <2>2, <2>3
  <2>5. \A s \in Scripts :
          /\ script'[s].target = IF \E m \in M : mon[m].cine = s THEN None ELSE script[s].target
          /\ script'[s].think = script[s].think \/ script'[s].think = "none" \/ script'[s].target = None
    BY <1>1, <2>1, <2>3
  <2> HIDE <2>3
  <2> QED BY <2>4, <2>5, LetGo
<1>4. ScriptedHaveCine'  BY <1>2 DEF ScriptedHaveCine, Inv
<1> QED BY <1>1, <1>3, <1>4

LEMMA FindNobodyStep ==
  ASSUME Inv, NEW s \in Scripts, FindNobody(s)  PROVE Inv'
<1>1. PICK shot \in SUBSET Cancelled : mon' = AfterCancel(shot)  BY DEF FindNobody
<1>2. /\ mon' \in [Monsters -> MonsterState]
      /\ \A n \in Monsters : mon'[n].state = mon[n].state
  BY <1>1, AfterCancelFields DEF Inv
<1>3. script' = Release(Cancelled)  BY DEF FindNobody
<1>4. script' \in [Scripts -> ScriptState] /\ PossessionMutual' /\ ScriptedHaveCine'
  BY <1>1, <1>2, <1>3, CancelStep
<1>5. spoilt' \subseteq {"late", "early"} /\ turns' = turns /\ restores' = restores
  BY LeavingType DEF FindNobody, Inv
<1> QED BY <1>2, <1>4, <1>5 DEF Inv, TypeOK

LEMMA RemoveScriptStep ==
  ASSUME Inv, NEW s \in Scripts, SUB_Remove(s)  PROVE Inv'
<1> USE Fields DEF SUB_Remove, Inv
<1>1. TypeOK'  BY DEF TypeOK, ScriptState
<1>2. \A t \in Scripts : /\ script'[t].target = script[t].target
                         /\ script'[t].think = script[t].think \/ script'[t].target = None
  BY DEF ScriptState, PossessionMutual
<1>3. PossessionMutual'  BY <1>2, NobodyLetGo
<1>4. ScriptedHaveCine'  BY DEF ScriptedHaveCine
<1> QED BY <1>1, <1>3, <1>4

-----------------------------------------------------------------------------
(* Actions of monsters.                                                    *)

(* A step that changes monsters but not who possesses whom.                *)
LEMMA QuietStep ==
  ASSUME Inv, script' = script, mon' \in [Monsters -> MonsterState],
         spoilt' \subseteq {"late", "early"}, turns' = turns, restores' \in 0 .. MaxRestores,
         \A m \in Monsters :
           /\ mon'[m].cine = mon[m].cine
           /\ mon'[m].ideal = "script" => mon[m].ideal = "script"
           /\ mon'[m].state \notin {"dead", "gone"} => mon[m].state \notin {"dead", "gone"}
  PROVE  Inv'
<1>1. PossessionMutual'  BY NobodyLetGo
<1>2. ScriptedHaveCine'  BY DEF Inv, ScriptedHaveCine
<1> QED BY <1>1, <1>2 DEF Inv, TypeOK

LEMMA NewScheduleStep ==
  ASSUME Inv, NEW m \in Monsters, NewSchedule(m)  PROVE Inv'
<1>1. mon[m] \in MonsterState /\ DOMAIN mon = Monsters  BY Fields DEF Inv
<1>2. /\ Adopted(mon[m].ideal) \in {"idle", "combat", "prone", "script", "dead"}
      /\ Adopted(mon[m].ideal) = "script" => mon[m].ideal = "script"
  BY <1>1, AdoptedType DEF MonsterState
<1>3. /\ mon' \in [Monsters -> MonsterState]
      /\ \A n \in Monsters :
           /\ mon'[n].cine = mon[n].cine
           /\ mon'[n].ideal = "script" => mon[n].ideal = "script"
           /\ mon'[n].state \notin {"dead", "gone"} => mon[n].state \notin {"dead", "gone"}
  BY <1>1, <1>2 DEF NewSchedule, Inv, TypeOK, MonsterState
<1>4. spoilt' \subseteq {"late", "early"}  BY LeavingType DEF NewSchedule, Inv, TypeOK
<1>5. script' = script /\ turns' = turns /\ restores' \in 0 .. MaxRestores
  BY DEF NewSchedule, Inv, TypeOK
<1> QED BY <1>3, <1>4, <1>5, QuietStep

LEMMA ChangeMindStep ==
  ASSUME Inv, NEW m \in Monsters, ChangeMind(m)  PROVE Inv'
<1>0. PICK i \in {"idle", "combat"} : mon' = [mon EXCEPT ![m].state = i, ![m].ideal = i]
  BY DEF ChangeMind
<1>1. /\ mon' \in [Monsters -> MonsterState]
      /\ \A n \in Monsters :
           /\ mon'[n].cine = mon[n].cine
           /\ mon'[n].ideal = "script" => mon[n].ideal = "script"
           /\ mon'[n].state \notin {"dead", "gone"} => mon[n].state \notin {"dead", "gone"}
  <2>1. mon' = [mon EXCEPT ![m] = [mon[m] EXCEPT !.state = i, !.ideal = i]]
    BY <1>0, Fields DEF Inv, TypeOK, MonsterState
  <2>2. mon[m] \in MonsterState /\ mon[m].state \in {"idle", "combat"}
    BY Fields DEF ChangeMind, Inv
  <2>3. /\ [mon[m] EXCEPT !.state = i, !.ideal = i] \in MonsterState
        /\ [mon[m] EXCEPT !.state = i, !.ideal = i].cine = mon[m].cine
        /\ [mon[m] EXCEPT !.state = i, !.ideal = i].ideal # "script"
    BY <2>2 DEF MonsterState
  <2> QED BY <2>1, <2>2, <2>3 DEF Inv, TypeOK
<1> QED BY <1>1, QuietStep DEF ChangeMind, Inv, TypeOK

LEMMA WaitForScriptStep ==
  ASSUME Inv, NEW m \in Monsters, WaitForScript(m)  PROVE Inv'
<1>1. /\ mon' \in [Monsters -> MonsterState]
      /\ \A n \in Monsters : /\ mon'[n].cine = mon[n].cine
                             /\ mon'[n].ideal = mon[n].ideal /\ mon'[n].state = mon[n].state
  BY Fields DEF WaitForScript, Inv, TypeOK, MonsterState
<1> QED BY <1>1, QuietStep DEF WaitForScript, Inv, TypeOK

LEMMA TaskFailStep ==
  ASSUME Inv, NEW m \in Monsters, TaskFail(m)  PROVE Inv'
<1>1. /\ mon' \in [Monsters -> MonsterState]
      /\ \A n \in Monsters : /\ mon'[n].cine = mon[n].cine
                             /\ mon'[n].ideal = mon[n].ideal /\ mon'[n].state = mon[n].state
  BY Fields DEF TaskFail, Inv, TypeOK, MonsterState
<1> QED BY <1>1, QuietStep DEF TaskFail, Inv, TypeOK

LEMMA KilledStep ==
  ASSUME Inv, NEW m \in Monsters, Killed(m)  PROVE Inv'
<1>1. /\ mon' \in [Monsters -> MonsterState]
      /\ \A n \in Monsters :
           /\ mon'[n].cine = mon[n].cine
           /\ mon'[n].ideal = "script" => mon[n].ideal = "script"
           /\ mon'[n].state = mon[n].state
  BY Fields DEF Killed, Inv, TypeOK, MonsterState
<1>2. spoilt' \subseteq {"late", "early"}  BY LeavingType DEF Killed, Inv
<1> QED BY <1>1, <1>2, QuietStep DEF Killed, Inv, TypeOK

(* A monster that is shot, or that a barnacle catches, bites or lets go.   *)
Touched(m) ==
  TakeDamage(m) \/ FBecomeProne(m) \/ BarnacleVictimBitten(m) \/ BarnacleVictimReleased(m)

(* It keeps its script and its state: it is diverted to another state, as  *)
(* only some are, or loses the schedule of the script it is in.            *)
LEMMA TouchedFields ==
  ASSUME Inv, NEW m \in Monsters, Touched(m)
  PROVE  /\ script' = script /\ turns' = turns /\ restores' = restores
         /\ mon' \in [Monsters -> MonsterState]
         /\ \A n \in Monsters : n # m => mon'[n] = mon[n]
         /\ mon'[m].cine = mon[m].cine /\ mon'[m].state = mon[m].state
         /\ mon[m].state \notin {"dead", "gone"}
         /\ \/ /\ \/ m \in Squad /\ mon'[m].ideal = "alert"
                  \/ (m \in Prey \/ mon[m].caught) /\ mon'[m].ideal \in {"prone", "idle"}
               /\ mon'[m].task = mon[m].task
               /\ spoilt' = Diverted(m)
            \/ /\ mon'[m].ideal = mon[m].ideal
               /\ mon'[m].state = "script" /\ mon'[m].task = "chomp"
               /\ spoilt' = Leaving({m})
<1>0. mon[m] \in MonsterState /\ mon \in [Monsters -> MonsterState]  BY Fields DEF Inv, TypeOK
<1>1. CASE TakeDamage(m)
  <2> DEFINE g == [mon[m] EXCEPT !.ideal = "alert"]
  <2>1. mon' = [mon EXCEPT ![m] = g]  BY <1>0, <1>1 DEF TakeDamage, MonsterState
  <2>2. /\ g \in MonsterState /\ g.cine = mon[m].cine /\ g.state = mon[m].state
        /\ g.ideal = "alert" /\ g.task = mon[m].task
    BY <1>0 DEF MonsterState
  <2>3. /\ m \in Squad /\ mon[m].state \notin {"dead", "gone"}
        /\ spoilt' = Diverted(m)
        /\ script' = script /\ turns' = turns /\ restores' = restores
    BY <1>1 DEF TakeDamage
  <2> HIDE DEF g
  <2>4. mon' \in [Monsters -> MonsterState]  BY <1>0, <2>1, <2>2
  <2>5. mon'[m] = g /\ \A n \in Monsters : n # m => mon'[n] = mon[n]  BY <1>0, <2>1
  <2> QED BY <2>2, <2>3, <2>4, <2>5
<1>2. CASE FBecomeProne(m)
  <2> DEFINE g == [mon[m] EXCEPT !.ideal = "prone", !.caught = TRUE]
  <2>1. mon' = [mon EXCEPT ![m] = g]  BY <1>0, <1>2 DEF FBecomeProne, MonsterState
  <2>2. /\ g \in MonsterState /\ g.cine = mon[m].cine /\ g.state = mon[m].state
        /\ g.ideal = "prone" /\ g.task = mon[m].task
    BY <1>0 DEF MonsterState
  <2> HIDE DEF g
  <2> QED BY <1>0, <1>2, <2>1, <2>2 DEF FBecomeProne
<1>3. CASE BarnacleVictimBitten(m)
  <2> DEFINE g == [mon[m] EXCEPT !.task = "chomp"]
  <2>1. mon' = [mon EXCEPT ![m] = g]  BY <1>0, <1>3 DEF BarnacleVictimBitten, MonsterState
  <2>2. /\ g \in MonsterState /\ g.cine = mon[m].cine /\ g.state = mon[m].state
        /\ g.ideal = mon[m].ideal /\ g.task = "chomp"
    BY <1>0 DEF MonsterState
  <2> HIDE DEF g
  <2> QED BY <1>0, <1>3, <2>1, <2>2 DEF BarnacleVictimBitten
<1>4. CASE BarnacleVictimReleased(m)
  <2> DEFINE g == [mon[m] EXCEPT !.ideal = "idle", !.caught = FALSE]
  <2>1. mon' = [mon EXCEPT ![m] = g]  BY <1>0, <1>4 DEF BarnacleVictimReleased, MonsterState
  <2>2. /\ g \in MonsterState /\ g.cine = mon[m].cine /\ g.state = mon[m].state
        /\ g.ideal = "idle" /\ g.task = mon[m].task
    BY <1>0 DEF MonsterState
  <2> HIDE DEF g
  <2> QED BY <1>0, <1>4, <2>1, <2>2 DEF BarnacleVictimReleased
<1> QED BY <1>1, <1>2, <1>3, <1>4 DEF Touched

LEMMA TouchedStep ==
  ASSUME Inv, NEW m \in Monsters, Touched(m)  PROVE Inv'
<1>1. \A n \in Monsters :
        /\ mon'[n].cine = mon[n].cine
        /\ mon'[n].ideal = "script" => mon[n].ideal = "script"
        /\ mon'[n].state = mon[n].state
  <2>1. \A n \in Monsters : n # m => mon'[n] = mon[n]  BY TouchedFields
  <2>2. /\ mon'[m].cine = mon[m].cine /\ mon'[m].state = mon[m].state
        /\ mon'[m].ideal = "script" => mon[m].ideal = "script"
    BY TouchedFields
  <2> QED BY <2>1, <2>2
<1>2. spoilt' \subseteq {"late", "early"}
  <2>1. spoilt' = Diverted(m) \/ spoilt' = Leaving({m})  BY TouchedFields
  <2> QED BY <2>1, LeavingType, DivertedType DEF Inv
<1>3. /\ script' = script /\ mon' \in [Monsters -> MonsterState]
      /\ turns' = turns /\ restores' \in 0 .. MaxRestores
  BY TouchedFields DEF Inv, TypeOK
<1> QED BY <1>1, <1>2, <1>3, QuietStep

LEMMA PostRestoreStep ==
  ASSUME Inv, PostRestore  PROVE Inv'
<1>1. /\ mon' \in [Monsters -> MonsterState]
      /\ \A n \in Monsters : /\ mon'[n].cine = mon[n].cine
                             /\ mon'[n].ideal = mon[n].ideal /\ mon'[n].state = mon[n].state
  <2>1. mon' = [n \in Monsters |-> [mon[n] EXCEPT !.task = "none"]]  BY DEF PostRestore
  <2>2. ASSUME NEW n \in Monsters
        PROVE  LET r == [mon[n] EXCEPT !.task = "none"]
               IN  /\ r \in MonsterState /\ r.cine = mon[n].cine
                   /\ r.ideal = mon[n].ideal /\ r.state = mon[n].state
    <3>1. mon[n] \in MonsterState  BY Fields DEF Inv, TypeOK
    <3> QED BY <3>1 DEF MonsterState
  <2> QED BY <2>1, <2>2
<1>2. spoilt' \subseteq {"late", "early"}  BY DEF PostRestore, Inv, TypeOK
<1>3. restores' \in 0 .. MaxRestores  BY ScriptsAssumption DEF PostRestore, Inv, TypeOK
<1> QED BY <1>1, <1>2, <1>3, QuietStep DEF PostRestore

LEMMA EnableScriptStep ==
  ASSUME Inv, NEW m \in Monsters, EnableScript(m)  PROVE Inv'
<1>1. /\ mon' \in [Monsters -> MonsterState]
      /\ \A n \in Monsters : /\ mon'[n].cine = mon[n].cine
                             /\ mon'[n].ideal = mon[n].ideal /\ mon'[n].state = mon[n].state
  BY Fields DEF EnableScript, Inv, TypeOK, MonsterState
<1>2. /\ script' \in [Scripts -> ScriptState]
      /\ \A s \in Scripts : script'[s].target = script[s].target /\ script'[s].think = script[s].think
  BY EnableStartFields DEF EnableScript, Inv, TypeOK
<1>3. PossessionMutual'  BY <1>1, <1>2, NobodyLetGo
<1>4. ScriptedHaveCine'  BY <1>1 DEF Inv, ScriptedHaveCine
<1>5. spoilt' \subseteq {"late", "early"} /\ turns' = turns /\ restores' = restores
  BY DEF EnableScript, Inv, TypeOK
<1> QED BY <1>1, <1>2, <1>3, <1>4, <1>5 DEF Inv, TypeOK

LEMMA ExitStep ==
  ASSUME Inv, NEW m \in Monsters, ExitScriptedSequence(m)  PROVE Inv'
<1>1. PICK shot \in SUBSET Cancelled :
        mon' = [AfterCancel(shot) EXCEPT ![m].state = Adopted(AfterCancel(shot)[m].ideal),
                                         ![m].ideal = Adopted(@), ![m].task = "none"]
  BY DEF ExitScriptedSequence
<1> DEFINE f == AfterCancel(shot)
<1>2. /\ f \in [Monsters -> MonsterState]
      /\ \A n \in Monsters : f[n].state = mon[n].state
  BY AfterCancelFields DEF Inv
<1>3. mon[m].state = "script"  BY DEF ExitScriptedSequence
<1> HIDE DEF f
<1>4. /\ Adopted(f[m].ideal) \in {"idle", "combat", "prone", "script", "dead"}
      /\ Adopted(f[m].ideal) = "script" => f[m].ideal = "script"
  BY <1>2, AdoptedType DEF MonsterState
<1>5. mon' = [f EXCEPT ![m].state = Adopted(f[m].ideal), ![m].ideal = Adopted(@), ![m].task = "none"]
  BY <1>1 DEF f
<1>6. /\ mon' \in [Monsters -> MonsterState]
      /\ \A n \in Monsters :
           /\ mon'[n].cine = f[n].cine
           /\ mon'[n].ideal = "script" => f[n].ideal = "script"
           /\ mon'[n].state \notin {"dead", "gone"} => mon[n].state \notin {"dead", "gone"}
  <2> DEFINE g == [f[m] EXCEPT !.state = Adopted(f[m].ideal), !.ideal = Adopted(f[m].ideal), !.task = "none"]
  <2>1. f[m] \in MonsterState  BY <1>2
  <2>2. mon' = [f EXCEPT ![m] = g]  BY <1>2, <1>5, <2>1 DEF MonsterState
  <2>3. g \in MonsterState /\ g.cine = f[m].cine /\ g.ideal = Adopted(f[m].ideal)
    BY <1>4, <2>1 DEF MonsterState
  <2> HIDE DEF g
  <2> QED BY <1>2, <1>3, <1>4, <2>2, <2>3
<1>7. script' = Release(Cancelled)  BY DEF ExitScriptedSequence
<1>8. script' \in [Scripts -> ScriptState] /\ PossessionMutual' /\ ScriptedHaveCine'
  BY <1>6, <1>7, CancelStep DEF f
<1>9. spoilt' \subseteq {"late", "early"} /\ turns' = turns /\ restores' = restores
  BY LeavingType DEF ExitScriptedSequence, Inv
<1> QED BY <1>6, <1>8, <1>9 DEF Inv, TypeOK

(* What becomes of the one that is asked, after the group's cancel if any. *)
LEMMA Followed ==
  ASSUME NEW f \in [Monsters -> MonsterState], NEW m \in Monsters, NEW enemy \in BOOLEAN,
         mon' = [f EXCEPT ![m].ideal = IF enemy THEN "alert" ELSE @, ![m].task = "none"]
  PROVE  /\ mon' \in [Monsters -> MonsterState]
         /\ \A n \in Monsters :
              /\ mon'[n].cine = f[n].cine /\ mon'[n].state = f[n].state
              /\ mon'[n].ideal = "script" => f[n].ideal = "script"
<1> DEFINE i == IF enemy THEN "alert" ELSE f[m].ideal
<1> DEFINE g == [f[m] EXCEPT !.ideal = i, !.task = "none"]
<1>1. f[m] \in MonsterState  OBVIOUS
<1>2. mon' = [f EXCEPT ![m] = g]  BY <1>1 DEF MonsterState
<1>3. i \in {"idle", "alert", "combat", "prone", "script", "dead"} /\ (i = "script" => f[m].ideal = "script")
  BY <1>1 DEF MonsterState
<1> HIDE DEF i
<1>4. g \in MonsterState /\ g.cine = f[m].cine /\ g.state = f[m].state /\ g.ideal = i
  BY <1>1, <1>3 DEF MonsterState
<1> HIDE DEF g
<1> QED BY <1>2, <1>3, <1>4

LEMMA FollowStep ==
  ASSUME Inv, NEW m \in Monsters, StartFollowing(m)  PROVE Inv'
<1>1. PICK shot \in SUBSET Cancelled, enemy \in BOOLEAN :
        /\ mon' = [(IF mon[m].cine # None THEN AfterCancel(shot) ELSE mon)
                     EXCEPT ![m].ideal = IF enemy THEN "alert" ELSE @, ![m].task = "none"]
        /\ script' = IF mon[m].cine # None THEN Release(Cancelled) ELSE script
        /\ spoilt' = Leaving((IF mon[m].cine # None THEN Cancelled ELSE {})
                               \cup (IF enemy THEN {m} ELSE {}))
  BY DEF StartFollowing
<1>2. spoilt' \subseteq {"late", "early"} /\ turns' = turns /\ restores' = restores
  BY <1>1, LeavingType DEF StartFollowing, Inv
<1>3. CASE mon[m].cine # None
  <2> DEFINE f == AfterCancel(shot)
  <2>1. /\ f \in [Monsters -> MonsterState]
        /\ \A n \in Monsters : f[n].state = mon[n].state
    BY AfterCancelFields DEF Inv
  <2>2. mon' = [f EXCEPT ![m].ideal = IF enemy THEN "alert" ELSE @, ![m].task = "none"]
    BY <1>1, <1>3
  <2>3. /\ mon' \in [Monsters -> MonsterState]
        /\ \A n \in Monsters :
             /\ mon'[n].cine = f[n].cine /\ mon'[n].state = mon[n].state
             /\ mon'[n].ideal = "script" => f[n].ideal = "script"
    <3> HIDE DEF f
    <3> QED BY <2>1, <2>2, Followed
  <2>4. script' \in [Scripts -> ScriptState] /\ PossessionMutual' /\ ScriptedHaveCine'
    BY <1>1, <1>3, <2>3, CancelStep
  <2> QED BY <1>2, <2>3, <2>4 DEF Inv, TypeOK
<1>4. CASE mon[m].cine = None
  <2>1. mon' = [mon EXCEPT ![m].ideal = IF enemy THEN "alert" ELSE @, ![m].task = "none"] /\ script' = script
    BY <1>1, <1>4
  <2>2. /\ mon' \in [Monsters -> MonsterState]
        /\ \A n \in Monsters :
             /\ mon'[n].cine = mon[n].cine /\ mon'[n].state = mon[n].state
             /\ mon'[n].ideal = "script" => mon[n].ideal = "script"
    <3>1. mon \in [Monsters -> MonsterState]  BY DEF Inv, TypeOK
    <3> QED BY <2>1, <3>1, Followed
  <2> QED BY <1>2, <2>1, <2>2, QuietStep DEF Inv, TypeOK
<1> QED BY <1>3, <1>4

LEMMA SequenceDoneStep ==
  ASSUME Inv, NEW m \in Monsters, SequenceDone(m)  PROVE Inv'
<1> DEFINE s == mon[m].cine
<1>1. s \in Scripts
  <2>1. mon[m] \in MonsterState  BY Fields DEF Inv
  <2>2. mon[m].state = "script" /\ mon[m].ideal = "script"  BY DEF SequenceDone, Playing
  <2> QED BY <2>1, <2>2 DEF Inv, ScriptedHaveCine, MonsterState
<1>2. /\ Release({m}) \in [Scripts -> ScriptState]
      /\ \A t \in Scripts :
           /\ Release({m})[t].think = script[t].think
           /\ Release({m})[t].target = IF s = t THEN None ELSE script[t].target
  <2>1. {m} \in SUBSET Monsters  OBVIOUS
  <2> QED BY <2>1, ReleaseFields DEF Inv
<1>3. script' = IF s \in Repeatable THEN Release({m}) ELSE [Release({m}) EXCEPT ![s].think = "remove"]
  BY DEF SequenceDone
<1>4. /\ script' \in [Scripts -> ScriptState]
      /\ \A t \in Scripts :
           /\ script'[t].target = IF s = t THEN None ELSE script[t].target
           /\ script'[t].think = script[t].think \/ script'[t].target = None
  <2> HIDE DEF s
  <2> QED BY <1>1, <1>2, <1>3 DEF ScriptState
<1>5. PICK shot \in BOOLEAN : mon' = [mon EXCEPT ![m] = [CineCleanup(@, shot) EXCEPT !.task = "none"]]
  BY DEF SequenceDone
<1>6. /\ mon' \in [Monsters -> MonsterState]
      /\ \A n \in Monsters :
           /\ mon'[n].cine = IF n = m THEN None ELSE mon[n].cine
           /\ mon'[n].state = mon[n].state
           /\ mon'[n].ideal = "script" => n # m /\ mon[n].ideal = "script"
  <2>1. mon[m] \in MonsterState /\ mon \in [Monsters -> MonsterState]  BY Fields DEF Inv, TypeOK
  <2>2. /\ CineCleanup(mon[m], shot) \in MonsterState
        /\ CineCleanup(mon[m], shot).cine = None /\ CineCleanup(mon[m], shot).state = mon[m].state
        /\ CineCleanup(mon[m], shot).ideal \in {"idle", "dead"}
    BY <2>1, CineCleanupFields
  <2> QED BY <1>5, <2>1, <2>2 DEF MonsterState
<1>7. PossessionMutual'
  <2>1. {m} \in SUBSET Monsters  OBVIOUS
  <2>2. \A t \in Scripts :
          script'[t].target = IF \E n \in {m} : mon[n].cine = t THEN None ELSE script[t].target
    BY <1>4
  <2> QED BY <1>4, <1>6, <2>1, <2>2, LetGo
<1>8. ScriptedHaveCine'  BY <1>6 DEF Inv, ScriptedHaveCine
<1>9. spoilt' = spoilt /\ turns' = turns /\ restores' = restores  BY DEF SequenceDone
<1> QED BY <1>4, <1>6, <1>7, <1>8, <1>9 DEF Inv, TypeOK

LEMMA RemoveMonsterStep ==
  ASSUME Inv, NEW m \in Monsters, RemoveMonster(m)  PROVE Inv'
<1> USE Fields DEF Inv
<1>1. /\ mon' \in [Monsters -> MonsterState]
      /\ \A n \in Monsters : /\ n # m => mon'[n] = mon[n]
                             /\ n = m => mon'[n].cine = None /\ mon'[n].state = "gone"
  BY DEF RemoveMonster, TypeOK, MonsterState
<1>2. /\ script' \in [Scripts -> ScriptState]
      /\ \A s \in Scripts :
           /\ script'[s].target = IF script[s].target = m THEN None ELSE script[s].target
           /\ script'[s].think = script[s].think
  <2> DEFINE r(s) == IF script[s].target = m THEN [script[s] EXCEPT !.target = None] ELSE script[s]
  <2>1. script' = [s \in Scripts |-> r(s)]  BY DEF RemoveMonster
  <2>2. ASSUME NEW s \in Scripts
        PROVE  /\ r(s) \in ScriptState /\ r(s).think = script[s].think
               /\ r(s).target = IF script[s].target = m THEN None ELSE script[s].target
    <3>1. script[s] \in ScriptState  OBVIOUS
    <3> QED BY <3>1 DEF ScriptState
  <2> HIDE DEF r
  <2> QED BY <2>1, <2>2
<1>3. PossessionMutual'
  <2>1. {m} \in SUBSET Monsters  OBVIOUS
  <2>2. \A s \in Scripts : script[s].target = m <=> (\E n \in {m} : mon[n].cine = s)
    BY DEF PossessionMutual
  <2> QED BY <1>1, <1>2, <2>1, <2>2, LetGo
<1>4. ScriptedHaveCine'  BY <1>1 DEF ScriptedHaveCine
<1>5. spoilt' \subseteq {"late", "early"} /\ turns' = turns /\ restores' = restores
  BY LeavingType DEF RemoveMonster
<1> QED BY <1>1, <1>2, <1>3, <1>4, <1>5 DEF TypeOK

-----------------------------------------------------------------------------
(* The inductive invariant and what it gives.                              *)

LEMMA InitInv == Init => Inv
BY ScriptsAssumption DEF Init, Inv, TypeOK, PossessionMutual, ScriptedHaveCine, ScriptState, MonsterState

LEMMA NextInv ==
  ASSUME Inv, [Next]_vars  PROVE Inv'
<1>1. CASE \E s \in Scripts : Use(s) \/ FindNobody(s) \/ SUB_Remove(s)
  BY <1>1, UseStep, FindNobodyStep, RemoveScriptStep
<1>2. CASE \E s \in Scripts, m \in Monsters : PossessEntity(s, m)  BY <1>2, PossessStep
<1>3. CASE \E m \in Monsters : MaintainSchedule(m)
  BY <1>3, NewScheduleStep, TaskFailStep, EnableScriptStep, WaitForScriptStep, SequenceDoneStep
     DEF MaintainSchedule
<1>4. CASE \E m \in Monsters : ChangeMind(m) \/ ExitScriptedSequence(m)
  BY <1>4, ChangeMindStep, ExitStep
<1>5. CASE \E m \in Monsters : Killed(m) \/ Touched(m) \/ StartFollowing(m) \/ RemoveMonster(m)
  BY <1>5, KilledStep, TouchedStep, FollowStep, RemoveMonsterStep
<1>6. CASE PostRestore  BY <1>6, PostRestoreStep
<1>7. CASE UNCHANGED vars
  BY <1>7 DEF vars, Inv, TypeOK, PossessionMutual, ScriptedHaveCine
<1> QED BY <1>1, <1>2, <1>3, <1>4, <1>5, <1>6, <1>7 DEF Next, Touched

(* Types, the two sides of a possession, and the scripts of scripted       *)
(* monsters hold together, whatever happens to monsters and scripts.       *)
THEOREM Invariant == Spec => []Inv
<1>1. Inv /\ [Next]_vars => Inv'  BY NextInv
<1> QED BY InitInv, <1>1, PTL DEF Spec

(* Handles name monsters and scripts that exist, or nobody.                *)
THEOREM TypeCorrect == Spec => []TypeOK
<1>1. Inv => TypeOK  BY DEF Inv
<1> QED BY <1>1, Invariant, PTL

(* The monster's m_pCine and the script's m_hTargetEnt always name each    *)
(* other, and a script about to be removed is nobody's.                    *)
THEOREM PossessionsAgree == Spec => []PossessionMutual
<1>1. Inv => PossessionMutual  BY DEF Inv
<1> QED BY <1>1, Invariant, PTL

(* The ASSERT of schedule.cpp:1481 never fails.                            *)
THEOREM ScriptsAreThere == Spec => []ScriptedHaveCine
<1>1. Inv => ScriptedHaveCine  BY DEF Inv
<1> QED BY <1>1, Invariant, PTL

-----------------------------------------------------------------------------
(* m_iDelay against the monsters on their way.                             *)

LEMMA Sizes ==
  ASSUME NEW A \in SUBSET Monsters, NEW B \in SUBSET A
  PROVE  /\ IsFiniteSet(A) /\ Cardinality(A) \in Nat /\ Cardinality(B) \in Nat
         /\ Cardinality(B) <= Cardinality(A)
<1>1. IsFiniteSet(A)  BY FS_Subset, ScriptsAssumption DEF ScriptsAssumption
<1> QED BY <1>1, FS_Subset, FS_CardinalityType

LEMMA WalkersAreMonsters ==
  /\ Walkers \in SUBSET Monsters
  /\ Walkers' \in SUBSET Monsters
BY DEF Walkers

LEMMA DelaysAreIntegers ==
  ASSUME TypeOK, NEW s \in Scripts  PROVE script[s].delay \in Int
BY DEF TypeOK, ScriptState

(* A monster that a step does not touch, or not in these fields.           *)
LEMMA SameWay ==
  ASSUME NEW m \in Monsters, mon'[m].cine = mon[m].cine, mon'[m].state = mon[m].state,
         mon'[m].ideal = mon[m].ideal, mon'[m].task = mon[m].task
  PROVE  m \in Walkers' <=> m \in Walkers
BY DEF Walkers, OnTheWay

(* A step that delays nobody, after which fewer are on their way only if   *)
(* the history says so, and more too.                                      *)
LEMMA SameDelays ==
  ASSUME Inv, DelayCounts, spoilt \subseteq spoilt',
         \A s \in Scripts : script'[s].think # "gone" =>
           script[s].think # "gone" /\ script'[s].delay = script[s].delay,
         \/ Walkers' = Walkers
         \/ Walkers' \subseteq Walkers /\ "late" \in spoilt'
         \/ Walkers \subseteq Walkers' /\ "early" \in spoilt'
  PROVE  DelayCounts'
<1> SUFFICES ASSUME NEW s \in Scripts, script'[s].think # "gone"
             PROVE  /\ "early" \notin spoilt' => script'[s].delay >= Cardinality(Walkers')
                    /\ "late" \notin spoilt' => script'[s].delay <= Cardinality(Walkers')
  BY DEF DelayCounts
<1>1. /\ "early" \notin spoilt => script[s].delay >= Cardinality(Walkers)
      /\ "late" \notin spoilt => script[s].delay <= Cardinality(Walkers)
  BY DEF DelayCounts
<1>2. script[s].delay \in Int /\ script'[s].delay = script[s].delay
  BY DelaysAreIntegers DEF Inv
<1>3. Cardinality(Walkers) \in Nat /\ Cardinality(Walkers') \in Nat
  BY WalkersAreMonsters, Sizes
<1>4. CASE Walkers' = Walkers  BY <1>1, <1>2, <1>4
<1>5. CASE Walkers' \subseteq Walkers /\ "late" \in spoilt'
  <2>1. Cardinality(Walkers') <= Cardinality(Walkers)  BY <1>5, WalkersAreMonsters, Sizes
  <2> QED BY <1>1, <1>2, <1>3, <1>5, <2>1
<1>6. CASE Walkers \subseteq Walkers' /\ "early" \in spoilt'
  <2>1. Cardinality(Walkers) <= Cardinality(Walkers')  BY <1>6, WalkersAreMonsters, Sizes
  <2> QED BY <1>1, <1>2, <1>3, <1>6, <2>1
<1> QED BY <1>4, <1>5, <1>6

(* Steps of scripts and monsters that leave everyone where he is.          *)
LEMMA StillCounts ==
  ASSUME Inv, DelayCounts, spoilt' = spoilt,
         \A m \in Monsters : m \in Walkers' <=> m \in Walkers,
         \A s \in Scripts : script'[s].think # "gone" =>
           script[s].think # "gone" /\ script'[s].delay = script[s].delay
  PROVE  DelayCounts'
<1>1. Walkers' = Walkers  BY WalkersAreMonsters
<1> QED BY <1>1, SameDelays

LEMMA UseCounts ==
  ASSUME Inv, DelayCounts, NEW s \in Scripts, Use(s) \/ SUB_Remove(s)  PROVE DelayCounts'
<1>1. \A m \in Monsters : m \in Walkers' <=> m \in Walkers
  BY SameWay DEF Use, SUB_Remove
<1>2. \A t \in Scripts : script'[t].think # "gone" =>
        script[t].think # "gone" /\ script'[t].delay = script[t].delay
  BY Fields DEF Inv, Use, SUB_Remove, ScriptState
<1> QED BY <1>1, <1>2, StillCounts DEF Use, SUB_Remove

LEMMA PossessCounts ==
  ASSUME Inv, DelayCounts, NEW s \in Scripts, NEW m \in Monsters, PossessEntity(s, m)
  PROVE  DelayCounts'
<1> DEFINE f == [script EXCEPT ![s].think = "none", ![s].target = m]
<1>1. /\ f \in [Scripts -> ScriptState]
      /\ \A t \in Scripts : /\ f[t].think = IF t = s THEN "none" ELSE script[t].think
                            /\ f[t].delay = script[t].delay
  BY Fields DEF Inv, TypeOK, ScriptState
<1>2. script[s].think = "cine"  BY DEF PossessEntity
<1>3. script' = IF s \in WalkTo THEN DelayStart(f) ELSE f  BY DEF PossessEntity
<1> HIDE DEF f
<1>4. \A t \in Scripts : script'[t].think # "gone" =>
        /\ script[t].think # "gone"
        /\ script'[t].delay = IF s \in WalkTo THEN script[t].delay + 1 ELSE script[t].delay
  BY <1>1, <1>2, <1>3, DelayStartFields
<1>5. /\ \A n \in Monsters : n # m => mon'[n] = mon[n]
      /\ mon'[m].cine = s /\ mon'[m].ideal = "script"
      /\ mon'[m].state = mon[m].state /\ mon'[m].task = mon[m].task
  BY Fields DEF PossessEntity, Inv, MonsterState
<1>6. \A n \in Monsters : n # m => (n \in Walkers' <=> n \in Walkers)
  BY <1>5, SameWay
<1>7. m \notin Walkers
  BY ScriptsAssumption DEF PossessEntity, CanPlaySequence, Walkers, OnTheWay
<1>8. CASE s \notin WalkTo
  <2>1. m \notin Walkers'  BY <1>5, <1>8 DEF Walkers, OnTheWay
  <2>2. Walkers' = Walkers  BY <1>6, <1>7, <2>1, WalkersAreMonsters
  <2>3. spoilt' = spoilt  BY <1>8 DEF PossessEntity
  <2> QED BY <1>4, <1>8, <2>2, <2>3, SameDelays
<1>9. CASE s \in WalkTo
  <2>1. Walkers' = Walkers \cup {m} \/ (Walkers' = Walkers /\ "late" \in spoilt')
    <3>1. CASE mon[m].state = "script" /\ mon[m].task \in {"wait", "play", "chomp"}
      <4>1. "late" \in spoilt'  BY <1>9, <3>1 DEF PossessEntity
      <4>2. m \notin Walkers'  BY <1>5, <3>1 DEF Walkers, OnTheWay
      <4> QED BY <1>6, <1>7, <4>1, <4>2, WalkersAreMonsters
    <3>2. CASE ~(mon[m].state = "script" /\ mon[m].task \in {"wait", "play", "chomp"})
      <4>1. mon[m].task \in {"none", "walk", "fail", "wait", "play", "chomp"}  BY Fields DEF Inv, MonsterState
      <4>2. m \in Walkers'  BY <1>5, <1>9, <3>2, <4>1 DEF Walkers, OnTheWay
      <4> QED BY <1>6, <4>2, WalkersAreMonsters
    <3> QED BY <3>1, <3>2
  <2>2. Cardinality(Walkers \cup {m}) = Cardinality(Walkers) + 1
    <3>1. IsFiniteSet(Walkers)  BY WalkersAreMonsters, Sizes
    <3> QED BY <1>7, <3>1, FS_AddElement
  <2>3. spoilt \subseteq spoilt'  BY DEF PossessEntity
  <2>4. Cardinality(Walkers) \in Nat  BY WalkersAreMonsters, Sizes
  <2>5. SUFFICES ASSUME NEW t \in Scripts, script'[t].think # "gone"
                 PROVE  /\ "early" \notin spoilt' => script'[t].delay >= Cardinality(Walkers')
                        /\ "late" \notin spoilt' => script'[t].delay <= Cardinality(Walkers')
    BY DEF DelayCounts
  <2>6. /\ "early" \notin spoilt => script[t].delay >= Cardinality(Walkers)
        /\ "late" \notin spoilt => script[t].delay <= Cardinality(Walkers)
        /\ script[t].delay \in Int /\ script'[t].delay = script[t].delay + 1
    BY <1>4, <1>9, <2>5, DelaysAreIntegers DEF DelayCounts, Inv
  <2>7. CASE Walkers' = Walkers \cup {m}
    <3>1. Cardinality(Walkers') = Cardinality(Walkers) + 1  BY <2>2, <2>7
    <3> QED BY <2>3, <2>4, <2>6, <3>1
  <2>8. CASE Walkers' = Walkers /\ "late" \in spoilt'
    <3>1. Cardinality(Walkers') = Cardinality(Walkers)  BY <2>8
    <3> QED BY <2>3, <2>4, <2>6, <2>8, <3>1
  <2> QED BY <2>1, <2>7, <2>8
<1> QED BY <1>8, <1>9

(* A cancel of the group: who was on his way and is not now was cancelled. *)
LEMMA CancelCounts ==
  ASSUME Inv, DelayCounts, script' = Release(Cancelled), spoilt \subseteq spoilt',
         Cancelled \cap Walkers # {} => "late" \in spoilt',
         \A m \in Monsters : /\ m \in Walkers' => m \in Walkers
                             /\ m \in Walkers => m \in Walkers' \/ m \in Cancelled \/ "late" \in spoilt'
  PROVE  DelayCounts'
<1>1. TypeOK /\ Cancelled \in SUBSET Monsters  BY DEF Inv, Cancelled
<1>2. \A s \in Scripts : script'[s].think = script[s].think /\ script'[s].delay = script[s].delay
  BY <1>1, ReleaseFields
<1>3. Walkers' \subseteq Walkers  BY WalkersAreMonsters
<1>4. Walkers' = Walkers \/ "late" \in spoilt'  BY <1>3, WalkersAreMonsters
<1> QED BY <1>2, <1>3, <1>4, SameDelays

LEMMA FindNobodyCounts ==
  ASSUME Inv, DelayCounts, NEW s \in Scripts, FindNobody(s)  PROVE DelayCounts'
<1>1. PICK shot \in SUBSET Cancelled : mon' = AfterCancel(shot)  BY DEF FindNobody
<1>2. \A m \in Monsters : m \notin Cancelled => mon'[m] = mon[m]
  BY <1>1 DEF AfterCancel
<1>3. \A m \in Monsters : m \in Cancelled => m \notin Walkers'
  <2>1. \A m \in Monsters : m \in Cancelled => mon'[m].cine = None
    BY <1>1, AfterCancelFields DEF Inv
  <2> QED BY <2>1, ScriptsAssumption DEF Walkers, OnTheWay
<1>4. \A m \in Monsters : m \notin Cancelled => (m \in Walkers' <=> m \in Walkers)
  BY <1>2, SameWay
<1>5. spoilt \subseteq spoilt' /\ (Cancelled \cap Walkers # {} => "late" \in spoilt')
  BY DEF FindNobody, Leaving
<1> QED BY <1>3, <1>4, <1>5, CancelCounts DEF FindNobody

LEMMA ExitCounts ==
  ASSUME Inv, DelayCounts, NEW m \in Monsters, ExitScriptedSequence(m)  PROVE DelayCounts'
<1>1. PICK shot \in SUBSET Cancelled :
        mon' = [AfterCancel(shot) EXCEPT ![m].state = Adopted(AfterCancel(shot)[m].ideal),
                                         ![m].ideal = Adopted(@), ![m].task = "none"]
  BY DEF ExitScriptedSequence
<1> DEFINE f == AfterCancel(shot)
<1>2. f \in [Monsters -> MonsterState] /\ \A n \in Monsters : n \in Cancelled => f[n].cine = None
  BY AfterCancelFields DEF Inv
<1>3. \A n \in Monsters : n \notin Cancelled => f[n] = mon[n]
  BY DEF AfterCancel
<1>4. m \in Cancelled
  <2>1. mon[m] \in MonsterState /\ mon[m].cine # None  BY Fields DEF Inv, ExitScriptedSequence
  <2>2. script[mon[m].cine].target = m  BY <2>1 DEF Inv, PossessionMutual, MonsterState
  <2> QED BY <2>1, <2>2 DEF Cancelled, ExitScriptedSequence, MonsterState
<1> HIDE DEF f
<1>5. mon' = [f EXCEPT ![m].state = Adopted(f[m].ideal), ![m].ideal = Adopted(@), ![m].task = "none"]
  BY <1>1 DEF f
<1>6. /\ \A n \in Monsters : n \in Cancelled => mon'[n].cine = None
      /\ \A n \in Monsters : n \notin Cancelled => mon'[n] = mon[n]
  BY <1>2, <1>3, <1>4, <1>5 DEF MonsterState
<1>7. \A n \in Monsters : n \in Cancelled => n \notin Walkers'
  BY <1>6, ScriptsAssumption DEF Walkers, OnTheWay
<1>8. \A n \in Monsters : n \notin Cancelled => (n \in Walkers' <=> n \in Walkers)
  BY <1>6, SameWay
<1>9. spoilt \subseteq spoilt' /\ (Cancelled \cap Walkers # {} => "late" \in spoilt')
  BY DEF ExitScriptedSequence, Leaving
<1> QED BY <1>7, <1>8, <1>9, CancelCounts DEF ExitScriptedSequence

(* Steps of one monster that leave all scripts alone.                      *)
LEMMA OneMonsterCounts ==
  ASSUME Inv, DelayCounts, NEW m \in Monsters, script' = script, spoilt \subseteq spoilt',
         \A n \in Monsters : n # m => mon'[n] = mon[n],
         (m \in Walkers' <=> m \in Walkers) \/ (m \notin Walkers' /\ "late" \in spoilt')
  PROVE  DelayCounts'
<1>1. \A n \in Monsters : n # m => (n \in Walkers' <=> n \in Walkers)  BY SameWay
<1>2. Walkers' = Walkers \/ (Walkers' \subseteq Walkers /\ "late" \in spoilt')
  BY <1>1, WalkersAreMonsters
<1> QED BY <1>2, SameDelays

LEMMA NewScheduleCounts ==
  ASSUME Inv, DelayCounts, NEW m \in Monsters, NewSchedule(m)  PROVE DelayCounts'
<1>1. /\ \A n \in Monsters : n # m => mon'[n] = mon[n]
      /\ mon'[m].cine = mon[m].cine
      /\ mon'[m].state = Adopted(mon[m].ideal) /\ mon'[m].ideal = Adopted(mon[m].ideal)
      /\ mon'[m].task = IF mon[m].ideal # "script" THEN "none"
                        ELSE IF mon[m].cine \in WalkTo THEN "walk" ELSE "wait"
  BY Fields DEF NewSchedule, Inv, MonsterState
<1>2. mon[m].ideal \in {"idle", "alert", "combat", "prone", "script", "dead"}
  BY Fields DEF Inv, MonsterState
<1>3. CASE mon[m].ideal = "script"
  <2>1. mon'[m].state = "script" /\ mon'[m].ideal = "script"  BY <1>1, <1>3 DEF Adopted
  <2>2. m \in Walkers' <=> mon[m].cine \in WalkTo
    BY <1>1, <1>3, <2>1 DEF Walkers, OnTheWay
  <2>3. m \in Walkers <=> mon[m].cine \in WalkTo
    BY <1>3 DEF Walkers, OnTheWay, NewSchedule
  <2>4. script' = script /\ spoilt' = spoilt  BY <1>3 DEF NewSchedule
  <2> QED BY <1>1, <2>2, <2>3, <2>4, OneMonsterCounts
<1>4. CASE mon[m].ideal # "script"
  <2>1. mon'[m].state # "script" /\ mon'[m].ideal # "script"
    BY <1>1, <1>2, <1>4, AdoptedType
  <2>2. m \notin Walkers'  BY <2>1 DEF Walkers, OnTheWay
  <2>3. spoilt \subseteq spoilt' /\ (m \in Walkers => "late" \in spoilt') /\ script' = script
    BY <1>4 DEF NewSchedule, Leaving
  <2> QED BY <1>1, <2>2, <2>3, OneMonsterCounts
<1> QED BY <1>3, <1>4

LEMMA ChangeMindCounts ==
  ASSUME Inv, DelayCounts, NEW m \in Monsters, ChangeMind(m)  PROVE DelayCounts'
<1>0. PICK i \in {"idle", "combat"} : mon' = [mon EXCEPT ![m].state = i, ![m].ideal = i]
  BY DEF ChangeMind
<1>1. /\ \A n \in Monsters : n # m => mon'[n] = mon[n]
      /\ mon'[m].state = i /\ mon'[m].ideal = i
  BY <1>0, Fields DEF Inv, MonsterState
<1>2. m \notin Walkers' /\ m \notin Walkers
  BY <1>1 DEF ChangeMind, Walkers, OnTheWay
<1> QED BY <1>1, <1>2, OneMonsterCounts DEF ChangeMind

LEMMA WaitForScriptCounts ==
  ASSUME Inv, DelayCounts, NEW m \in Monsters, WaitForScript(m)  PROVE DelayCounts'
<1>1. /\ \A n \in Monsters : n # m => mon'[n] = mon[n]
      /\ mon'[m].state = mon[m].state /\ mon'[m].task = "play"
  BY Fields DEF WaitForScript, Inv, MonsterState
<1>2. m \notin Walkers' /\ m \notin Walkers
  BY <1>1 DEF WaitForScript, Playing, Walkers, OnTheWay
<1> QED BY <1>1, <1>2, OneMonsterCounts DEF WaitForScript

LEMMA KilledCounts ==
  ASSUME Inv, DelayCounts, NEW m \in Monsters, Killed(m)  PROVE DelayCounts'
<1>1. /\ \A n \in Monsters : n # m => mon'[n] = mon[n]
      /\ mon'[m].state = mon[m].state /\ mon'[m].ideal = "dead"
  BY Fields DEF Killed, Inv, MonsterState
<1>2. m \notin Walkers'  BY <1>1 DEF Killed, Walkers, OnTheWay
<1>3. spoilt \subseteq spoilt' /\ (m \in Walkers => "late" \in spoilt') /\ script' = script
  BY DEF Killed, Leaving
<1> QED BY <1>1, <1>2, <1>3, OneMonsterCounts

LEMMA TaskFailCounts ==
  ASSUME Inv, DelayCounts, NEW m \in Monsters, TaskFail(m)  PROVE DelayCounts'
<1>1. /\ \A n \in Monsters : n # m => mon'[n] = mon[n]
      /\ mon'[m].state = mon[m].state /\ mon'[m].cine = mon[m].cine /\ mon'[m].task = "fail"
  BY Fields DEF TaskFail, Inv, MonsterState
<1>2. m \in Walkers' <=> m \in Walkers
  BY <1>1 DEF TaskFail, Playing, Walkers, OnTheWay
<1> QED BY <1>1, <1>2, OneMonsterCounts DEF TaskFail

LEMMA TouchedCounts ==
  ASSUME Inv, DelayCounts, NEW m \in Monsters, Touched(m)  PROVE DelayCounts'
<1>1. /\ \A n \in Monsters : n # m => mon'[n] = mon[n]
      /\ mon'[m].state = mon[m].state /\ mon'[m].cine = mon[m].cine
      /\ script' = script
  BY TouchedFields
<1>2. CASE mon'[m].ideal # "script" /\ mon'[m].task = mon[m].task /\ spoilt' = Diverted(m)
  <2>1. spoilt \subseteq spoilt'  BY <1>2 DEF Diverted, Leaving
  <2>2. CASE mon[m].state = "script"
    <3>1. m \in Walkers' <=> m \in Walkers  BY <1>1, <1>2, <2>2 DEF Walkers, OnTheWay
    <3> QED BY <1>1, <2>1, <3>1, OneMonsterCounts
  <2>3. CASE mon[m].state # "script"
    <3>1. m \notin Walkers'  BY <1>1, <1>2, <2>3 DEF Walkers, OnTheWay
    <3>2. m \in Walkers => "late" \in spoilt'  BY <1>2, <2>3 DEF Diverted, Leaving
    <3> QED BY <1>1, <2>1, <3>1, <3>2, OneMonsterCounts
  <2> QED BY <2>2, <2>3
<1>3. CASE mon'[m].state = "script" /\ mon'[m].task = "chomp" /\ spoilt' = Leaving({m})
  <2>1. spoilt \subseteq spoilt' /\ (m \in Walkers => "late" \in spoilt')  BY <1>3 DEF Leaving
  <2>2. m \notin Walkers'  BY <1>3 DEF Walkers, OnTheWay
  <2> QED BY <1>1, <2>1, <2>2, OneMonsterCounts
<1> QED BY <1>2, <1>3, TouchedFields

LEMMA SequenceDoneCounts ==
  ASSUME Inv, DelayCounts, NEW m \in Monsters, SequenceDone(m)  PROVE DelayCounts'
<1>1. PICK shot \in BOOLEAN : mon' = [mon EXCEPT ![m] = [CineCleanup(@, shot) EXCEPT !.task = "none"]]
  BY DEF SequenceDone
<1>2. mon[m] \in MonsterState /\ DOMAIN mon = Monsters  BY Fields DEF Inv
<1>3. /\ \A n \in Monsters : n # m => mon'[n] = mon[n]
      /\ mon'[m].cine = None
  <2>1. CineCleanup(mon[m], shot) \in MonsterState /\ CineCleanup(mon[m], shot).cine = None
    BY <1>2, CineCleanupFields
  <2> QED BY <1>1, <1>2, <2>1 DEF MonsterState
<1>4. m \notin Walkers' /\ m \notin Walkers
  BY <1>3, ScriptsAssumption DEF SequenceDone, Playing, Walkers, OnTheWay
<1>5. \A n \in Monsters : n \in Walkers' <=> n \in Walkers  BY <1>3, <1>4, SameWay
<1>6. \A s \in Scripts : script'[s].think # "gone" =>
        script[s].think # "gone" /\ script'[s].delay = script[s].delay
  <2> DEFINE f == Release({m})
  <2>1. {m} \in SUBSET Monsters  OBVIOUS
  <2>2. /\ f \in [Scripts -> ScriptState]
        /\ \A s \in Scripts : f[s].think = script[s].think /\ f[s].delay = script[s].delay
    BY <2>1, ReleaseFields DEF Inv
  <2>3. script' = f \/ script' = [f EXCEPT ![mon[m].cine].think = "remove"]
    BY DEF SequenceDone
  <2>4. mon[m].cine \in Scripts /\ script[mon[m].cine].think = "none"
    <3>1. mon[m].cine \in Scripts
      BY <1>2 DEF SequenceDone, Playing, Inv, ScriptedHaveCine, MonsterState
    <3>2. script[mon[m].cine].target = m  BY <3>1 DEF Inv, PossessionMutual
    <3> QED BY <3>1, <3>2, ScriptsAssumption DEF Inv, PossessionMutual
  <2> HIDE DEF f
  <2> QED BY <2>2, <2>3, <2>4 DEF ScriptState
<1> QED BY <1>5, <1>6, StillCounts DEF SequenceDone

LEMMA EnableScriptCounts ==
  ASSUME Inv, DelayCounts, NEW m \in Monsters, EnableScript(m)  PROVE DelayCounts'
<1>1. /\ \A n \in Monsters : n # m => mon'[n] = mon[n]
      /\ mon'[m].state = "script" /\ mon'[m].task = "wait"
  BY Fields DEF EnableScript, Playing, Inv, MonsterState
<1>2. \A n \in Monsters : n # m => (n \in Walkers' <=> n \in Walkers)  BY <1>1, SameWay
<1>3. m \notin Walkers' /\ (m \in Walkers <=> mon[m].cine \in WalkTo)
  BY <1>1 DEF EnableScript, Playing, Walkers, OnTheWay
<1>4. Walkers' = Walkers \ {m}  BY <1>2, <1>3, WalkersAreMonsters
<1>5. Cardinality(Walkers') = IF m \in Walkers THEN Cardinality(Walkers) - 1 ELSE Cardinality(Walkers)
  <2>1. IsFiniteSet(Walkers)  BY WalkersAreMonsters, Sizes
  <2> QED BY <1>4, <2>1, FS_RemoveElement
<1>6. Cardinality(Walkers) \in Nat  BY WalkersAreMonsters, Sizes
<1>7. spoilt \subseteq spoilt' /\ ("early" \in spoilt' \/ m \in Walkers)
  BY <1>3 DEF EnableScript
<1> SUFFICES ASSUME NEW s \in Scripts, script'[s].think # "gone"
             PROVE  /\ "early" \notin spoilt' => script'[s].delay >= Cardinality(Walkers')
                    /\ "late" \notin spoilt' => script'[s].delay <= Cardinality(Walkers')
  BY DEF DelayCounts
<1>8. script[s].think # "gone" /\ script'[s].delay = script[s].delay - 1 /\ script[s].delay \in Int
  BY EnableStartFields, DelaysAreIntegers DEF EnableScript, Inv, TypeOK
<1>9. /\ "early" \notin spoilt => script[s].delay >= Cardinality(Walkers)
      /\ "late" \notin spoilt => script[s].delay <= Cardinality(Walkers)
  BY <1>8 DEF DelayCounts
<1>10. CASE m \in Walkers
  <2>1. Cardinality(Walkers') = Cardinality(Walkers) - 1  BY <1>5, <1>10
  <2> QED BY <1>6, <1>7, <1>8, <1>9, <2>1
<1>11. CASE m \notin Walkers
  <2>1. Cardinality(Walkers') = Cardinality(Walkers)  BY <1>5, <1>11
  <2> QED BY <1>6, <1>7, <1>8, <1>9, <1>11, <2>1
<1> QED BY <1>10, <1>11

LEMMA FollowCounts ==
  ASSUME Inv, DelayCounts, NEW m \in Monsters, StartFollowing(m)  PROVE DelayCounts'
<1>1. PICK shot \in SUBSET Cancelled, enemy \in BOOLEAN :
        /\ mon' = [(IF mon[m].cine # None THEN AfterCancel(shot) ELSE mon)
                     EXCEPT ![m].ideal = IF enemy THEN "alert" ELSE @, ![m].task = "none"]
        /\ script' = IF mon[m].cine # None THEN Release(Cancelled) ELSE script
        /\ spoilt' = Leaving((IF mon[m].cine # None THEN Cancelled ELSE {})
                               \cup (IF enemy THEN {m} ELSE {}))
  BY DEF StartFollowing
<1>2. mon[m] \in MonsterState  BY Fields DEF Inv
<1>3. CASE mon[m].cine # None
  <2> DEFINE f == AfterCancel(shot)
  <2>1. /\ f \in [Monsters -> MonsterState]
        /\ \A n \in Monsters : n \in Cancelled => f[n].cine = None
    BY AfterCancelFields DEF Inv
  <2>2. \A n \in Monsters : n \notin Cancelled => f[n] = mon[n]  BY DEF AfterCancel
  <2>3. mon' = [f EXCEPT ![m].ideal = IF enemy THEN "alert" ELSE @, ![m].task = "none"]
    BY <1>1, <1>3
  <2> HIDE DEF f
  <2>4. /\ \A n \in Monsters : mon'[n].cine = f[n].cine
        /\ \A n \in Monsters : n # m => mon'[n] = f[n]
        /\ mon'[m].state = f[m].state
        /\ mon'[m].ideal = IF enemy THEN "alert" ELSE f[m].ideal
    BY <2>1, <2>3 DEF MonsterState
  <2>5. \A n \in Monsters : n \in Cancelled => n \notin Walkers'
    BY <2>1, <2>4, ScriptsAssumption DEF Walkers, OnTheWay
  <2>6. \A n \in Monsters : n \notin Cancelled /\ n # m => (n \in Walkers' <=> n \in Walkers)
    BY <2>2, <2>4, SameWay
  <2>7. /\ spoilt \subseteq spoilt' /\ (Cancelled \cap Walkers # {} => "late" \in spoilt')
        /\ enemy /\ m \in Walkers => "late" \in spoilt'
    BY <1>1, <1>3 DEF Leaving
  <2>8. m \notin Cancelled => mon[m].state # "script"
    <3>1. script[mon[m].cine].target = m  BY <1>2, <1>3 DEF Inv, PossessionMutual, MonsterState
    <3> QED BY <1>2, <1>3, <3>1 DEF Cancelled, MonsterState
  <2>9. m \notin Cancelled => /\ m \in Walkers' => m \in Walkers
                              /\ m \in Walkers => m \in Walkers' \/ enemy
    BY <2>2, <2>4, <2>8 DEF Walkers, OnTheWay
  <2> QED BY <1>1, <1>3, <2>5, <2>6, <2>7, <2>9, CancelCounts
<1>4. CASE mon[m].cine = None
  <2>1. mon' = [mon EXCEPT ![m].ideal = IF enemy THEN "alert" ELSE @, ![m].task = "none"]
    BY <1>1, <1>4
  <2>2. /\ \A n \in Monsters : n # m => mon'[n] = mon[n]
        /\ mon'[m].cine = None
    BY <1>2, <1>4, <2>1, Fields DEF Inv, MonsterState
  <2>3. m \notin Walkers' /\ m \notin Walkers
    BY <1>4, <2>2, ScriptsAssumption DEF Walkers, OnTheWay
  <2>4. script' = script /\ spoilt \subseteq spoilt'  BY <1>1, <1>4 DEF Leaving
  <2> QED BY <2>2, <2>3, <2>4, OneMonsterCounts
<1> QED BY <1>3, <1>4

LEMMA RemoveMonsterCounts ==
  ASSUME Inv, DelayCounts, NEW m \in Monsters, RemoveMonster(m)  PROVE DelayCounts'
<1>1. /\ \A n \in Monsters : n # m => mon'[n] = mon[n]
      /\ mon'[m].cine = None
  BY Fields DEF RemoveMonster, Inv, MonsterState
<1>2. m \notin Walkers'  BY <1>1, ScriptsAssumption DEF Walkers, OnTheWay
<1>3. \A n \in Monsters : n # m => (n \in Walkers' <=> n \in Walkers)  BY <1>1, SameWay
<1>4. spoilt \subseteq spoilt' /\ (m \in Walkers => "late" \in spoilt')
  BY DEF RemoveMonster, Leaving
<1>5. Walkers' = Walkers \/ (Walkers' \subseteq Walkers /\ "late" \in spoilt')
  BY <1>2, <1>3, <1>4, WalkersAreMonsters
<1>6. \A s \in Scripts : script'[s].think = script[s].think /\ script'[s].delay = script[s].delay
  BY Fields DEF RemoveMonster, Inv, ScriptState
<1> QED BY <1>4, <1>5, <1>6, SameDelays

LEMMA PostRestoreCounts ==
  ASSUME Inv, DelayCounts, PostRestore  PROVE DelayCounts'
<1>1. \A m \in Monsters :
        /\ mon'[m].cine = mon[m].cine /\ mon'[m].state = mon[m].state
        /\ mon'[m].ideal = mon[m].ideal /\ mon'[m].task = "none"
  BY Fields DEF PostRestore, Inv, MonsterState
<1>2. \A m \in Monsters : m \in Walkers => m \in Walkers'
  BY <1>1 DEF Walkers, OnTheWay
<1>3. \A m \in Monsters : m \in Walkers' => m \in Walkers \/ "early" \in spoilt'
  <2> SUFFICES ASSUME NEW m \in Monsters, m \in Walkers', m \notin Walkers
               PROVE  "early" \in spoilt'
    OBVIOUS
  <2>1. mon[m].task \in {"none", "walk", "fail", "wait", "play", "chomp"}  BY Fields DEF Inv, MonsterState
  <2>2. mon[m].cine \in WalkTo /\ mon[m].task \in {"wait", "play", "chomp"}
    BY <1>1, <2>1 DEF Walkers, OnTheWay
  <2> QED BY <2>2 DEF PostRestore
<1>4. Walkers' = Walkers \/ (Walkers \subseteq Walkers' /\ "early" \in spoilt')
  BY <1>2, <1>3, WalkersAreMonsters
<1> QED BY <1>4, SameDelays DEF PostRestore

LEMMA InitCounts == Init => DelayCounts
<1> SUFFICES ASSUME Init PROVE DelayCounts  OBVIOUS
<1>1. Walkers = {}  BY ScriptsAssumption DEF Init, Walkers, OnTheWay
<1>2. Cardinality(Walkers) = 0  BY <1>1, FS_EmptySet
<1>3. \A s \in Scripts : script[s].delay = 0  BY DEF Init
<1> QED BY <1>2, <1>3 DEF DelayCounts

LEMMA NextCounts ==
  ASSUME Inv, DelayCounts, [Next]_vars  PROVE DelayCounts'
<1>1. CASE \E s \in Scripts : Use(s) \/ FindNobody(s) \/ SUB_Remove(s)
  BY <1>1, UseCounts, FindNobodyCounts
<1>2. CASE \E s \in Scripts, m \in Monsters : PossessEntity(s, m)  BY <1>2, PossessCounts
<1>3. CASE \E m \in Monsters : MaintainSchedule(m)
  BY <1>3, NewScheduleCounts, TaskFailCounts, EnableScriptCounts, WaitForScriptCounts,
     SequenceDoneCounts DEF MaintainSchedule
<1>4. CASE \E m \in Monsters : ChangeMind(m) \/ ExitScriptedSequence(m)
  BY <1>4, ChangeMindCounts, ExitCounts
<1>5. CASE \E m \in Monsters : Killed(m) \/ Touched(m) \/ StartFollowing(m) \/ RemoveMonster(m)
  BY <1>5, KilledCounts, TouchedCounts, FollowCounts, RemoveMonsterCounts
<1>6. CASE PostRestore  BY <1>6, PostRestoreCounts
<1>7. CASE UNCHANGED vars
  BY <1>7 DEF vars, DelayCounts, Walkers, OnTheWay
<1> QED BY <1>1, <1>2, <1>3, <1>4, <1>5, <1>6, <1>7 DEF Next, Touched

(* Only TASK_WAIT_FOR_SCRIPT sets a waiting monster playing.               *)
LEMMA OnlyWaitForScriptPlays ==
  ASSUME Inv, [Next]_vars, NEW m \in Monsters, mon[m].task = "wait", mon'[m].task = "play"
  PROVE  WaitForScript(m)
<1>0. \A n \in Monsters : mon[n] \in MonsterState
  BY Fields DEF Inv
<1>1. \A s \in Scripts : ~Use(s) /\ ~SUB_Remove(s)  BY DEF Use, SUB_Remove
<1>2. \A shot \in SUBSET Cancelled : AfterCancel(shot)[m].task = "wait"
  BY <1>0 DEF AfterCancel, CineCleanup, MonsterState
<1>3. \A s \in Scripts : ~FindNobody(s)  BY <1>2 DEF FindNobody
<1>4. \A s \in Scripts, n \in Monsters : ~PossessEntity(s, n)
  BY <1>0, Fields DEF PossessEntity, Inv, MonsterState
<1>5. ASSUME NEW n \in Monsters
      PROVE  /\ ~NewSchedule(n) /\ ~EnableScript(n) /\ ~SequenceDone(n) /\ ~ChangeMind(n)
             /\ ~Killed(n) /\ ~TaskFail(n) /\ ~Touched(n) /\ ~RemoveMonster(n)
  <2> USE <1>0, Fields DEF Inv, MonsterState
  <2>1. ~NewSchedule(n)  BY DEF NewSchedule
  <2>2. ~EnableScript(n)  BY DEF EnableScript
  <2>3. ~SequenceDone(n)  BY DEF SequenceDone, CineCleanup
  <2>4. ~ChangeMind(n)  BY DEF ChangeMind
  <2>5. ~Killed(n) /\ ~TaskFail(n) /\ ~RemoveMonster(n)  BY DEF Killed, TaskFail, RemoveMonster
  <2>6. ~Touched(n)
    <3>1. Touched(n) => /\ n # m => mon'[m] = mon[m]
                        /\ n = m => mon'[m].task \in {mon[m].task, "chomp"}
      BY TouchedFields
    <3> QED BY <3>1
  <2> QED BY <2>1, <2>2, <2>3, <2>4, <2>5, <2>6
<1>6. ASSUME NEW n \in Monsters  PROVE ~ExitScriptedSequence(n)
  <2> SUFFICES ASSUME NEW shot \in SUBSET Cancelled,
                      mon' = [AfterCancel(shot) EXCEPT ![n].state = Adopted(AfterCancel(shot)[n].ideal),
                                                       ![n].ideal = Adopted(@), ![n].task = "none"]
               PROVE  FALSE
    BY DEF ExitScriptedSequence
  <2>1. AfterCancel(shot) \in [Monsters -> MonsterState]  BY AfterCancelFields DEF Inv
  <2>2. mon'[m].task \in {"none", AfterCancel(shot)[m].task}  BY <2>1 DEF MonsterState
  <2> QED BY <1>2, <2>2
<1>7. ASSUME NEW n \in Monsters  PROVE ~StartFollowing(n)
  <2> SUFFICES ASSUME NEW shot \in SUBSET Cancelled, NEW enemy \in BOOLEAN, NEW hit \in BOOLEAN,
                      mon' = [(IF hit THEN AfterCancel(shot) ELSE mon)
                                EXCEPT ![n].ideal = IF enemy THEN "alert" ELSE @, ![n].task = "none"]
               PROVE  FALSE
    BY DEF StartFollowing
  <2> DEFINE f == IF hit THEN AfterCancel(shot) ELSE mon
  <2>1. f \in [Monsters -> MonsterState] /\ f[m].task = "wait"
    BY <1>2, AfterCancelFields DEF Inv, TypeOK
  <2> HIDE DEF f
  <2>2. mon'[m].task \in {"none", f[m].task}
    <3>1. mon' = [f EXCEPT ![n].ideal = IF enemy THEN "alert" ELSE @, ![n].task = "none"]  BY DEF f
    <3> QED BY <2>1, <3>1 DEF MonsterState
  <2> QED BY <2>1, <2>2
<1>8. ~PostRestore  BY <1>0 DEF PostRestore, MonsterState
<1>9. ~(UNCHANGED vars)  BY DEF vars
<1>10. PICK n \in Monsters : WaitForScript(n)
  BY <1>1, <1>3, <1>4, <1>5, <1>6, <1>7, <1>8, <1>9 DEF Next, MaintainSchedule, Touched
<1>11. n = m  BY <1>0, <1>10, Fields DEF WaitForScript, Inv, MonsterState
<1> QED BY <1>10, <1>11

(* m_iDelay is the number of monsters on their way, up to the reasons the  *)
(* history names.                                                          *)
THEOREM DelaysCount == Spec => []DelayCounts
<1>1. Inv /\ DelayCounts /\ [Next]_vars => DelayCounts'  BY NextCounts
<1> QED BY InitCounts, Invariant, <1>1, PTL DEF Spec

(* Nobody of a group starts to play while another is on his way, unless a  *)
(* saved game or a kept schedule has counted somebody out twice.           *)
THEOREM ActInConcert == Spec => InConcert
<1> DEFINE Together ==
      \A m \in Monsters : mon[m].task = "wait" /\ mon'[m].task = "play" /\ "early" \notin spoilt
        => Walkers = {}
<1>1. ASSUME Inv, DelayCounts, [Next]_vars  PROVE [Together]_vars
  <2> SUFFICES ASSUME NEW m \in Monsters, mon[m].task = "wait", mon'[m].task = "play",
                      "early" \notin spoilt
               PROVE  Walkers = {}
    OBVIOUS
  <2>1. WaitForScript(m)  BY <1>1, OnlyWaitForScriptPlays
  <2>2. mon[m].cine \in Scripts /\ script[mon[m].cine].delay <= 0
    <3>1. mon[m] \in MonsterState  BY <1>1, Fields DEF Inv
    <3> QED BY <1>1, <2>1, <3>1 DEF WaitForScript, Playing, Inv, ScriptedHaveCine, MonsterState
  <2>3. script[mon[m].cine].think # "gone"
    <3>1. script[mon[m].cine].target = m  BY <1>1, <2>2 DEF Inv, PossessionMutual
    <3> QED BY <1>1, <2>2, <3>1, ScriptsAssumption DEF Inv, PossessionMutual
  <2>4. Cardinality(Walkers) <= 0
    <3>1. script[mon[m].cine].delay >= Cardinality(Walkers)  BY <1>1, <2>2, <2>3 DEF DelayCounts
    <3>2. script[mon[m].cine].delay \in Int  BY <1>1, <2>2, DelaysAreIntegers DEF Inv
    <3>3. Cardinality(Walkers) \in Nat  BY WalkersAreMonsters, Sizes
    <3> QED BY <2>2, <3>1, <3>2, <3>3
  <2>5. IsFiniteSet(Walkers) /\ Cardinality(Walkers) \in Nat  BY WalkersAreMonsters, Sizes
  <2> QED BY <2>4, <2>5, FS_EmptySet
<1>2. Spec => [][Together]_vars  BY Invariant, DelaysCount, <1>1, PTL DEF Spec
<1> QED BY <1>2 DEF InConcert
-----------------------------------------------------------------------------
(* Nobody waits in vain. A monster has a task only in the script state,    *)
(* and what is dead wants to be dead; a script that somebody waits in has  *)
(* been started, or is still to be counted down.                           *)

Fit(r) ==
  /\ r.task # "none" => r.state = "script"
  /\ r.state \in {"dead", "gone"} => r.ideal = "dead"

TasksFit == \A m \in Monsters : Fit(mon[m])

WaitsAtMark(m) == mon[m].task = "wait" /\ mon[m].cine \in WalkTo

StartedOrAwaited ==
  "late" \notin spoilt =>
    \A m \in Monsters : WaitsAtMark(m) =>
      script[mon[m].cine].started \/ script[mon[m].cine].delay > 0

LEMMA CancelKeepsTasks ==
  ASSUME Inv, TasksFit, NEW shot \in SUBSET Cancelled, NEW m \in Monsters
  PROVE  /\ AfterCancel(shot)[m] \in MonsterState
         /\ Fit(AfterCancel(shot)[m])
         /\ AfterCancel(shot)[m].task = mon[m].task
         /\ AfterCancel(shot)[m].cine = IF m \in Cancelled THEN None ELSE mon[m].cine
<1>1. mon[m] \in MonsterState /\ Fit(mon[m])  BY Fields DEF Inv, TasksFit
<1>2. CASE m \in Cancelled
  <2>1. AfterCancel(shot)[m] = CineCleanup(mon[m], m \in shot) /\ mon[m].state = "script"
    BY <1>2 DEF AfterCancel, Cancelled
  <2>2. (m \in shot) \in BOOLEAN  OBVIOUS
  <2> QED BY <1>1, <1>2, <2>1, <2>2 DEF CineCleanup, MonsterState, Fit
<1>3. CASE m \notin Cancelled  BY <1>1, <1>3 DEF AfterCancel
<1> QED BY <1>2, <1>3

(* The monsters of the group after a cancel, and m as the caller leaves it. *)
LEMMA ExitMonsters ==
  ASSUME Inv, TasksFit, NEW m \in Monsters, ExitScriptedSequence(m)
  PROVE  \A n \in Monsters :
           /\ Fit(mon'[n])
           /\ WaitsAtMark(n)' => mon'[n].task = mon[n].task /\ mon'[n].cine = mon[n].cine
<1>1. PICK shot \in SUBSET Cancelled :
        mon' = [AfterCancel(shot) EXCEPT ![m].state = Adopted(AfterCancel(shot)[m].ideal),
                                         ![m].ideal = Adopted(@), ![m].task = "none"]
  BY DEF ExitScriptedSequence
<1> DEFINE f == AfterCancel(shot)
<1>2. f \in [Monsters -> MonsterState]  BY AfterCancelFields DEF Inv
<1>3. \A n \in Monsters :
        /\ Fit(f[n]) /\ f[n].task = mon[n].task
        /\ f[n].cine = IF n \in Cancelled THEN None ELSE mon[n].cine
  BY CancelKeepsTasks
<1> HIDE DEF f
<1>4. mon' = [f EXCEPT ![m].state = Adopted(f[m].ideal), ![m].ideal = Adopted(@), ![m].task = "none"]
  BY <1>1 DEF f
<1>5. /\ mon'[m].task = "none" /\ mon'[m].state = mon'[m].ideal
      /\ mon'[m].ideal # "gone"
      /\ \A n \in Monsters : n # m => mon'[n] = f[n]
  <2> DEFINE a == Adopted(f[m].ideal)
             g == [f[m] EXCEPT !.state = a, !.ideal = a, !.task = "none"]
  <2>1. f[m] \in MonsterState  BY <1>2
  <2>2. mon' = [f EXCEPT ![m] = g]  BY <1>2, <1>4, <2>1 DEF MonsterState
  <2>a. a # "gone"  BY <2>1, AdoptedType DEF MonsterState
  <2> HIDE DEF a
  <2>3. g.task = "none" /\ g.state = a /\ g.ideal = a  BY <2>1 DEF MonsterState
  <2> HIDE DEF g
  <2> QED BY <1>2, <2>2, <2>3, <2>a
<1>6. \A n \in Monsters : Fit(mon'[n])  BY <1>3, <1>5 DEF Fit
<1>7. ASSUME NEW n \in Monsters, WaitsAtMark(n)'
      PROVE  mon'[n].task = mon[n].task /\ mon'[n].cine = mon[n].cine
  <2>1. n # m  BY <1>5, <1>7 DEF WaitsAtMark
  <2>2. mon'[n].cine # None  BY <1>7, ScriptsAssumption DEF WaitsAtMark
  <2> QED BY <1>3, <1>5, <2>1, <2>2
<1> QED BY <1>6, <1>7

LEMMA FollowMonsters ==
  ASSUME Inv, TasksFit, NEW m \in Monsters, StartFollowing(m)
  PROVE  \A n \in Monsters :
           /\ Fit(mon'[n])
           /\ WaitsAtMark(n)' => mon'[n].task = mon[n].task /\ mon'[n].cine = mon[n].cine
<1>1. PICK shot \in SUBSET Cancelled, enemy \in BOOLEAN :
        mon' = [(IF mon[m].cine # None THEN AfterCancel(shot) ELSE mon)
                  EXCEPT ![m].ideal = IF enemy THEN "alert" ELSE @, ![m].task = "none"]
  BY DEF StartFollowing
<1> DEFINE f == IF mon[m].cine # None THEN AfterCancel(shot) ELSE mon
<1>2. f \in [Monsters -> MonsterState] /\ f[m].state = mon[m].state
  BY AfterCancelFields DEF Inv, TypeOK
<1>3. \A n \in Monsters :
        /\ Fit(f[n]) /\ f[n].task = mon[n].task
        /\ f[n].cine \in {None, mon[n].cine}
  BY CancelKeepsTasks DEF TasksFit
<1> HIDE DEF f
<1>4. mon' = [f EXCEPT ![m].ideal = IF enemy THEN "alert" ELSE @, ![m].task = "none"]
  BY <1>1 DEF f
<1>5. /\ mon'[m].task = "none" /\ mon'[m].state = f[m].state
      /\ \A n \in Monsters : n # m => mon'[n] = f[n]
  BY <1>2, <1>4 DEF MonsterState
<1>6. mon'[m].state \notin {"dead", "gone"}  BY <1>2, <1>5 DEF StartFollowing
<1>7. \A n \in Monsters : Fit(mon'[n])  BY <1>3, <1>5, <1>6 DEF Fit
<1>8. ASSUME NEW n \in Monsters, WaitsAtMark(n)'
      PROVE  mon'[n].task = mon[n].task /\ mon'[n].cine = mon[n].cine
  <2>1. n # m  BY <1>5, <1>8 DEF WaitsAtMark
  <2>2. mon'[n].cine # None  BY <1>8, ScriptsAssumption DEF WaitsAtMark
  <2> QED BY <1>3, <1>5, <2>1, <2>2
<1> QED BY <1>7, <1>8

(* Whoever waits at a mark after a step has just arrived, or waited there  *)
(* before, unless somebody is late.                                        *)
LEMMA MonstersFit ==
  ASSUME Inv, TasksFit, [Next]_vars
  PROVE  /\ TasksFit'
         /\ \A n \in Monsters : WaitsAtMark(n)' =>
              \/ mon'[n].task = mon[n].task /\ mon'[n].cine = mon[n].cine
              \/ EnableScript(n) \/ "late" \in spoilt'
<1> DEFINE Good(n) ==
      /\ Fit(mon'[n])
      /\ WaitsAtMark(n)' =>
           \/ mon'[n].task = mon[n].task /\ mon'[n].cine = mon[n].cine
           \/ EnableScript(n) \/ "late" \in spoilt'
<1>0. \A n \in Monsters : mon[n] \in MonsterState /\ Fit(mon[n])  BY Fields DEF Inv, TasksFit
<1>s. ASSUME NEW n \in Monsters, mon'[n] = mon[n]  PROVE Good(n)  BY <1>0, <1>s
<1>2. ASSUME NEW s \in Scripts, FindNobody(s), NEW n \in Monsters  PROVE Good(n)
  <2>1. PICK shot \in SUBSET Cancelled : mon' = AfterCancel(shot)  BY <1>2 DEF FindNobody
  <2> QED BY <2>1, CancelKeepsTasks, ScriptsAssumption DEF WaitsAtMark
<1>3. ASSUME NEW s \in Scripts, NEW m \in Monsters, PossessEntity(s, m)  PROVE Good(m)
  <2>1. /\ mon'[m].state = mon[m].state /\ mon'[m].task = mon[m].task /\ mon'[m].cine = s
        /\ mon[m].state \notin {"dead", "gone"}
    BY <1>0, <1>3, Fields DEF PossessEntity, CanPlaySequence, Inv, MonsterState
  <2>2. Fit(mon'[m])  BY <1>0, <2>1 DEF Fit
  <2>3. WaitsAtMark(m)' => "late" \in spoilt'
    BY <1>0, <1>3, <2>1 DEF WaitsAtMark, PossessEntity, Fit
  <2> QED BY <2>2, <2>3
<1>4. ASSUME NEW m \in Monsters, NewSchedule(m)  PROVE Good(m)
  <2>1. /\ mon'[m].state = Adopted(mon[m].ideal) /\ mon'[m].ideal = Adopted(mon[m].ideal)
        /\ mon'[m].cine = mon[m].cine
        /\ mon'[m].task = IF mon[m].ideal # "script" THEN "none"
                          ELSE IF mon[m].cine \in WalkTo THEN "walk" ELSE "wait"
    BY <1>0, <1>4, Fields DEF NewSchedule, Inv, MonsterState
  <2>2. mon[m].ideal = "script" => Adopted(mon[m].ideal) = "script"  BY DEF Adopted
  <2>3. mon'[m].state = mon'[m].ideal /\ mon'[m].ideal # "gone"
    BY <1>0, <2>1, AdoptedType DEF MonsterState
  <2>4. mon'[m].task # "none" => mon'[m].state = "script"  BY <2>1, <2>2
  <2>5. Fit(mon'[m])  BY <2>3, <2>4 DEF Fit
  <2>6. ~WaitsAtMark(m)'  BY <2>1 DEF WaitsAtMark
  <2> QED BY <2>5, <2>6
<1>5. ASSUME NEW m \in Monsters, TaskFail(m) \/ EnableScript(m) \/ WaitForScript(m)  PROVE Good(m)
  <2>1. mon'[m].state = "script" /\ mon'[m].task \in {"fail", "wait", "play"}
    BY <1>0, <1>5, Fields DEF TaskFail, EnableScript, WaitForScript, Playing, Inv, MonsterState
  <2>2. WaitsAtMark(m)' => EnableScript(m)
    BY <1>0, <1>5, Fields DEF TaskFail, WaitForScript, WaitsAtMark, Inv, MonsterState
  <2> QED BY <2>1, <2>2 DEF Fit
<1>6. ASSUME NEW m \in Monsters, SequenceDone(m)  PROVE Good(m)
  <2>1. PICK shot \in BOOLEAN : mon' = [mon EXCEPT ![m] = [CineCleanup(@, shot) EXCEPT !.task = "none"]]
    BY <1>6 DEF SequenceDone
  <2>2. CineCleanup(mon[m], shot) \in MonsterState /\ CineCleanup(mon[m], shot).state = "script"
    BY <1>0, <1>6, CineCleanupFields DEF SequenceDone, Playing
  <2>3. mon'[m].task = "none" /\ mon'[m].state = "script"
    BY <2>1, <2>2, Fields DEF Inv, MonsterState
  <2> QED BY <2>3 DEF Fit, WaitsAtMark
<1>7. ASSUME NEW m \in Monsters, ChangeMind(m) \/ Killed(m)  PROVE Good(m)
  <2>1. mon'[m].state \in {"idle", "combat", "prone"} /\ mon'[m].task = mon[m].task
    BY <1>0, <1>7, Fields DEF ChangeMind, Killed, Inv, MonsterState
  <2>2. mon[m].task = "none"
    BY <1>0, <1>7 DEF ChangeMind, Killed, Fit
  <2> QED BY <2>1, <2>2 DEF Fit, WaitsAtMark
<1>8. ASSUME NEW m \in Monsters, Touched(m)  PROVE Good(m)
  <2>1. /\ mon'[m].state = mon[m].state /\ mon'[m].state \notin {"dead", "gone"}
        /\ mon'[m].cine = mon[m].cine
        /\ \/ mon'[m].task = mon[m].task
           \/ mon'[m].state = "script" /\ mon'[m].task = "chomp"
    BY <1>8, TouchedFields
  <2> QED BY <1>0, <2>1 DEF Fit, WaitsAtMark
<1>9. ASSUME NEW m \in Monsters, RemoveMonster(m)  PROVE Good(m)
  <2>1. mon'[m].ideal = "dead" /\ mon'[m].task = "none"
    BY <1>9, Fields DEF RemoveMonster, Inv
  <2> QED BY <2>1 DEF Fit, WaitsAtMark
<1>10. ASSUME PostRestore, NEW n \in Monsters  PROVE Good(n)
  <2>1. mon'[n].task = "none" /\ mon'[n].state = mon[n].state /\ mon'[n].ideal = mon[n].ideal
    BY <1>0, <1>10 DEF PostRestore, MonsterState
  <2> QED BY <1>0, <2>1 DEF Fit, WaitsAtMark
<1>11. ASSUME NEW m \in Monsters, NEW n \in Monsters, n # m,
              \/ NewSchedule(m) \/ TaskFail(m) \/ EnableScript(m) \/ WaitForScript(m)
              \/ SequenceDone(m) \/ ChangeMind(m) \/ Killed(m) \/ Touched(m) \/ RemoveMonster(m)
              \/ \E s \in Scripts : PossessEntity(s, m)
       PROVE  mon'[n] = mon[n]
  BY <1>11, Fields, TouchedFields DEF Inv, NewSchedule, TaskFail, EnableScript, WaitForScript,
       SequenceDone, ChangeMind, Killed, RemoveMonster, PossessEntity
<1> SUFFICES \A n \in Monsters : Good(n)  BY DEF TasksFit
<1> HIDE DEF Good
<1>12. CASE \E m \in Monsters : MaintainSchedule(m)
  BY <1>s, <1>12, <1>4, <1>5, <1>6, <1>11 DEF MaintainSchedule
<1>13. CASE \E m \in Monsters : ChangeMind(m) \/ Killed(m) \/ Touched(m) \/ RemoveMonster(m)
  BY <1>s, <1>13, <1>7, <1>8, <1>9, <1>11
<1>14. CASE \E m \in Monsters : ExitScriptedSequence(m) \/ StartFollowing(m)
  BY <1>14, ExitMonsters, FollowMonsters DEF Good
<1>15. CASE \E s \in Scripts, m \in Monsters : PossessEntity(s, m)
  BY <1>s, <1>15, <1>3, <1>11
<1>16. CASE \E s \in Scripts : FindNobody(s)  BY <1>16, <1>2
<1>17. CASE PostRestore  BY <1>17, <1>10
<1>18. CASE UNCHANGED vars \/ \E s \in Scripts : Use(s) \/ SUB_Remove(s)
  <2>1. \A n \in Monsters : mon'[n] = mon[n]  BY <1>18 DEF vars, Use, SUB_Remove
  <2> QED BY <1>s, <2>1
<1> QED BY <1>12, <1>13, <1>14, <1>15, <1>16, <1>17, <1>18 DEF Next, Touched


(* What a step does to a script that has a monster: started stays so, and  *)
(* only an arrival counts down, which starts it or leaves it delayed.      *)
LEMMA ScriptsGoOn ==
  ASSUME Inv, [Next]_vars, NEW s \in Scripts, script'[s].think # "gone"
  PROVE  /\ script[s].started => script'[s].started
         /\ \/ script'[s].delay >= script[s].delay
            \/ \E m \in Monsters : EnableScript(m)
<1>0. script \in [Scripts -> ScriptState] /\ script[s] \in ScriptState  BY DEF Inv, TypeOK
<1> DEFINE Same == script'[s].started = script[s].started /\ script'[s].delay = script[s].delay
<1>1. ASSUME Same  PROVE /\ script[s].started => script'[s].started
                         /\ script'[s].delay >= script[s].delay
  BY <1>0, <1>1 DEF ScriptState
<1>2. CASE script' = script  BY <1>1, <1>2
<1>3. CASE \E t \in Scripts : Use(t) \/ SUB_Remove(t)
  <2>1. script[s].started => script'[s].started  BY <1>0, <1>3 DEF Use, SUB_Remove, ScriptState
  <2>2. script'[s].delay = script[s].delay  BY <1>0, <1>3 DEF Use, SUB_Remove, ScriptState
  <2> QED BY <1>0, <2>1, <2>2 DEF ScriptState
<1>4. CASE script' = Release(Cancelled)
  BY <1>0, <1>1, <1>4 DEF Release, ScriptState
<1>5. CASE \E t \in Scripts, m \in Monsters : PossessEntity(t, m)
  <2>1. PICK t \in Scripts, m \in Monsters : PossessEntity(t, m)  BY <1>5
  <2> DEFINE f == [script EXCEPT ![t].think = "none", ![t].target = m]
  <2>2. /\ f \in [Scripts -> ScriptState]
        /\ f[s].started = script[s].started /\ f[s].delay = script[s].delay
    BY <1>0, Fields DEF Inv, ScriptState
  <2>3. script' = f \/ script' = DelayStart(f)  BY <2>1 DEF PossessEntity
  <2> HIDE DEF f
  <2>4. DelayStart(f)[s].started = f[s].started /\ DelayStart(f)[s].delay >= f[s].delay
    <3>1. f[s] \in ScriptState  BY <2>2
    <3> QED BY <3>1 DEF DelayStart, ScriptState
  <2> QED BY <1>0, <2>2, <2>3, <2>4 DEF ScriptState
<1>6. ASSUME NEW m \in Monsters, EnableScript(m)  PROVE script[s].started => script'[s].started
  BY <1>0, <1>6 DEF EnableScript, EnableStart, ScriptState
<1>7. ASSUME NEW m \in Monsters, SequenceDone(m)  PROVE Same
  <2> DEFINE f == Release({m})
  <2>1. /\ f \in [Scripts -> ScriptState]
        /\ f[s].started = script[s].started /\ f[s].delay = script[s].delay
    <3>1. {m} \in SUBSET Monsters  OBVIOUS
    <3>2. f \in [Scripts -> ScriptState]  BY <3>1, ReleaseFields DEF Inv
    <3> QED BY <1>0, <3>2 DEF Release, ScriptState
  <2>2. script' = f \/ script' = [f EXCEPT ![mon[m].cine].think = "remove"]
    BY <1>7 DEF SequenceDone
  <2> HIDE DEF f
  <2> QED BY <2>1, <2>2 DEF ScriptState
<1>8. ASSUME NEW m \in Monsters, RemoveMonster(m)  PROVE Same
  BY <1>0, <1>8 DEF RemoveMonster, ScriptState
<1>9. CASE \E m \in Monsters : MaintainSchedule(m)
  BY <1>1, <1>2, <1>6, <1>7, <1>9 DEF MaintainSchedule, NewSchedule, TaskFail, WaitForScript
<1>10. CASE \E m \in Monsters : \/ ChangeMind(m) \/ ExitScriptedSequence(m) \/ Killed(m)
                                \/ Touched(m) \/ StartFollowing(m) \/ RemoveMonster(m)
  BY <1>1, <1>2, <1>4, <1>8, <1>10, TouchedFields
     DEF ChangeMind, ExitScriptedSequence, Killed, StartFollowing
<1>11. CASE PostRestore \/ UNCHANGED vars  BY <1>2, <1>11 DEF PostRestore, vars
<1>12. CASE \E t \in Scripts : FindNobody(t)  BY <1>4, <1>12 DEF FindNobody
<1> QED BY <1>3, <1>5, <1>9, <1>10, <1>11, <1>12 DEF Next, Touched

LEMMA ArrivalStarts ==
  ASSUME Inv, NEW m \in Monsters, EnableScript(m), NEW s \in Scripts, script'[s].think # "gone"
  PROVE  script'[s].started \/ script'[s].delay > 0
<1>1. script[s] \in ScriptState  BY DEF Inv, TypeOK
<1>2. script[s].think # "gone" /\ script'[s].delay = script[s].delay - 1
  BY EnableStartFields DEF EnableScript, Inv, TypeOK
<1>3. script[s].started \/ script[s].delay <= 1 => script'[s].started
  <2> DEFINE last == script[s].started \/ script[s].delay <= 1
             less == [script[s] EXCEPT !.delay = script[s].delay - 1, !.started = last]
  <2>1. script'[s] = less  BY <1>2 DEF EnableScript, EnableStart
  <2>2. less.started = last  BY <1>1 DEF ScriptState
  <2> HIDE DEF less
  <2> QED BY <2>1, <2>2
<1> QED BY <1>1, <1>2, <1>3 DEF ScriptState

LEMMA HistoryGrows ==
  ASSUME [Next]_vars  PROVE spoilt \subseteq spoilt'
BY DEF Next, vars, Use, FindNobody, SUB_Remove, PossessEntity, MaintainSchedule, NewSchedule,
       TaskFail, EnableScript, WaitForScript, SequenceDone, ChangeMind, ExitScriptedSequence,
       Killed, TakeDamage, StartFollowing, RemoveMonster, FBecomeProne, BarnacleVictimBitten,
       BarnacleVictimReleased, PostRestore, Leaving, Diverted

LEMMA NextAwaited ==
  ASSUME Inv, Inv', TasksFit, StartedOrAwaited, [Next]_vars  PROVE StartedOrAwaited'
<1> SUFFICES ASSUME NEW m \in Monsters, "late" \notin spoilt', WaitsAtMark(m)'
             PROVE  script'[mon'[m].cine].started \/ script'[mon'[m].cine].delay > 0
  BY DEF StartedOrAwaited
<1> DEFINE s == mon'[m].cine
<1>1. s \in Scripts /\ script'[s].think # "gone"
  <2>1. s \in Scripts  BY ScriptsAssumption DEF WaitsAtMark
  <2>2. script'[s].target = m /\ m # None  BY <2>1, ScriptsAssumption DEF Inv, PossessionMutual
  <2> QED BY <2>1, <2>2 DEF Inv, PossessionMutual
<1>2. CASE \E n \in Monsters : EnableScript(n)  BY <1>1, <1>2, ArrivalStarts
<1>3. CASE ~\E n \in Monsters : EnableScript(n)
  <2>1. mon[m].task = "wait" /\ mon[m].cine = s
    BY <1>3, MonstersFit DEF WaitsAtMark
  <2>2. "late" \notin spoilt  BY HistoryGrows
  <2>3. script[s].started \/ script[s].delay > 0
    BY <2>1, <2>2 DEF StartedOrAwaited, WaitsAtMark
  <2>4. script[s] \in ScriptState /\ script'[s] \in ScriptState  BY <1>1 DEF Inv, TypeOK
  <2>5. (script[s].started => script'[s].started) /\ script'[s].delay >= script[s].delay
    BY <1>1, <1>3, ScriptsGoOn
  <2> QED BY <2>3, <2>4, <2>5 DEF ScriptState
<1> QED BY <1>2, <1>3

(* As long as somebody waits, somebody is on its way or may begin to play. *)
LEMMA SomebodyGoesOn ==
  ASSUME Inv, DelayCounts, TasksFit, StartedOrAwaited  PROVE NobodyWaitsInVain
<1> SUFFICES ASSUME "late" \notin spoilt, NEW m \in Monsters, Held(m)
             PROVE  \E n \in Monsters : MayGoOn(n)
  BY DEF NobodyWaitsInVain
<1>1. ASSUME NEW n \in Monsters, OnTheWay(n)  PROVE MayGoOn(n)
  <2>1. Fit(mon[n]) /\ mon[n] \in MonsterState  BY Fields DEF TasksFit, Inv
  <2> QED BY <1>1, <2>1 DEF OnTheWay, MayGoOn, Playing, Fit
<1>2. CASE OnTheWay(m)  BY <1>1, <1>2
<1>3. CASE Playing(m, "wait") /\ mon[m].cine \in WalkTo
  <2> DEFINE s == mon[m].cine
  <2>1. s \in Scripts /\ script[s] \in ScriptState /\ script[s].think # "gone"
    <3>1. s \in Scripts  BY <1>3, ScriptsAssumption
    <3>2. script[s].target = m /\ m # None  BY <3>1, ScriptsAssumption DEF Inv, PossessionMutual
    <3> QED BY <3>1, <3>2 DEF Inv, PossessionMutual, TypeOK
  <2>2. script[s].started \/ script[s].delay > 0
    BY <1>3 DEF StartedOrAwaited, WaitsAtMark, Playing
  <2>3. CASE script[s].delay <= 0
    <3>1. script[s].started  BY <2>1, <2>2, <2>3 DEF ScriptState
    <3> QED BY <1>3, <2>3, <3>1 DEF MayGoOn
  <2>4. CASE ~(script[s].delay <= 0)
    <3>1. script[s].delay <= Cardinality(Walkers)  BY <2>1 DEF DelayCounts
    <3>2. Cardinality(Walkers) # 0
      <4>1. Cardinality(Walkers) \in Nat  BY WalkersAreMonsters, Sizes
      <4> QED BY <2>1, <2>4, <3>1, <4>1 DEF ScriptState
    <3>3. Walkers # {}  BY <3>2, FS_EmptySet
    <3>4. PICK n \in Monsters : OnTheWay(n)  BY <3>3 DEF Walkers
    <3> QED BY <1>1, <3>4
  <2> QED BY <2>3, <2>4
<1> QED BY <1>2, <1>3 DEF Held

(* Nobody of a group waits in vain: as long as nobody has left without     *)
(* arriving, the next step of the group is somebody's own.                 *)
THEOREM NobodyIsForgotten == Spec => []NobodyWaitsInVain
<1> DEFINE Group == TasksFit /\ StartedOrAwaited
<1>1. Init => Group
  BY DEF Init, TasksFit, Fit, StartedOrAwaited, WaitsAtMark
<1>2. Inv /\ Inv' /\ Group /\ [Next]_vars => Group'  BY MonstersFit, NextAwaited
<1>3. Inv /\ DelayCounts /\ Group => NobodyWaitsInVain  BY SomebodyGoesOn
<1> HIDE DEF Group
<1> QED BY Invariant, DelaysCount, <1>1, <1>2, <1>3, PTL DEF Spec

-----------------------------------------------------------------------------
(* Possession. Which monsters are gone, and which scripts.                 *)

SameAway == \A m \in Monsters : mon'[m].state = "gone" <=> mon[m].state = "gone"
SameOver == \A s \in Scripts : script'[s].think = "gone" <=> script[s].think = "gone"

LEMMA OnlyRemovalTakesAway ==
  ASSUME Inv, [Next]_vars, \A m \in Monsters : ~RemoveMonster(m)
  PROVE  SameAway
<1>0. /\ \A n \in Monsters : mon[n] \in MonsterState
      /\ mon \in [Monsters -> MonsterState] /\ DOMAIN mon = Monsters
  BY Fields DEF Inv, TypeOK
<1>1. CASE mon' = mon  BY <1>1 DEF SameAway
<1>2. CASE \E s \in Scripts : FindNobody(s)
  <2>1. PICK shot \in SUBSET Cancelled : mon' = AfterCancel(shot)  BY <1>2 DEF FindNobody
  <2> QED BY <2>1, AfterCancelFields DEF SameAway, Inv
<1>3. CASE \E s \in Scripts, m \in Monsters : PossessEntity(s, m)
  BY <1>0, <1>3 DEF PossessEntity, SameAway, MonsterState
<1>4. CASE \E m \in Monsters : NewSchedule(m)
  <2>1. PICK m \in Monsters : NewSchedule(m)  BY <1>4
  <2>2. Adopted(mon[m].ideal) # "gone"  BY <1>0, AdoptedType DEF MonsterState
  <2>3. /\ mon'[m].state = Adopted(mon[m].ideal) /\ mon[m].state # "gone"
        /\ \A n \in Monsters : n # m => mon'[n] = mon[n]
    BY <1>0, <2>1 DEF NewSchedule, MonsterState
  <2> QED BY <2>2, <2>3 DEF SameAway
<1>5. CASE \E m \in Monsters : ExitScriptedSequence(m)
  <2>1. PICK m \in Monsters, shot \in SUBSET Cancelled :
          /\ mon[m].state = "script"
          /\ mon' = [AfterCancel(shot) EXCEPT ![m].state = Adopted(AfterCancel(shot)[m].ideal),
                                              ![m].ideal = Adopted(@), ![m].task = "none"]
    BY <1>5 DEF ExitScriptedSequence
  <2> DEFINE f == AfterCancel(shot)
  <2>2. f \in [Monsters -> MonsterState] /\ \A n \in Monsters : f[n].state = mon[n].state
    BY AfterCancelFields DEF Inv
  <2>3. mon' = [f EXCEPT ![m].state = Adopted(f[m].ideal), ![m].ideal = Adopted(@), ![m].task = "none"]
    BY <2>1
  <2> HIDE DEF f
  <2>4. Adopted(f[m].ideal) # "gone"  BY <2>2, AdoptedType DEF MonsterState
  <2>5. mon'[m].state = Adopted(f[m].ideal) /\ \A n \in Monsters : n # m => mon'[n] = f[n]
    BY <2>2, <2>3 DEF MonsterState
  <2> QED BY <2>1, <2>2, <2>4, <2>5 DEF SameAway
<1>6. CASE \E m \in Monsters : StartFollowing(m)
  <2>0. PICK m \in Monsters : StartFollowing(m)  BY <1>6
  <2>1. PICK shot \in SUBSET Cancelled, enemy \in BOOLEAN :
          mon' = [(IF mon[m].cine # None THEN AfterCancel(shot) ELSE mon)
                    EXCEPT ![m].ideal = IF enemy THEN "alert" ELSE @, ![m].task = "none"]
    BY <2>0 DEF StartFollowing
  <2> DEFINE f == IF mon[m].cine # None THEN AfterCancel(shot) ELSE mon
  <2>2. f \in [Monsters -> MonsterState] /\ \A n \in Monsters : f[n].state = mon[n].state
    BY <1>0, AfterCancelFields DEF Inv
  <2>3. mon' = [f EXCEPT ![m].ideal = IF enemy THEN "alert" ELSE @, ![m].task = "none"]
    BY <2>1
  <2> HIDE DEF f
  <2> QED BY <2>2, <2>3, Followed DEF SameAway
<1>7. CASE \E m \in Monsters : SequenceDone(m)
  <2>1. PICK m \in Monsters, shot \in BOOLEAN :
          mon' = [mon EXCEPT ![m] = [CineCleanup(@, shot) EXCEPT !.task = "none"]]
    BY <1>7 DEF SequenceDone
  <2>2. /\ CineCleanup(mon[m], shot) \in MonsterState
        /\ CineCleanup(mon[m], shot).state = mon[m].state
    BY <1>0, CineCleanupFields
  <2>3. [CineCleanup(mon[m], shot) EXCEPT !.task = "none"].state = mon[m].state
    BY <2>2 DEF MonsterState
  <2> QED BY <1>0, <2>1, <2>3 DEF SameAway
<1>8. CASE \E m \in Monsters : TaskFail(m) \/ EnableScript(m) \/ WaitForScript(m) \/ Killed(m)
  BY <1>0, <1>8 DEF TaskFail, EnableScript, WaitForScript, Killed, SameAway, MonsterState
<1>t. CASE \E m \in Monsters : Touched(m)
  <2>1. PICK m \in Monsters : Touched(m)  BY <1>t
  <2>2. mon'[m].state = mon[m].state /\ \A n \in Monsters : n # m => mon'[n] = mon[n]
    BY <2>1, TouchedFields
  <2> QED BY <2>2 DEF SameAway
<1>9. CASE \E m \in Monsters : ChangeMind(m)
  <2>1. PICK m \in Monsters, i \in {"idle", "combat"} :
          mon' = [mon EXCEPT ![m].state = i, ![m].ideal = i] /\ mon[m].state \in {"idle", "combat"}
    BY <1>9 DEF ChangeMind
  <2>2. mon'[m].state = i /\ \A n \in Monsters : n # m => mon'[n] = mon[n]
    BY <1>0, <2>1 DEF MonsterState
  <2> QED BY <2>1, <2>2 DEF SameAway
<1>10. CASE PostRestore  BY <1>0, <1>10 DEF PostRestore, SameAway, MonsterState
<1>11. CASE UNCHANGED vars \/ \E s \in Scripts : Use(s) \/ SUB_Remove(s)
  BY <1>1, <1>11 DEF vars, Use, SUB_Remove
<1> QED
  BY <1>2, <1>3, <1>4, <1>5, <1>6, <1>7, <1>8, <1>t, <1>9, <1>10, <1>11
     DEF Next, MaintainSchedule, Touched

(* A step that leaves all pairs alone, and one that parts some.            *)
LEMMA NothingHappens ==
  ASSUME SameAway, SameOver, \A s \in Scripts : script'[s].target = script[s].target
  PROVE  UNCHANGED Hands!vars
<1>1. Has' = Has  BY DEF Has
<1>2. Over' = Over  BY DEF SameOver, Over
<1>3. Away' = Away  BY DEF SameAway, Away
<1> QED BY <1>1, <1>2, <1>3 DEF Hands!vars

LEMMA SomeAreLetGo ==
  ASSUME SameAway, SameOver, NEW S \in SUBSET Scripts,
         \A s \in S : script[s].target # None,
         \A s \in Scripts : script'[s].target = IF s \in S THEN None ELSE script[s].target
  PROVE  Hands!Next
<1>1. Has' = [s \in Scripts |-> IF s \in S THEN None ELSE Has[s]]  BY DEF Has
<1>2. Over' = Over /\ Away' = Away  BY DEF SameOver, Over, SameAway, Away
<1>3. \A s \in S : Has[s] # None  BY DEF Has
<1>4. Hands!LetGo(S)  BY <1>1, <1>2, <1>3 DEF Hands!LetGo
<1> QED BY <1>4 DEF Hands!Next

(* The monsters of M are let go by the scripts that have them.             *)
LEMMA ReleaseLetsGo ==
  ASSUME Inv, SameAway, SameOver, NEW M \in SUBSET Monsters,
         \A s \in Scripts : script'[s].target = Release(M)[s].target
  PROVE  Hands!Next
<1> DEFINE S == {s \in Scripts : \E m \in M : mon[m].cine = s}
<1>1. \A s \in Scripts : script'[s].target = IF s \in S THEN None ELSE script[s].target
  BY ReleaseFields DEF Inv
<1>2. ASSUME NEW s \in S  PROVE script[s].target # None
  <2>1. PICK m \in M : mon[m].cine = s  OBVIOUS
  <2> QED BY <2>1, ScriptsAssumption DEF Inv, PossessionMutual
<1> HIDE DEF S
<1>3. S \in SUBSET Scripts  BY DEF S
<1> QED BY <1>1, <1>2, <1>3, SomeAreLetGo

LEMMA PossessTakes ==
  ASSUME Inv, SameAway, NEW s \in Scripts, NEW m \in Monsters, PossessEntity(s, m)
  PROVE  Hands!Next
<1> DEFINE f == [script EXCEPT ![s].think = "none", ![s].target = m]
<1>1. /\ f \in [Scripts -> ScriptState]
      /\ \A t \in Scripts : /\ f[t].target = IF t = s THEN m ELSE script[t].target
                            /\ f[t].think = IF t = s THEN "none" ELSE script[t].think
  BY Fields DEF Inv, TypeOK, ScriptState
<1>2. script' = f \/ script' = DelayStart(f)  BY DEF PossessEntity
<1> HIDE DEF f
<1>3. \A t \in Scripts : /\ script'[t].target = IF t = s THEN m ELSE script[t].target
                         /\ script'[t].think = IF t = s THEN "none" ELSE script[t].think
  BY <1>1, <1>2, DelayStartFields
<1>4. /\ script[s].think = "cine" /\ m \in Cast[s]
      /\ mon[m].cine = None /\ mon[m].state # "gone"
  BY DEF PossessEntity, CanPlaySequence
<1>5. s \notin Over /\ Has[s] = None
  BY <1>4 DEF Over, Has, Inv, PossessionMutual
<1>6. Hands!Free(m)
  <2>1. m \notin Away  BY <1>4 DEF Away
  <2>2. \A t \in Scripts : Has[t] # m
    BY <1>4, ScriptsAssumption DEF Has, Inv, PossessionMutual
  <2> QED BY <2>1, <2>2 DEF Hands!Free
<1>7. Has' = [Has EXCEPT ![s] = m]  BY <1>3 DEF Has
<1>8. Over' = Over
  <2>1. SameOver  BY <1>3, <1>4 DEF SameOver
  <2> QED BY <2>1 DEF SameOver, Over
<1>9. Away' = Away  BY DEF SameAway, Away
<1>10. Hands!Take(s, m)  BY <1>4, <1>5, <1>6, <1>7, <1>8, <1>9 DEF Hands!Take
<1> QED BY <1>10 DEF Hands!Next

LEMMA RemovedHasNobody ==
  ASSUME Inv, SameAway, NEW s \in Scripts, SUB_Remove(s)
  PROVE  Hands!Next
<1>1. script[s].target = None  BY DEF SUB_Remove, Inv, PossessionMutual
<1>2. /\ script'[s].target = None /\ script'[s].think = "gone"
      /\ \A t \in Scripts : t # s => script'[t] = script[t]
  BY Fields DEF SUB_Remove, Inv
<1>3. Has' = Has /\ Has[s] = None  BY <1>1, <1>2 DEF Has
<1>4. Over' = Over \cup {s}  BY <1>2 DEF Over
<1>5. Away' = Away  BY DEF SameAway, Away
<1>6. Hands!Remove(s)  BY <1>3, <1>4, <1>5 DEF Hands!Remove
<1> QED BY <1>6 DEF Hands!Next

LEMMA RemovedIsLost ==
  ASSUME Inv, NEW m \in Monsters, RemoveMonster(m)
  PROVE  Hands!Next
<1> DEFINE r(s) == IF script[s].target = m THEN [script[s] EXCEPT !.target = None] ELSE script[s]
<1>1. \A s \in Scripts :
        /\ script'[s].target = IF script[s].target = m THEN None ELSE script[s].target
        /\ script'[s].think = script[s].think
  <2>1. script' = [s \in Scripts |-> r(s)]  BY DEF RemoveMonster
  <2>2. ASSUME NEW s \in Scripts
        PROVE  /\ r(s).think = script[s].think
               /\ r(s).target = IF script[s].target = m THEN None ELSE script[s].target
    <3>1. script[s] \in ScriptState  BY Fields DEF Inv
    <3> QED BY <3>1 DEF ScriptState
  <2> HIDE DEF r
  <2> QED BY <2>1, <2>2
<1>2. /\ mon'[m].state = "gone"
      /\ \A n \in Monsters : n # m => mon'[n] = mon[n]
  BY Fields DEF RemoveMonster, Inv
<1>3. Has' = [s \in Scripts |-> IF Has[s] = m THEN None ELSE Has[s]]  BY <1>1 DEF Has
<1>4. Over' = Over  BY <1>1 DEF Over
<1>5. Away' = Away \cup {m}  BY <1>2 DEF Away
<1>6. Hands!Lose(m)  BY <1>3, <1>4, <1>5 DEF Hands!Lose
<1> QED BY <1>6 DEF Hands!Next

LEMMA PossessionStep ==
  ASSUME Inv, [Next]_vars  PROVE [Hands!Next]_(Hands!vars)
<1>0. script \in [Scripts -> ScriptState] /\ Cancelled \in SUBSET Monsters
  BY DEF Inv, TypeOK, Cancelled
<1>1. CASE \E m \in Monsters : RemoveMonster(m)  BY <1>1, RemovedIsLost
<1>2. CASE ~\E m \in Monsters : RemoveMonster(m)
  <2>0. SameAway  BY <1>2, OnlyRemovalTakesAway
  <2>1. CASE script' = script  BY <2>0, <2>1, NothingHappens DEF SameOver
  <2>2. CASE \E s \in Scripts : Use(s)
    <3>1. \A t \in Scripts : /\ script'[t].target = script[t].target
                             /\ script'[t].think = "gone" <=> script[t].think = "gone"
      BY <1>0, <2>2 DEF Use, ScriptState
    <3> QED BY <2>0, <3>1, NothingHappens DEF SameOver
  <2>3. CASE script' = Release(Cancelled)
    <3>1. SameOver  BY <1>0, <2>3, ReleaseFields DEF SameOver, Inv
    <3> QED BY <1>0, <2>0, <2>3, <3>1, ReleaseLetsGo
  <2>4. CASE \E s \in Scripts : SUB_Remove(s)  BY <2>0, <2>4, RemovedHasNobody
  <2>5. CASE \E s \in Scripts, m \in Monsters : PossessEntity(s, m)  BY <2>0, <2>5, PossessTakes
  <2>6. CASE \E m \in Monsters : EnableScript(m)
    <3>1. script' = EnableStart(script)  BY <2>6 DEF EnableScript
    <3>2. SameOver /\ \A s \in Scripts : script'[s].target = script[s].target
      BY <1>0, <3>1, EnableStartFields DEF SameOver
    <3> QED BY <2>0, <3>2, NothingHappens
  <2>7. ASSUME NEW m \in Monsters, SequenceDone(m)  PROVE Hands!Next
    <3> DEFINE f == Release({m})
    <3>1. {m} \in SUBSET Monsters  OBVIOUS
    <3>2. /\ f \in [Scripts -> ScriptState]
          /\ \A s \in Scripts : f[s].think = script[s].think
      BY <3>1, ReleaseFields DEF Inv
    <3>3. mon[m].cine \in Scripts /\ script[mon[m].cine].think # "gone"
      <4>1. mon[m].cine # None
        BY <2>7 DEF SequenceDone, Playing, Inv, ScriptedHaveCine
      <4>2. mon[m].cine \in Scripts  BY <4>1, Fields DEF Inv, MonsterState
      <4>3. script[mon[m].cine].target = m  BY <4>2 DEF Inv, PossessionMutual
      <4> QED BY <4>2, <4>3, ScriptsAssumption DEF Inv, PossessionMutual
    <3>4. script' = f \/ script' = [f EXCEPT ![mon[m].cine].think = "remove"]
      BY <2>7 DEF SequenceDone
    <3> HIDE DEF f
    <3>5. /\ SameOver
          /\ \A s \in Scripts : script'[s].target = f[s].target
      BY <3>2, <3>3, <3>4 DEF SameOver, ScriptState
    <3> QED BY <2>0, <3>1, <3>5, ReleaseLetsGo DEF f
  <2>8. CASE \E m \in Monsters : ExitScriptedSequence(m) \/ StartFollowing(m)
    BY <2>1, <2>3, <2>8 DEF ExitScriptedSequence, StartFollowing
  <2>9. CASE \E s \in Scripts : FindNobody(s)  BY <2>3, <2>9 DEF FindNobody
  <2>10. CASE \/ \E m \in Monsters : \/ NewSchedule(m) \/ TaskFail(m) \/ WaitForScript(m)
                                     \/ ChangeMind(m) \/ Killed(m) \/ Touched(m)
              \/ PostRestore \/ UNCHANGED vars
    BY <2>1, <2>10, TouchedFields
       DEF NewSchedule, TaskFail, WaitForScript, ChangeMind, Killed, PostRestore, vars
  <2> QED
    BY <1>2, <2>2, <2>4, <2>5, <2>6, <2>7, <2>8, <2>9, <2>10 DEF Next, MaintainSchedule, Touched
<1> QED BY <1>1, <1>2

(* Scripts take monsters one at a time, hand nobody on and are removed     *)
(* with empty hands, whatever becomes of them and of the monsters.         *)
THEOREM ScriptsImplementPossession == Spec => ImplementsPossession
<1>1. Init => Hands!Init
  BY DEF Init, Hands!Init, Has, Over, Away
<1>2. Inv /\ [Next]_vars => [Hands!Next]_(Hands!vars)  BY PossessionStep
<1> QED BY Invariant, <1>1, <1>2, PTL DEF Spec, ImplementsPossession, Hands!Spec

-----------------------------------------------------------------------------
(* Actors. What ActorsStay says of the fields r of monster n. Only prey    *)
(* hangs on a barnacle's tongue.                                           *)

Stays(n, r) ==
  r.state = "script" /\ r.cine # None =>
    \/ r.ideal = "script"
    \/ n \in Squad /\ r.ideal = "alert"
    \/ n \in Prey /\ r.ideal \in {"prone", "idle"}

PreyIsCaught == \A n \in Monsters : mon[n].caught => n \in Prey

(* CancelScript reaches everybody who is in a script.                      *)
LEMMA CancelReachesActors ==
  ASSUME Inv, NEW m \in Monsters, mon[m].state = "script", mon[m].cine # None
  PROVE  m \in Cancelled
<1>1. mon[m].cine \in Scripts  BY Fields DEF Inv, MonsterState
<1>2. script[mon[m].cine].target = m  BY <1>1 DEF Inv, PossessionMutual
<1> QED BY <1>1, <1>2 DEF Cancelled

LEMMA CancelFreesActors ==
  ASSUME Inv, NEW shot \in SUBSET Cancelled
  PROVE  /\ AfterCancel(shot) \in [Monsters -> MonsterState]
         /\ \A n \in Monsters :
              /\ AfterCancel(shot)[n].state = mon[n].state
              /\ mon[n].state = "script" => AfterCancel(shot)[n].cine = None
BY AfterCancelFields, CancelReachesActors DEF Inv

LEMMA ActorsStayStep ==
  ASSUME Inv, ActorsStay, PreyIsCaught, [Next]_vars  PROVE ActorsStay'
<1> DEFINE Good(n) == Stays(n, mon'[n])
<1>0. /\ \A n \in Monsters : mon[n] \in MonsterState /\ Stays(n, mon[n])
      /\ mon \in [Monsters -> MonsterState] /\ DOMAIN mon = Monsters
  BY Fields DEF Inv, TypeOK, ActorsStay, Stays
<1>s. ASSUME NEW n \in Monsters, mon'[n] = mon[n]  PROVE Good(n)  BY <1>0, <1>s
<1>c. ASSUME NEW n \in Monsters, mon'[n].cine = None \/ mon'[n].state # "script"  PROVE Good(n)
  BY <1>c DEF Stays
<1>i. ASSUME NEW n \in Monsters, mon'[n].ideal = "script"  PROVE Good(n)
  BY <1>i DEF Stays
<1> SUFFICES \A n \in Monsters : Good(n)  BY DEF ActorsStay, Stays
<1> HIDE DEF Good
<1>2. ASSUME NEW s \in Scripts, FindNobody(s), NEW n \in Monsters  PROVE Good(n)
  <2>1. PICK shot \in SUBSET Cancelled : mon' = AfterCancel(shot)  BY <1>2 DEF FindNobody
  <2> QED BY <1>c, <2>1, CancelFreesActors
<1>3. ASSUME NEW s \in Scripts, NEW m \in Monsters, PossessEntity(s, m)  PROVE Good(m)
  <2>1. mon'[m].ideal = "script"  BY <1>0, <1>3 DEF PossessEntity, MonsterState
  <2> QED BY <1>i, <2>1
<1>4. ASSUME NEW m \in Monsters, NewSchedule(m)  PROVE Good(m)
  <2>1. mon'[m].state = Adopted(mon[m].ideal) /\ mon'[m].ideal = Adopted(mon[m].ideal)
    BY <1>0, <1>4 DEF NewSchedule, MonsterState
  <2> QED BY <1>c, <1>i, <2>1
<1>5. ASSUME NEW m \in Monsters, TaskFail(m) \/ EnableScript(m) \/ WaitForScript(m)  PROVE Good(m)
  <2>1. mon'[m].ideal = "script"
    BY <1>0, <1>5 DEF TaskFail, EnableScript, WaitForScript, Playing, MonsterState
  <2> QED BY <1>i, <2>1
<1>6. ASSUME NEW m \in Monsters, SequenceDone(m)  PROVE Good(m)
  <2>1. PICK shot \in BOOLEAN : mon' = [mon EXCEPT ![m] = [CineCleanup(@, shot) EXCEPT !.task = "none"]]
    BY <1>6 DEF SequenceDone
  <2>2. CineCleanup(mon[m], shot) \in MonsterState /\ CineCleanup(mon[m], shot).cine = None
    BY <1>0, CineCleanupFields
  <2>3. mon'[m].cine = None  BY <1>0, <2>1, <2>2 DEF MonsterState
  <2> QED BY <1>c, <2>3
<1>7. ASSUME NEW m \in Monsters, ChangeMind(m) \/ Killed(m) \/ RemoveMonster(m)  PROVE Good(m)
  <2>1. mon'[m].state # "script"
    BY <1>0, <1>7 DEF ChangeMind, Killed, RemoveMonster, MonsterState
  <2> QED BY <1>c, <2>1
<1>8. ASSUME NEW m \in Monsters, Touched(m)  PROVE Good(m)
  <2>1. /\ mon'[m].cine = mon[m].cine /\ mon'[m].state = mon[m].state
        /\ \/ mon'[m].ideal = "alert" /\ m \in Squad
           \/ mon'[m].ideal \in {"prone", "idle"} /\ (m \in Prey \/ mon[m].caught)
           \/ mon'[m].ideal = mon[m].ideal
    BY <1>8, TouchedFields
  <2>2. mon[m].caught => m \in Prey  BY DEF PreyIsCaught
  <2> QED BY <1>0, <2>1, <2>2 DEF Good, Stays
<1>9. ASSUME NEW m \in Monsters, ExitScriptedSequence(m), NEW n \in Monsters  PROVE Good(n)
  <2>1. PICK shot \in SUBSET Cancelled :
          mon' = [AfterCancel(shot) EXCEPT ![m].state = Adopted(AfterCancel(shot)[m].ideal),
                                           ![m].ideal = Adopted(@), ![m].task = "none"]
    BY <1>9 DEF ExitScriptedSequence
  <2> DEFINE f == AfterCancel(shot)
  <2>2. /\ f \in [Monsters -> MonsterState]
        /\ f[n].state = "script" => f[n].cine = None
    BY CancelFreesActors
  <2>3. mon' = [f EXCEPT ![m].state = Adopted(f[m].ideal), ![m].ideal = Adopted(@), ![m].task = "none"]
    BY <2>1
  <2> HIDE DEF f
  <2>4. /\ mon'[m].state = Adopted(f[m].ideal) /\ mon'[m].ideal = Adopted(f[m].ideal)
        /\ n # m => mon'[n] = f[n]
    BY <2>2, <2>3 DEF MonsterState
  <2> QED BY <1>c, <1>i, <2>2, <2>4
<1>10. ASSUME NEW m \in Monsters, StartFollowing(m), NEW n \in Monsters  PROVE Good(n)
  <2>1. PICK shot \in SUBSET Cancelled, enemy \in BOOLEAN :
          mon' = [(IF mon[m].cine # None THEN AfterCancel(shot) ELSE mon)
                    EXCEPT ![m].ideal = IF enemy THEN "alert" ELSE @, ![m].task = "none"]
    BY <1>10 DEF StartFollowing
  <2>2. CASE mon[m].cine # None
    <3> DEFINE f == AfterCancel(shot)
    <3>1. f \in [Monsters -> MonsterState] /\ (f[n].state = "script" => f[n].cine = None)
      BY CancelFreesActors
    <3>2. mon' = [f EXCEPT ![m].ideal = IF enemy THEN "alert" ELSE @, ![m].task = "none"]
      BY <2>1, <2>2
    <3> HIDE DEF f
    <3>3. mon'[n].cine = f[n].cine /\ mon'[n].state = f[n].state
      BY <3>1, <3>2, Followed
    <3> QED BY <1>c, <3>1, <3>3
  <2>3. CASE mon[m].cine = None
    <3>1. mon' = [mon EXCEPT ![m].ideal = IF enemy THEN "alert" ELSE @, ![m].task = "none"]
      BY <2>1, <2>3
    <3>2. mon'[m].cine = None /\ (n # m => mon'[n] = mon[n])
      BY <1>0, <2>3, <3>1, Followed
    <3> QED BY <1>c, <1>s, <3>2
  <2> QED BY <2>2, <2>3
<1>11. ASSUME PostRestore, NEW n \in Monsters  PROVE Good(n)
  <2>1. mon'[n].cine = mon[n].cine /\ mon'[n].state = mon[n].state /\ mon'[n].ideal = mon[n].ideal
    BY <1>0, <1>11 DEF PostRestore, MonsterState
  <2> QED BY <1>0, <2>1 DEF Good, Stays
<1>12. ASSUME NEW m \in Monsters, NEW n \in Monsters, n # m,
              \/ NewSchedule(m) \/ TaskFail(m) \/ EnableScript(m) \/ WaitForScript(m)
              \/ SequenceDone(m) \/ ChangeMind(m) \/ Killed(m) \/ Touched(m) \/ RemoveMonster(m)
              \/ \E s \in Scripts : PossessEntity(s, m)
       PROVE  mon'[n] = mon[n]
  BY <1>0, <1>12, TouchedFields DEF NewSchedule, TaskFail, EnableScript, WaitForScript,
       SequenceDone, ChangeMind, Killed, RemoveMonster, PossessEntity
<1>13. CASE \E m \in Monsters : MaintainSchedule(m)
  BY <1>s, <1>13, <1>4, <1>5, <1>6, <1>12 DEF MaintainSchedule
<1>14. CASE \E m \in Monsters : ChangeMind(m) \/ Killed(m) \/ Touched(m) \/ RemoveMonster(m)
  BY <1>s, <1>14, <1>7, <1>8, <1>12
<1>15. CASE \E m \in Monsters : ExitScriptedSequence(m) \/ StartFollowing(m)
  BY <1>15, <1>9, <1>10
<1>16. CASE \E s \in Scripts, m \in Monsters : PossessEntity(s, m)
  BY <1>s, <1>16, <1>3, <1>12
<1>17. CASE \/ UNCHANGED vars \/ PostRestore
            \/ \E s \in Scripts : Use(s) \/ SUB_Remove(s) \/ FindNobody(s)
  BY <1>s, <1>17, <1>2, <1>11 DEF vars, Use, SUB_Remove
<1> QED BY <1>13, <1>14, <1>15, <1>16, <1>17 DEF Next, Touched

(* Only FBecomeProne puts a monster on a tongue.                           *)
LEMMA OnlyPreyIsCaught ==
  ASSUME Inv, PreyIsCaught, [Next]_vars  PROVE PreyIsCaught'
<1> SUFFICES ASSUME NEW n \in Monsters, ~mon[n].caught, mon'[n].caught  PROVE n \in Prey
  BY DEF PreyIsCaught
<1>0. /\ \A m \in Monsters : mon[m] \in MonsterState
      /\ mon \in [Monsters -> MonsterState] /\ DOMAIN mon = Monsters
  BY Fields DEF Inv, TypeOK
<1>1. \A m \in Monsters : FBecomeProne(m) => m \in Prey /\ (n # m => mon'[n] = mon[n])
  BY <1>0 DEF FBecomeProne
<1>2. \A shot \in SUBSET Cancelled : AfterCancel(shot)[n].caught = mon[n].caught
  BY <1>0 DEF AfterCancel, CineCleanup, MonsterState
<1>3. \A s \in Scripts : ~FindNobody(s) /\ ~Use(s) /\ ~SUB_Remove(s)
  BY <1>2 DEF FindNobody, Use, SUB_Remove
<1>4. \A s \in Scripts, m \in Monsters : ~PossessEntity(s, m)
  BY <1>0 DEF PossessEntity, MonsterState
<1>5. ASSUME NEW m \in Monsters
      PROVE  /\ ~NewSchedule(m) /\ ~TaskFail(m) /\ ~EnableScript(m) /\ ~WaitForScript(m)
             /\ ~SequenceDone(m) /\ ~ChangeMind(m) /\ ~Killed(m) /\ ~TakeDamage(m)
             /\ ~RemoveMonster(m) /\ ~BarnacleVictimBitten(m) /\ ~BarnacleVictimReleased(m)
  <2> USE <1>0 DEF MonsterState
  <2>1. ~NewSchedule(m)  BY DEF NewSchedule
  <2>2. ~TaskFail(m) /\ ~EnableScript(m) /\ ~WaitForScript(m)
    BY DEF TaskFail, EnableScript, WaitForScript
  <2>3. ~SequenceDone(m)  BY DEF SequenceDone, CineCleanup
  <2>4. ~ChangeMind(m)  BY DEF ChangeMind
  <2>5. ~Killed(m) /\ ~TakeDamage(m) /\ ~RemoveMonster(m)  BY DEF Killed, TakeDamage, RemoveMonster
  <2>6. ~BarnacleVictimBitten(m) /\ ~BarnacleVictimReleased(m)
    BY DEF BarnacleVictimBitten, BarnacleVictimReleased
  <2> QED BY <2>1, <2>2, <2>3, <2>4, <2>5, <2>6
<1>6. ASSUME NEW m \in Monsters  PROVE ~ExitScriptedSequence(m)
  <2> SUFFICES ASSUME NEW shot \in SUBSET Cancelled,
                      mon' = [AfterCancel(shot) EXCEPT ![m].state = Adopted(AfterCancel(shot)[m].ideal),
                                                       ![m].ideal = Adopted(@), ![m].task = "none"]
               PROVE  FALSE
    BY DEF ExitScriptedSequence
  <2>1. AfterCancel(shot) \in [Monsters -> MonsterState]  BY AfterCancelFields DEF Inv
  <2>2. mon'[n].caught = AfterCancel(shot)[n].caught  BY <2>1 DEF MonsterState
  <2> QED BY <1>2, <2>2
<1>7. ASSUME NEW m \in Monsters  PROVE ~StartFollowing(m)
  <2> SUFFICES ASSUME NEW shot \in SUBSET Cancelled, NEW enemy \in BOOLEAN, NEW hit \in BOOLEAN,
                      mon' = [(IF hit THEN AfterCancel(shot) ELSE mon)
                                EXCEPT ![m].ideal = IF enemy THEN "alert" ELSE @, ![m].task = "none"]
               PROVE  FALSE
    BY DEF StartFollowing
  <2> DEFINE f == IF hit THEN AfterCancel(shot) ELSE mon
  <2>1. f \in [Monsters -> MonsterState] /\ f[n].caught = mon[n].caught
    BY <1>2, AfterCancelFields DEF Inv, TypeOK
  <2> HIDE DEF f
  <2>2. mon'[n].caught = f[n].caught
    <3>1. mon' = [f EXCEPT ![m].ideal = IF enemy THEN "alert" ELSE @, ![m].task = "none"]  BY DEF f
    <3> QED BY <2>1, <3>1 DEF MonsterState
  <2> QED BY <2>1, <2>2
<1>8. ~PostRestore /\ ~(UNCHANGED vars)  BY <1>0 DEF PostRestore, vars, MonsterState
<1>9. PICK m \in Monsters : FBecomeProne(m)
  BY <1>3, <1>4, <1>5, <1>6, <1>7, <1>8 DEF Next, MaintainSchedule
<1> QED BY <1>1, <1>9

(* CineCleanup is what ends a monster's part in a script: whoever leaves   *)
(* the script state has been let go, but for squad members that are shot   *)
(* and for the prey of a barnacle.                                         *)
THEOREM ActorsStayToTheEnd == Spec => []ActorsStay
<1>1. Init => ActorsStay /\ PreyIsCaught  BY DEF Init, ActorsStay, PreyIsCaught
<1>2. Inv /\ ActorsStay /\ PreyIsCaught /\ [Next]_vars => ActorsStay' /\ PreyIsCaught'
  BY ActorsStayStep, OnlyPreyIsCaught
<1> QED BY Invariant, <1>1, <1>2, PTL DEF Spec
=============================================================================
