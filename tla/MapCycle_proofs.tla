-------------------------- MODULE MapCycle_proofs --------------------------
(***************************************************************************)
(* Proofs about MapCycle for every map cycle and every number of clients.  *)
(*                                                                         *)
(* What makes NoEntryStarves inductive is the distance from the index to   *)
(* an entry on the way round the cycle: an entry that is suitable and not  *)
(* taken comes nearer by at least one, since GetNextMap takes the nearest  *)
(* suitable entry, so that the choices it has waited for and its distance  *)
(* together stay below the length of the cycle.                            *)
(***************************************************************************)
EXTENDS MapCycle, WellFoundedInduction, TLAPS

Dist(N, index, i) == IF i >= index THEN i - index ELSE i - index + N

WaitedBelowDistance ==
  \A i \in Entries(Items) : waited[i] + Dist(Len(Items), Index, i) < Len(Items)

IInv ==
  /\ TypeOK
  /\ WaitedBelowDistance
  /\ SuitableIfAny
  /\ CurrentMapExists

(* A non-empty set of natural numbers has a least element, and Least(S) is *)
(* it.                                                                     *)
LEMMA LeastIsLeast ==
  ASSUME NEW S, S \subseteq Nat, S # {}
  PROVE  Least(S) \in S /\ \A j \in S : Least(S) <= j
<1>1. PICK x \in S : \A y \in S : ~(<<y, x>> \in OpToRel(<, Nat))
  BY NatLessThanWellFounded, WFMin
<1>2. ASSUME NEW y \in S  PROVE x <= y
  <2>1. x \in Nat /\ y \in Nat /\ <<y, x>> \in Nat \X Nat
    OBVIOUS
  <2>2. ~(y < x)
    BY <1>1, <2>1 DEF OpToRel
  <2> QED
    BY <2>1, <2>2
<1> QED
  BY <1>2 DEF Least

(* GetNextMap: the entry it returns is in the cycle; if one is suitable it *)
(* is the suitable one nearest to the index on the way round.              *)
LEMMA NextItemIsNearest ==
  ASSUME NEW items \in Seq(Item), items # <<>>,
         NEW index \in Entries(items), NEW n \in Nat
  PROVE  LET S == Suitable(items, n)
             i == NextItem(items, index, n)
         IN  /\ i \in Entries(items)
             /\ S # {} => i \in S
             /\ S = {} => i = index
             /\ \A j \in S : Dist(Len(items), index, i) <= Dist(Len(items), index, j)
<1> DEFINE N == Len(items)
           S == Suitable(items, n)
           after  == {i \in S : i >= index}
           before == {i \in S : i < index}
<1>1. N \in Nat /\ index \in 0 .. N - 1 /\ S \subseteq 0 .. N - 1
  BY DEF Entries, Suitable
<1>2. after \subseteq Nat /\ before \subseteq Nat /\ S = after \cup before
  BY <1>1
<1> HIDE DEF S
<1>3. CASE after # {}
  <2>1. Least(after) \in after /\ \A j \in after : Least(after) <= j
    BY <1>2, <1>3, LeastIsLeast
  <2>2. NextItem(items, index, n) = Least(after)
    BY <1>3 DEF NextItem, S
  <2>3. Least(after) \in S /\ Least(after) \in 0 .. N - 1 /\ Least(after) >= index
    BY <1>1, <2>1
  <2>4. ASSUME NEW j \in S
        PROVE  Dist(N, index, Least(after)) <= Dist(N, index, j)
    <3>1. j \in 0 .. N - 1
      BY <1>1
    <3>2. j >= index => Least(after) <= j
      BY <2>1
    <3> HIDE DEF after
    <3> QED
      BY <1>1, <2>3, <3>1, <3>2 DEF Dist
  <2> HIDE DEF after
  <2> QED
    BY <2>2, <2>3, <2>4 DEF Entries, S
<1>4. CASE after = {} /\ before # {}
  <2>1. Least(before) \in before /\ \A j \in before : Least(before) <= j
    BY <1>2, <1>4, LeastIsLeast
  <2>2. NextItem(items, index, n) = Least(before)
    BY <1>4 DEF NextItem, S
  <2>3. Least(before) \in S /\ Least(before) \in 0 .. N - 1 /\ Least(before) < index
    BY <1>1, <2>1
  <2>4. ASSUME NEW j \in S
        PROVE  Dist(N, index, Least(before)) <= Dist(N, index, j)
    <3>1. j \in 0 .. N - 1
      BY <1>1
    <3>2. j < index /\ Least(before) <= j
      BY <1>1, <1>4, <2>1, <3>1
    <3> HIDE DEF before
    <3> QED
      BY <1>1, <2>3, <3>1, <3>2 DEF Dist
  <2> HIDE DEF before
  <2> QED
    BY <2>2, <2>3, <2>4 DEF Entries, S
<1>5. CASE after = {} /\ before = {}
  <2>1. NextItem(items, index, n) = index
    BY <1>5 DEF NextItem, S
  <2> QED
    BY <1>1, <1>2, <1>5, <2>1 DEF Entries, S
<1> QED
  BY <1>3, <1>4, <1>5

(* One step round the cycle. *)
LEMMA OneStepRound ==
  ASSUME NEW N \in Nat \ {0}, NEW a \in 0 .. 2 * N - 1
  PROVE  a % N = IF a < N THEN a ELSE a - N
<1>1. CASE a < N
  BY <1>1, SMT
<1>2. CASE a >= N
  <2>1. (a - N) \in 0 .. N - 1 /\ a = N * 1 + (a - N)
    BY <1>2
  <2> QED
    BY <2>1, <1>2, SMT
<1> QED
  BY <1>1, <1>2

(* The distance is what its name says: Dist steps from the index lead to   *)
(* the entry, and an entry has one distance.                               *)
LEMMA DistIsPosition ==
  ASSUME NEW N \in Nat \ {0}, NEW index \in 0 .. N - 1, NEW i \in 0 .. N - 1
  PROVE  /\ Dist(N, index, i) \in 0 .. N - 1
         /\ (index + Dist(N, index, i)) % N = i
         /\ \A k \in 0 .. N - 1 : (index + k) % N = i => k = Dist(N, index, i)
<1>1. Dist(N, index, i) \in 0 .. N - 1
  BY DEF Dist
<1>2. ASSUME NEW k \in 0 .. N - 1
      PROVE  (index + k) % N = IF index + k < N THEN index + k ELSE index + k - N
  <2> DEFINE a == index + k
  <2>1. a \in 0 .. 2 * N - 1
    OBVIOUS
  <2> HIDE DEF a
  <2>2. a % N = IF a < N THEN a ELSE a - N
    BY <2>1, OneStepRound
  <2> QED
    BY <2>2 DEF a
<1>3. (index + Dist(N, index, i)) % N = i
  BY <1>1, <1>2 DEF Dist
<1>4. ASSUME NEW k \in 0 .. N - 1, (index + k) % N = i
      PROVE  k = Dist(N, index, i)
  BY <1>2, <1>4 DEF Dist
<1> QED
  BY <1>1, <1>3, <1>4

(* Moving the index behind i brings an entry beyond i nearer by the way to *)
(* i and one step more: it may have waited for one more choice.            *)
LEMMA BehindIsNearer ==
  ASSUME NEW N \in Nat \ {0}, NEW index \in 0 .. N - 1,
         NEW i \in 0 .. N - 1, NEW j \in 0 .. N - 1, i # j,
         Dist(N, index, i) <= Dist(N, index, j),
         NEW next \in 0 .. N - 1, next = IF i + 1 < N THEN i + 1 ELSE 0,
         NEW w \in Nat, w + Dist(N, index, j) < N
  PROVE  w + 1 + Dist(N, next, j) < N
BY DEF Dist

LEMMA NoneIsBelow ==
  ASSUME NEW N \in Nat \ {0}, NEW next \in 0 .. N - 1, NEW j \in 0 .. N - 1
  PROVE  0 + Dist(N, next, j) < N
BY DEF Dist

-----------------------------------------------------------------------------
(* Taking an entry keeps every part of the invariant.                      *)
LEMMA TakeKeeps ==
  ASSUME NEW items \in Seq(Item), items # <<>>, Items' = items,
         NEW index \in Entries(items), NEW old \in [Entries(items) -> Nat],
         \A j \in Entries(items) : old[j] + Dist(Len(items), index, j) < Len(items),
         curplayers \in 0 .. MaxClients, mapname \in installed, installed \subseteq Maps,
         Take(items, index, old)
  PROVE  /\ Index' \in Entries(items)
         /\ mapname' \in installed
         /\ waited' \in [Entries(items) -> Nat]
         /\ last' \in [suits : BOOLEAN, any : BOOLEAN]
         /\ WaitedBelowDistance'
         /\ SuitableIfAny'
<1> DEFINE N == Len(items)
           S == Suitable(items, curplayers)
           i == NextItem(items, index, curplayers)
<1>1. N \in Nat \ {0} /\ index \in 0 .. N - 1 /\ Entries(items) = 0 .. N - 1
  BY DEF Entries
<1>2. S \subseteq 0 .. N - 1
  BY <1>1 DEF Suitable
<1>3. /\ i \in 0 .. N - 1
      /\ S # {} => i \in S
      /\ \A j \in S : Dist(N, index, i) <= Dist(N, index, j)
  <2>1. curplayers \in Nat
    BY MapCycleAssumption
  <2> QED
    BY <1>1, <2>1, NextItemIsNearest
<1>4. /\ Index' = (i + 1) % N
      /\ mapname' = LevelFor(items[i + 1].map)
      /\ waited' = [j \in Entries(items) |-> IF j \in S \ {i} THEN old[j] + 1 ELSE 0]
      /\ last' = [suits |-> i \in S, any |-> S # {}]
  BY DEF Take, Behind
<1> HIDE DEF N, S, i
<1>5. Index' = IF i + 1 < N THEN i + 1 ELSE 0
  <2> DEFINE a == i + 1
  <2>1. a \in 0 .. 2 * N - 1 /\ a <= N
    BY <1>1, <1>3
  <2> HIDE DEF a
  <2>2. a % N = IF a < N THEN a ELSE a - N
    BY <1>1, <2>1, OneStepRound
  <2>3. a % N = IF a < N THEN a ELSE 0
    BY <1>1, <2>1, <2>2
  <2> QED
    BY <1>4, <2>3 DEF a
<1>6. Index' \in 0 .. N - 1
  BY <1>1, <1>3, <1>5
<1>7. mapname' \in installed
  BY <1>4 DEF LevelFor
<1>8. waited' \in [0 .. N - 1 -> Nat]
  BY <1>1, <1>4
<1>next. PICK next \in 0 .. N - 1 : next = Index'
  BY <1>6
<1>9. ASSUME NEW j \in 0 .. N - 1
      PROVE  waited'[j] + Dist(N, next, j) < N
  <2>1. CASE j \in S \ {i}
    <3>1. waited'[j] = old[j] + 1 /\ old[j] \in Nat
      BY <1>1, <1>4, <2>1
    <3>2. old[j] + Dist(N, index, j) < N
      BY <1>1 DEF N
    <3>3. Dist(N, index, i) <= Dist(N, index, j) /\ i # j
      BY <1>3, <2>1
    <3>4. next = IF i + 1 < N THEN i + 1 ELSE 0
      BY <1>5, <1>next
    <3>5. old[j] + 1 + Dist(N, next, j) < N
      BY <1>1, <1>3, <3>1, <3>2, <3>3, <3>4, BehindIsNearer
    <3> QED
      BY <3>1, <3>5
  <2>2. CASE j \notin S \ {i}
    <3>1. waited'[j] = 0
      BY <1>1, <1>4, <2>2
    <3>2. 0 + Dist(N, next, j) < N
      BY <1>1, NoneIsBelow
    <3> QED
      BY <3>1, <3>2
  <2> QED
    BY <2>1, <2>2
<1>10. WaitedBelowDistance'
  BY <1>1, <1>next, <1>9 DEF WaitedBelowDistance, N
<1>11. last' \in [suits : BOOLEAN, any : BOOLEAN] /\ SuitableIfAny'
  BY <1>3, <1>4 DEF SuitableIfAny
<1> QED
  BY <1>1, <1>6, <1>7, <1>8, <1>10, <1>11

(* A cycle that has just been loaded has kept no entry waiting.            *)
LEMMA NotWaitedIsBelow ==
  ASSUME NEW items \in Seq(Item), NEW index \in Entries(items)
  PROVE  /\ NotWaited(items) \in [Entries(items) -> Nat]
         /\ \A j \in Entries(items) :
              NotWaited(items)[j] + Dist(Len(items), index, j) < Len(items)
BY DEF NotWaited, Dist, Entries

(* ChangeLevel's second half, with the cycle that GetMapCycle returned.    *)
LEMMA TakeOrRestartKeeps ==
  ASSUME IInv, NEW items \in Seq(Item), NEW index \in Nat,
         NEW old \in [Entries(items) -> Nat],
         items # <<>> => index \in Entries(items),
         \A j \in Entries(items) : old[j] + Dist(Len(items), index, j) < Len(items),
         TakeOrRestart(items, index, old),
         mapcyclejsonfile' = mapcyclejsonfile, m_PreviousMapCycleFile' = mapcyclejsonfile,
         installed' = installed, curplayers' = curplayers
  PROVE  IInv'
<1> USE DEF IInv, TypeOK
<1>1. Items' = items /\ mapname \in installed
  BY DEF TakeOrRestart, CurrentMapExists
<1>2. CASE items # <<>>
  <2>1. Take(items, index, old)
    BY <1>2 DEF TakeOrRestart
  <2>2. /\ Index' \in Entries(items)
        /\ mapname' \in installed
        /\ waited' \in [Entries(items) -> Nat]
        /\ last' \in [suits : BOOLEAN, any : BOOLEAN]
        /\ WaitedBelowDistance'
        /\ SuitableIfAny'
    BY <1>1, <1>2, <2>1, TakeKeeps
  <2>3. Index' \in Nat /\ Index' < Len(items)
    BY <2>2 DEF Entries
  <2> QED
    BY <1>1, <2>2, <2>3 DEF CurrentMapExists
<1>3. CASE items = <<>>
  <2>1. Index' = index /\ waited' = NotWaited(items) /\ mapname' = mapname /\ last' = last
    BY <1>3 DEF TakeOrRestart
  <2>2. waited' \in [Entries(items) -> Nat]
    BY <2>1 DEF NotWaited
  <2>3. Entries(items) = {}
    BY <1>3 DEF Entries
  <2> QED
    BY <1>1, <1>3, <2>1, <2>2, <2>3 DEF CurrentMapExists, SuitableIfAny, WaitedBelowDistance
<1> QED
  BY <1>2, <1>3

LEMMA ChangeLevelKeeps ==
  ASSUME IInv, ChangeLevel
  PROVE  IInv'
<1>1. CASE m_PreviousMapCycleFile # mapcyclejsonfile
  <2>1. PICK items \in Loadable : TakeOrRestart(items, 0, NotWaited(items))
    BY <1>1 DEF ChangeLevel
  <2>2. items \in Seq(Item)
    BY MapCycleAssumption DEF Loadable
  <2>3. items # <<>> => 0 \in Entries(items)
    BY <2>2 DEF Entries
  <2>4. /\ NotWaited(items) \in [Entries(items) -> Nat]
        /\ \A j \in Entries(items) :
             NotWaited(items)[j] + Dist(Len(items), 0, j) < Len(items)
    <3>1. CASE items = <<>>
      BY <3>1 DEF NotWaited, Entries
    <3>2. CASE items # <<>>
      BY <2>2, <2>3, <3>2, NotWaitedIsBelow
    <3> QED
      BY <3>1, <3>2
  <2>5. 0 \in Nat
    OBVIOUS
  <2> HIDE DEF Loadable
  <2> QED
    BY <2>1, <2>2, <2>3, <2>4, <2>5, TakeOrRestartKeeps DEF ChangeLevel
<1>2. CASE m_PreviousMapCycleFile = mapcyclejsonfile
  <2>1. TakeOrRestart(Items, Index, waited)
    BY <1>2 DEF ChangeLevel
  <2>2. /\ Items \in Seq(Item) /\ Index \in Nat /\ waited \in [Entries(Items) -> Nat]
        /\ Items # <<>> => Index \in Entries(Items)
    BY DEF IInv, TypeOK, Entries
  <2> QED
    BY <2>1, <2>2, TakeOrRestartKeeps DEF ChangeLevel, IInv, WaitedBelowDistance
<1> QED
  BY <1>1, <1>2

(* What happens between two level changes leaves the cycle alone, and the  *)
(* map that is being played in place.                                      *)
LEMMA OthersKeep ==
  ASSUME IInv,
         \/ \E f \in Files : SetCvar(f)
         \/ \E m \in Maps : InstallMap(m) \/ RemoveMap(m)
         \/ \E n \in 0 .. MaxClients : PlayersChange(n)
         \/ UNCHANGED vars
  PROVE  IInv'
<1>1. UNCHANGED <<cycleVars, mapname>>
  BY DEF SetCvar, InstallMap, RemoveMap, PlayersChange, vars, cycleVars
<1>2. /\ mapcyclejsonfile' \in Files /\ curplayers' \in 0 .. MaxClients
      /\ installed' \in SUBSET Maps /\ mapname \in installed'
  BY DEF IInv, TypeOK, CurrentMapExists, SetCvar, InstallMap, RemoveMap, PlayersChange, vars
<1> QED
  BY <1>1, <1>2 DEF IInv, TypeOK, CurrentMapExists, SuitableIfAny,
                    WaitedBelowDistance, cycleVars

THEOREM IInvHolds == Spec => []IInv
<1>1. Init => IInv
  BY MapCycleAssumption DEF Init, IInv, TypeOK, WaitedBelowDistance, SuitableIfAny,
                            CurrentMapExists, Entries
<1>2. IInv /\ [Next]_vars => IInv'
  BY ChangeLevelKeeps, OthersKeep DEF Next
<1> QED
  BY <1>1, <1>2, PTL DEF Spec

-----------------------------------------------------------------------------
(* The index is always that of an entry, unless the cycle is empty.        *)
THEOREM TypeCorrect == Spec => []TypeOK
<1>1. IInv => TypeOK
  BY DEF IInv
<1> QED
  BY <1>1, IInvHolds, PTL

(* An entry that is suitable each time waits for fewer choices than the    *)
(* cycle has entries: GetNextMap is fair to every entry.                   *)
THEOREM EveryEntryIsTaken == Spec => []NoEntryStarves
<1>1. ASSUME IInv, NEW i \in Entries(Items)  PROVE waited[i] < Len(Items)
  <2>1. waited[i] \in Nat /\ i \in 0 .. Len(Items) - 1 /\ Len(Items) \in Nat
    BY <1>1 DEF IInv, TypeOK, Entries
  <2>2. Items # <<>>
    BY <2>1
  <2>3. Index \in 0 .. Len(Items) - 1
    BY <1>1, <2>1, <2>2 DEF IInv, TypeOK
  <2>4. waited[i] + Dist(Len(Items), Index, i) < Len(Items)
    BY <1>1 DEF IInv, WaitedBelowDistance
  <2>5. Dist(Len(Items), Index, i) \in Nat
    BY <2>1, <2>3 DEF Dist
  <2> QED
    BY <2>1, <2>4, <2>5
<1>2. IInv => NoEntryStarves
  BY <1>1 DEF NoEntryStarves
<1> QED
  BY <1>2, IInvHolds, PTL

(* GetNextMap takes an unsuitable entry only when no entry is suitable.    *)
THEOREM SuitableIsTaken == Spec => []SuitableIfAny
<1>1. IInv => SuitableIfAny
  BY DEF IInv
<1> QED
  BY <1>1, IInvHolds, PTL

(* The level is never changed to a map that has been removed.              *)
THEOREM LevelExists == Spec => []CurrentMapExists
<1>1. IInv => CurrentMapExists
  BY DEF IInv
<1> QED
  BY <1>1, IInvHolds, PTL

-----------------------------------------------------------------------------
(* The two loops of GetNextMap are one walk round the cycle.               *)
LEMMA NextItemIsOneWalk ==
  ASSUME NEW items \in Seq(Item), items # <<>>,
         NEW index \in Entries(items), NEW n \in Nat
  PROVE  NextItem(items, index, n) = OnTheWayRound(items, index, n)
<1> DEFINE N == Len(items)
           S == Suitable(items, n)
           i == NextItem(items, index, n)
           hits == {k \in 0 .. N - 1 : (index + k) % N \in S}
<1>1. N \in Nat \ {0} /\ index \in 0 .. N - 1 /\ S \subseteq 0 .. N - 1
  BY DEF Entries, Suitable
<1>2. /\ i \in 0 .. N - 1
      /\ S # {} => i \in S
      /\ S = {} => i = index
      /\ \A j \in S : Dist(N, index, i) <= Dist(N, index, j)
  BY NextItemIsNearest DEF Entries
<1>3. OnTheWayRound(items, index, n)
        = IF hits = {} THEN index ELSE (index + Least(hits)) % N
  BY DEF OnTheWayRound
<1> HIDE DEF N, S, i
<1>4. CASE S = {}
  BY <1>2, <1>3, <1>4 DEF i
<1>5. CASE S # {}
  <2>1. Dist(N, index, i) \in hits /\ (index + Dist(N, index, i)) % N = i
    BY <1>1, <1>2, <1>5, DistIsPosition
  <2>2. Least(hits) \in hits /\ \A k \in hits : Least(hits) <= k
    <3>1. hits \subseteq Nat /\ hits # {}
      BY <1>1, <2>1
    <3> QED
      BY <3>1, LeastIsLeast
  <2> DEFINE k == Least(hits)
  <2>3. k \in 0 .. N - 1 /\ (index + k) % N \in S /\ k <= Dist(N, index, i)
    BY <2>1, <2>2
  <2> HIDE DEF k
  <2>4. k = Dist(N, index, (index + k) % N)
    BY <1>1, <2>3, DistIsPosition
  <2>5. Dist(N, index, i) <= k
    BY <1>2, <2>3, <2>4
  <2>6. k = Dist(N, index, i)
    <3>1. Dist(N, index, i) \in 0 .. N - 1
      BY <1>1, <1>2, DistIsPosition
    <3>2. k \in Int /\ Dist(N, index, i) \in Int
      BY <1>1, <2>3, <3>1
    <3> QED
      BY <2>3, <2>5, <3>2
  <2>7. (index + k) % N = i
    BY <2>1, <2>6
  <2>8. hits # {}
    BY <2>1
  <2> HIDE DEF hits
  <2> QED
    BY <1>3, <2>7, <2>8 DEF k, i
<1> QED
  BY <1>4, <1>5

THEOREM TwoLoopsAreOneWalk == Spec => []LoopsAreOneWalk
<1>1. ASSUME IInv, NEW index \in Entries(Items), NEW n \in 0 .. MaxClients
      PROVE  NextItem(Items, index, n) = OnTheWayRound(Items, index, n)
  <2>1. Items \in Seq(Item) /\ Items # <<>> /\ n \in Nat
    BY <1>1, MapCycleAssumption DEF IInv, TypeOK, Entries
  <2> QED
    BY <2>1, NextItemIsOneWalk
<1>2. IInv => LoopsAreOneWalk
  BY <1>1 DEF LoopsAreOneWalk
<1> QED
  BY <1>2, IInvHolds, PTL
=============================================================================
