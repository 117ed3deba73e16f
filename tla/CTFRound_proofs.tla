-------------------------- MODULE CTFRound_proofs --------------------------
(***************************************************************************)
(* Proofs about CTFRound for every number of slots, every size of a batch  *)
(* and all bounds of the chat time.                                        *)
(*                                                                         *)
(* What the safety properties rest on, besides each other: as long as the  *)
(* statistics are being sent, nobody below m_iStatsPlayer is owed his own. *)
(***************************************************************************)
EXTENDS CTFRound, FiniteSetTheorems, WellFoundedInduction, TLAPS

Sending == {"SendTeam0", "SendTeam1", "SendTeam2", "SendPlayers"}

NobodyBelowIsOwed ==
  m_iStatsPhase \in Sending => \A s \in owed : s >= m_iStatsPlayer

IInv ==
  /\ TypeOK
  /\ IntermissionIsBounded
  /\ StatisticsBelongToIntermission
  /\ NobodyBelowIsOwed
  /\ OnlyLastSlotIsMissed

-----------------------------------------------------------------------------
(* A non-empty set of slots has a least and a greatest element.            *)
LEMMA SlotsHaveLeast ==
  ASSUME NEW S, S \subseteq Slots, S # {}
  PROVE  \E x \in S : \A y \in S : x <= y
<1>1. S \subseteq Nat
  BY RoundAssumption DEF Slots
<1>2. PICK x \in S : \A y \in S : ~(<<y, x>> \in OpToRel(<, Nat))
  BY <1>1, NatLessThanWellFounded, WFMin
<1>3. ASSUME NEW y \in S  PROVE x <= y
  <2>1. x \in Nat /\ y \in Nat /\ <<y, x>> \in Nat \X Nat
    BY <1>1
  <2>2. ~(y < x)
    BY <1>2, <2>1 DEF OpToRel
  <2> QED
    BY <2>1, <2>2
<1> QED
  BY <1>3

LEMMA MaxIsGreatest ==
  ASSUME NEW S, S \subseteq Slots, S # {}
  PROVE  Max(S) \in S /\ \A y \in S : Max(S) >= y
<1> DEFINE T == {s \in Slots : MaxClients + 1 - s \in S}
<1>1. \A x \in Slots : x \in Nat /\ MaxClients + 1 - x \in Slots
                       /\ MaxClients + 1 - (MaxClients + 1 - x) = x
  BY RoundAssumption DEF Slots
<1>2. T \subseteq Slots /\ T # {}
  BY <1>1
<1>3. PICK t \in T : \A u \in T : t <= u
  BY <1>2, SlotsHaveLeast
<1> DEFINE x == MaxClients + 1 - t
<1>4. x \in S
  BY <1>3
<1>5. ASSUME NEW y \in S  PROVE x >= y
  <2>1. MaxClients + 1 - y \in T
    BY <1>1
  <2>2. t <= MaxClients + 1 - y
    BY <1>3, <2>1
  <2>3. t \in Nat /\ y \in Nat /\ MaxClients \in Nat
    BY <1>1, <1>2, RoundAssumption
  <2> QED
    BY <2>2, <2>3
<1> HIDE DEF x, T
<1> QED
  BY <1>4, <1>5 DEF Max

(* The slots that a batch leaves over are those behind its last one, and   *)
(* there are none if the loop ran to its end.                              *)
LEMMA BatchLeavesTheEnd ==
  ASSUME TypeOK
  PROVE  /\ LastOfBatch \in Slots
         /\ Cardinality(Batch) > StatsBatch => LastOfBatch \in Batch
         /\ Cardinality(Batch) > StatsBatch =>
              \A s \in Rest \ Batch : s > LastOfBatch
         /\ ~(Cardinality(Batch) > StatsBatch) => Rest \subseteq Batch
<1> DEFINE Below(s) == {r \in Rest : r < s}
<1>1. Rest \subseteq Slots /\ Batch \subseteq Rest /\ IsFiniteSet(Slots)
      /\ Slots \subseteq Nat /\ MaxClients \in Slots /\ StatsBatch \in Nat
  BY RoundAssumption, FS_Interval DEF Rest, Batch, Slots
<1>2. \A S \in SUBSET Slots : IsFiniteSet(S) /\ Cardinality(S) \in Nat
  BY <1>1, FS_Subset, FS_CardinalityType
<1>3. \A s \in Rest : s \in Batch <=> Cardinality(Below(s)) <= StatsBatch
  BY DEF Batch
<1> HIDE DEF Below
<1>4. ASSUME Cardinality(Batch) > StatsBatch
      PROVE  /\ LastOfBatch \in Batch
             /\ \A s \in Rest \ Batch : s > LastOfBatch
  <2>1. Batch # {}
    BY <1>1, <1>4, FS_EmptySet
  <2>2. LastOfBatch = Max(Batch) /\ Max(Batch) \in Batch
    BY <1>1, <1>4, <2>1, MaxIsGreatest DEF LastOfBatch
  <2>3. ASSUME NEW s \in Rest \ Batch, s <= Max(Batch)  PROVE FALSE
    <3>1. Below(s) \subseteq Below(Max(Batch)) /\ Below(Max(Batch)) \subseteq Slots
      <4>1. s \in Nat /\ Max(Batch) \in Nat /\ Rest \subseteq Nat
        BY <1>1, <2>2
      <4>2. \A r \in Rest : r < s => r < Max(Batch)
        BY <2>3, <4>1
      <4> QED
        BY <1>1, <4>2 DEF Below
    <3>2. Cardinality(Below(s)) <= Cardinality(Below(Max(Batch)))
      BY <1>2, <3>1, FS_Subset
    <3>3. Cardinality(Below(Max(Batch))) <= StatsBatch
      BY <1>1, <1>3, <2>2
    <3>4. ~(Cardinality(Below(s)) <= StatsBatch)
      BY <1>3
    <3>5. Cardinality(Below(s)) \in Nat /\ Cardinality(Below(Max(Batch))) \in Nat
      BY <1>2, <3>1
    <3> QED
      BY <1>1, <3>2, <3>3, <3>4, <3>5
  <2>4. ASSUME NEW s \in Rest \ Batch  PROVE s > Max(Batch)
    <3>1. s \in Nat /\ Max(Batch) \in Nat
      BY <1>1, <2>2
    <3> QED
      BY <2>3, <3>1
  <2> QED
    BY <2>2, <2>4
<1>5. ASSUME ~(Cardinality(Batch) > StatsBatch), ~(Rest \subseteq Batch)
      PROVE  FALSE
  <2>1. Rest \ Batch \subseteq Slots /\ Rest \ Batch # {}
    BY <1>1, <1>5
  <2>2. PICK s \in Rest \ Batch : \A y \in Rest \ Batch : s <= y
    BY <2>1, SlotsHaveLeast
  <2>3. Below(s) \subseteq Batch
    <3>1. ASSUME NEW r \in Rest, r < s  PROVE r \in Batch
      <4>1. r \in Nat /\ s \in Nat
        BY <1>1
      <4> QED
        BY <2>2, <3>1, <4>1
    <3> QED
      BY <3>1 DEF Below
  <2>4. Batch \subseteq Slots /\ Below(s) \subseteq Slots
    BY <1>1, <2>3
  <2>5. Cardinality(Below(s)) <= Cardinality(Batch)
    BY <1>2, <2>3, <2>4, FS_Subset
  <2>6. ~(Cardinality(Below(s)) <= StatsBatch)
    BY <1>3, <2>2
  <2>7. Cardinality(Below(s)) \in Nat /\ Cardinality(Batch) \in Nat
    BY <1>2, <2>4
  <2> QED
    BY <1>1, <1>5, <2>5, <2>6, <2>7
<1>6. LastOfBatch \in Slots
  BY <1>1, <1>4 DEF LastOfBatch
<1> QED
  BY <1>4, <1>5, <1>6

-----------------------------------------------------------------------------
LEMMA SendPlayersKeeps ==
  ASSUME TypeOK, NobodyBelowIsOwed, m_iStatsPhase = "SendPlayers",
         SendPlayers, seat' = seat
  PROVE  /\ m_iStatsPhase' \in {"OpenMenu", "SendPlayers"}
         /\ m_iStatsPlayer' \in Slots
         /\ owed' \in SUBSET {s \in Slots : seat'[s] = "here"}
         /\ NobodyBelowIsOwed'
         /\ OnlyLastSlotIsMissed'
<1>1. /\ m_iStatsPlayer' = LastOfBatch /\ owed' = owed \ Batch
      /\ m_iStatsPhase' = IF MaxClients <= LastOfBatch + 1 THEN "OpenMenu"
                                                           ELSE "SendPlayers"
  BY DEF SendPlayers
<1>2. owed \subseteq Rest
  <2>1. \A s \in owed : s \in Slots /\ seat[s] = "here" /\ s >= m_iStatsPlayer
    BY DEF TypeOK, NobodyBelowIsOwed, Sending
  <2> QED
    BY <2>1 DEF Rest
<1>3. LastOfBatch \in Slots
  BY BatchLeavesTheEnd
<1>4. ASSUME NEW s \in owed'  PROVE s > LastOfBatch
  <2>1. s \in Rest \ Batch
    BY <1>1, <1>2, <1>4
  <2> QED
    BY <2>1, BatchLeavesTheEnd
<1>5. owed' \subseteq Slots
  BY <1>1 DEF TypeOK
<1>6. NobodyBelowIsOwed'
  <2>1. \A s \in owed' : s >= LastOfBatch
    BY <1>3, <1>4, <1>5, RoundAssumption DEF Slots
  <2> QED
    BY <1>1, <2>1 DEF NobodyBelowIsOwed
<1>7. ASSUME m_iStatsPhase' = "OpenMenu"  PROVE owed' \subseteq {MaxClients}
  <2>1. MaxClients <= LastOfBatch + 1
    BY <1>1, <1>7
  <2>2. ASSUME NEW s \in owed'  PROVE s = MaxClients
    <3>1. s > LastOfBatch /\ s \in Slots
      BY <1>4, <1>5
    <3> QED
      BY <1>3, <2>1, <3>1, RoundAssumption DEF Slots
  <2> QED
    BY <2>2
<1> QED
  BY <1>1, <1>3, <1>6, <1>7 DEF TypeOK, OnlyLastSlotIsMissed

(* One frame of the statistics. *)
LEMMA StatisticsKeep ==
  ASSUME IInv, NEW dt \in {0, 1}, Statistics(dt), seat' = seat
  PROVE  /\ wait' \in {0, 1} /\ m_iStatsPhase' \in Phases /\ m_iStatsPlayer' \in Slots
         /\ owed' \in SUBSET {s \in Slots : seat'[s] = "here"}
         /\ m_iStatsPhase = "Nothing" => m_iStatsPhase' = "Nothing"
         /\ NobodyBelowIsOwed' /\ OnlyLastSlotIsMissed'
<1> USE DEF IInv, TypeOK
<1>1. CASE m_iStatsPhase = "Nothing" \/ wait > dt
  <2>1. /\ wait' = wait - (IF wait > 0 THEN dt ELSE 0)
        /\ UNCHANGED <<m_iStatsPhase, m_iStatsPlayer, owed>>
    BY <1>1 DEF Statistics
  <2>2. wait' \in {0, 1}
    BY <2>1
  <2> QED
    BY <2>1, <2>2 DEF NobodyBelowIsOwed, OnlyLastSlotIsMissed
<1>2. CASE ~(m_iStatsPhase = "Nothing" \/ wait > dt) /\ m_iStatsPhase = "SendPlayers"
  <2>1. wait' = 1 /\ SendPlayers
    BY <1>2 DEF Statistics
  <2> QED
    BY <1>2, <2>1, SendPlayersKeeps DEF Phases
<1>3. CASE ~(m_iStatsPhase = "Nothing" \/ wait > dt) /\ m_iStatsPhase # "SendPlayers"
  <2>1. /\ wait' = 1 /\ m_iStatsPhase' = NextPhase[m_iStatsPhase]
        /\ UNCHANGED <<m_iStatsPlayer, owed>>
    BY <1>3 DEF Statistics
  <2>2. \/ m_iStatsPhase \in Sending /\ m_iStatsPhase' \in Sending
        \/ m_iStatsPhase' = "Nothing"
    BY <1>3, <2>1 DEF NextPhase, Phases, Sending
  <2>3. m_iStatsPhase' \in Phases /\ m_iStatsPhase' # "OpenMenu"
    BY <2>2 DEF Phases, Sending
  <2> QED
    BY <1>3, <2>1, <2>2, <2>3 DEF NobodyBelowIsOwed, OnlyLastSlotIsMissed, Sending
<1> QED
  BY <1>1, <1>2, <1>3

LEMMA GoToIntermissionKeeps ==
  ASSUME IInv, GoToIntermission, seat' = seat, mp_chattime' = mp_chattime
  PROVE  IInv'
<1> USE DEF IInv, TypeOK, GoToIntermission
<1>1. /\ m_iStatsPhase' = "SendTeam0" /\ m_iStatsPlayer' = 1 /\ wait' = 1
      /\ owed' = Here /\ limit' = {} /\ g_fGameOver' = TRUE
      /\ clock' \in {0, clock} /\ button' \in BOOLEAN
  BY DEF gameVars
<1>2. 1 \in Slots /\ \A s \in Here : s >= 1
  BY RoundAssumption DEF Slots, Here
<1>3. clock' \in Nat /\ IntermissionIsBounded'
  BY <1>1, RoundAssumption DEF IntermissionIsBounded
<1> QED
  BY <1>1, <1>2, <1>3 DEF Phases, Limits, Here, NobodyBelowIsOwed,
                          OnlyLastSlotIsMissed, StatisticsBelongToIntermission

LEMMA FrameKeeps ==
  ASSUME IInv, NEW dt \in {0, 1}, Frame(dt)
  PROVE  IInv'
<1>1. CASE FrameInPlay
  BY <1>1, GoToIntermissionKeeps DEF FrameInPlay
<1>2. CASE FrameInIntermission(dt)
  <2>1. /\ g_fGameOver /\ ~MayLeave(clock + dt) /\ clock' = clock + dt /\ Statistics(dt)
        /\ UNCHANGED <<seat, limit, g_fGameOver, mp_chattime, button>>
    BY <1>2 DEF FrameInIntermission
  <2>2. clock \in Nat /\ clock + dt \in Nat /\ MaxChat \in Nat /\ MinChat \in Nat
        /\ MinChat <= MaxChat /\ mp_chattime \in Nat
    BY RoundAssumption DEF IInv, TypeOK
  <2>3. GetChatTime <= MaxChat /\ GetChatTime \in Nat
    BY <2>2 DEF GetChatTime
  <2>4. clock' <= MaxChat
    BY <2>1, <2>2, <2>3 DEF MayLeave
  <2>5. /\ wait' \in {0, 1} /\ m_iStatsPhase' \in Phases /\ m_iStatsPlayer' \in Slots
        /\ owed' \in SUBSET {s \in Slots : seat'[s] = "here"}
        /\ NobodyBelowIsOwed' /\ OnlyLastSlotIsMissed'
    BY <2>1, StatisticsKeep
  <2> QED
    BY <2>1, <2>2, <2>4, <2>5
       DEF IInv, TypeOK, IntermissionIsBounded, StatisticsBelongToIntermission
<1>3. CASE ChangeLevel(dt)
  <2>1. /\ seat' = [s \in Slots |-> "never"] /\ limit' = {}
        /\ g_fGameOver' = FALSE /\ clock' = 0 /\ button' = FALSE
        /\ m_iStatsPhase' = "Nothing" /\ m_iStatsPlayer' = 1 /\ wait' = 0
        /\ owed' = {} /\ mp_chattime' = mp_chattime
    BY <1>3 DEF ChangeLevel, Fresh
  <2>2. 1 \in Slots /\ 0 <= MaxChat
    BY RoundAssumption DEF Slots
  <2> QED
    BY <2>1, <2>2
       DEF IInv, TypeOK, IntermissionIsBounded, Phases, Sending,
           StatisticsBelongToIntermission, NobodyBelowIsOwed, OnlyLastSlotIsMissed
<1> QED
  BY <1>1, <1>2, <1>3 DEF Frame

LEMMA BetweenFramesKeeps ==
  ASSUME IInv,
         \/ LimitsChange
         \/ \E t \in ChatTimes : SetChatTime(t)
         \/ \E s \in Slots : ClientPutInServer(s) \/ ClientDisconnect(s)
         \/ PressButton
         \/ UNCHANGED vars
  PROVE  IInv'
<1>1. UNCHANGED <<g_fGameOver, clock, m_iStatsPhase, m_iStatsPlayer, wait>>
      /\ owed' \subseteq owed
  BY DEF LimitsChange, SetChatTime, ClientPutInServer, ClientDisconnect, PressButton,
         gameVars, statsVars, vars
<1>2. /\ limit' \in SUBSET Limits /\ mp_chattime' \in ChatTimes /\ button' \in BOOLEAN
      /\ seat' \in [Slots -> {"never", "here", "gone"}]
      /\ \A s \in owed' : s \in Slots /\ seat'[s] = "here"
  BY DEF IInv, TypeOK, LimitsChange, SetChatTime, ClientPutInServer, ClientDisconnect,
         PressButton, gameVars, statsVars, vars
<1> QED
  BY <1>1, <1>2 DEF IInv, TypeOK, IntermissionIsBounded, StatisticsBelongToIntermission,
                    NobodyBelowIsOwed, OnlyLastSlotIsMissed

THEOREM IInvHolds == Spec => []IInv
<1>1. ASSUME Init  PROVE IInv
  <2>1. /\ seat = [s \in Slots |-> "never"] /\ limit = {}
        /\ g_fGameOver = FALSE /\ clock = 0 /\ button = FALSE
        /\ m_iStatsPhase = "Nothing" /\ m_iStatsPlayer = 1 /\ wait = 0
        /\ owed = {} /\ mp_chattime \in ChatTimes
    BY <1>1 DEF Init, Fresh
  <2>2. 1 \in Slots /\ 0 <= MaxChat
    BY RoundAssumption DEF Slots
  <2> QED
    BY <2>1, <2>2
       DEF IInv, TypeOK, IntermissionIsBounded, Phases, Sending,
           StatisticsBelongToIntermission, NobodyBelowIsOwed, OnlyLastSlotIsMissed
<1>2. ASSUME IInv, [Next]_vars  PROVE IInv'
  <2>1. CASE EndMultiplayerGame
    BY <1>2, <2>1, GoToIntermissionKeeps DEF EndMultiplayerGame
  <2>2. CASE \E dt \in {0, 1} : Frame(dt)
    BY <1>2, <2>2, FrameKeeps
  <2> QED
    BY <1>2, <2>1, <2>2, BetweenFramesKeeps DEF Next
<1> QED
  BY <1>1, <1>2, PTL DEF Spec

-----------------------------------------------------------------------------
(* m_iStatsPlayer stays the index of a slot, and nobody is owed statistics *)
(* who is not here.                                                        *)
THEOREM TypeCorrect == Spec => []TypeOK
<1>1. IInv => TypeOK
  BY DEF IInv
<1> QED
  BY <1>1, IInvHolds, PTL

(* CHalfLifeMultiplay::Think ends every intermission within                *)
(* MAX_INTERMISSION_TIME, game_end and mp_chattime notwithstanding.        *)
THEOREM IntermissionsAreBounded == Spec => []IntermissionIsBounded
<1>1. IInv => IntermissionIsBounded
  BY DEF IInv
<1> QED
  BY <1>1, IInvHolds, PTL

(* CHalfLifeCTFplay::Think sends statistics in an intermission only.       *)
THEOREM StatisticsAreOfTheIntermission == Spec => []StatisticsBelongToIntermission
<1>1. IInv => StatisticsBelongToIntermission
  BY DEF IInv
<1> QED
  BY <1>1, IInvHolds, PTL

(* The loop of SendPlayers, its decrement and its exit test together leave *)
(* out nobody but perhaps the player in the last slot.                     *)
THEOREM OnlyTheLastIsMissed == Spec => []OnlyLastSlotIsMissed
<1>1. IInv => OnlyLastSlotIsMissed
  BY DEF IInv
<1> QED
  BY <1>1, IInvHolds, PTL

(* The clock of an intermission only goes on, and it is bounded: whatever  *)
(* happens between the frames, at most MaxChat + 1 of those that take time *)
(* bring the next level.                                                   *)
THEOREM IntermissionsRunOut == Spec => ClockRuns /\ [](clock \in 0 .. MaxChat)
<1>1. ASSUME IInv, Next, g_fGameOver, g_fGameOver'
      PROVE  clock' >= clock /\ (Frame(1) => clock' > clock)
  <2>1. clock \in Nat
    BY <1>1 DEF IInv, TypeOK
  <2>2. ASSUME NEW dt \in {0, 1}, Frame(dt)  PROVE clock' = clock + dt
    BY <1>1, <2>2 DEF Frame, FrameInPlay, FrameInIntermission, ChangeLevel, Fresh
  <2>3. CASE ~ \E dt \in {0, 1} : Frame(dt)
    <3>1. clock' = clock
      BY <1>1, <2>3 DEF Next, LimitsChange, SetChatTime, ClientPutInServer, ClientDisconnect,
                        PressButton, EndMultiplayerGame, GoToIntermission, gameVars
    <3> QED
      BY <2>1, <2>3, <3>1
  <2>4. CASE \E dt \in {0, 1} : Frame(dt)
    <3>1. PICK dt \in {0, 1} : Frame(dt)
      BY <2>4
    <3>2. clock' = clock + dt
      BY <2>2, <3>1
    <3>3. Frame(1) => clock' = clock + 1
      BY <2>2
    <3> QED
      BY <2>1, <3>2, <3>3
  <2> QED
    BY <2>3, <2>4
<1>2. IInv /\ [Next]_vars =>
        [g_fGameOver => \/ ~g_fGameOver'
                        \/ clock' >= clock /\ (Frame(1) => clock' > clock)]_vars
  BY <1>1
<1>3. IInv => clock \in 0 .. MaxChat
  BY RoundAssumption DEF IInv, TypeOK, IntermissionIsBounded
<1> QED
  BY <1>2, <1>3, IInvHolds, PTL DEF Spec, ClockRuns
=============================================================================
