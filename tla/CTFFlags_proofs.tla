-------------------------- MODULE CTFFlags_proofs --------------------------
(***************************************************************************)
(* Proofs about CTFFlags for every set of players.                         *)
(*                                                                         *)
(* The invariants the runs check are not inductive one by one.  What makes *)
(* them so is that they hold together, and that a flag on the ground has   *)
(* no owner: ReturnFlag strips the player pev->owner names, so a stale     *)
(* owner would let a flag that is returned empty the hands of a player who *)
(* has gone on to carry the other one.                                     *)
(***************************************************************************)
EXTENDS CTFFlags, TLAPS

(* ReturnFlag on a dropped flag strips nobody; a carried flag follows a    *)
(* player, also when he has lost it in the intermission.                   *)
OwnerMatchesState ==
  \A f \in Flags :
    /\ m_iGoalState[f] = Dropped => owner[f] = NoPlayer
    /\ m_iGoalState[f] = Carried => owner[f] \in Players

(* Who is in the game and not an observer has a team. *)
InGameHasTeam ==
  \A p \in Players : conn[p] = "active" /\ ~iuser1[p] => m_iTeamNum[p] \in Teams

(* The conjuncts that speak of the flags and the hands of the players only. *)
FlagTypes ==
  /\ m_pFlag \in [Players -> Flags \cup {NoFlag}]
  /\ m_iItems \in [Players -> SUBSET Flags]
  /\ m_iGoalState \in [Flags -> {Home, Carried, Dropped}]
  /\ owner \in [Flags -> Players \cup {NoPlayer}]
  /\ touch \in [Flags -> BOOLEAN]
  /\ think \in [Flags -> Thinks]
  /\ skin \in [Flags -> {0, 1}]

PlayerTypes ==
  /\ conn \in [Players -> {"free", "connecting", "active"}]
  /\ m_iTeamNum \in [Players -> Teams \cup {None}]
  /\ iuser1 \in [Players -> BOOLEAN]
  /\ alive \in [Players -> BOOLEAN]

FlagInv ==
  /\ FlagTypes
  /\ HandsHoldTheirFlag
  /\ OwnerMatchesState
  /\ FlagStaysInPlay
  /\ PedestalShowsFlag

(* The consequent of CustodyAgreed. *)
Agreed ==
  /\ \A f \in Flags :
       m_iGoalState[f] = Carried =>
         owner[f] \in Players /\ m_pFlag[owner[f]] = f
  /\ \A p \in Players :
       m_iItems[p] = IF m_pFlag[p] = NoFlag THEN {} ELSE {m_pFlag[p]}

(* The inductive invariant. *)
IInv ==
  /\ PlayerTypes
  /\ g_fGameOver \in BOOLEAN
  /\ InGameHasTeam
  /\ FlagInv
  /\ CustodyAgreed
  /\ CarrierIsLiveEnemy

LEMMA TypesSplit == TypeOK <=> (PlayerTypes /\ g_fGameOver \in BOOLEAN /\ FlagTypes)
  BY DEF TypeOK, PlayerTypes, FlagTypes

LEMMA CustodySplit == CustodyAgreed <=> (~g_fGameOver => Agreed)
  BY DEF CustodyAgreed, Agreed

-----------------------------------------------------------------------------
(* The three operations on a flag preserve what speaks of flags alone.     *)

(* ReturnFlag, called for a flag that is not stripped from the hands of a  *)
(* player who carries the other one.                                       *)
LEMMA ReturnFlagInv ==
  ASSUME FlagInv, NEW f \in Flags, ReturnFlag(f),
         owner[f] \in Players => m_pFlag[owner[f]] \in {f, NoFlag}
  PROVE  FlagInv'
  <1> USE DEF Flags, Teams, NoFlag, Home, Carried, Dropped
  <1>1. FlagTypes'
    BY DEF FlagInv, FlagTypes, ReturnFlag, Thinks
  <1>2. HandsHoldTheirFlag'
    BY PlayersAssumption DEF FlagInv, FlagTypes, ReturnFlag, HandsHoldTheirFlag
  <1>3. OwnerMatchesState'
    BY DEF FlagInv, FlagTypes, ReturnFlag, OwnerMatchesState
  <1>4. FlagStaysInPlay'
    BY DEF FlagInv, FlagTypes, ReturnFlag, FlagStaysInPlay
  <1>5. PedestalShowsFlag'
    BY DEF FlagInv, FlagTypes, ReturnFlag, PedestalShowsFlag
  <1> QED BY <1>1, <1>2, <1>3, <1>4, <1>5 DEF FlagInv

LEMMA ReturnFlagAgreed ==
  ASSUME FlagInv, Agreed, NEW f \in Flags, ReturnFlag(f),
         owner[f] \in Players => m_pFlag[owner[f]] \in {f, NoFlag}
  PROVE  Agreed'
  <1> USE DEF NoFlag, Home, Carried, Dropped, FlagInv, FlagTypes,
              HandsHoldTheirFlag, ReturnFlag
  <1>0. NoFlag \notin Flags
    BY DEF Flags, Teams
  <1>1. \A g \in Flags : m_iGoalState'[g] = Carried =>
          owner'[g] \in Players /\ m_pFlag'[owner'[g]] = g
    BY <1>0, PlayersAssumption DEF Agreed
  <1>2. \A q \in Players :
          m_iItems'[q] = IF m_pFlag'[q] = NoFlag THEN {} ELSE {m_pFlag'[q]}
    <2> SUFFICES ASSUME NEW q \in Players
                 PROVE  m_iItems'[q] = IF m_pFlag'[q] = NoFlag THEN {}
                                                               ELSE {m_pFlag'[q]}
      OBVIOUS
    <2>1. CASE q = owner[f]
      <3>1. m_pFlag'[q] = NoFlag /\ m_iItems'[q] = {}
        BY <2>1, PlayersAssumption
      <3> QED BY <3>1
    <2>2. CASE q # owner[f]
      <3>1. m_pFlag'[q] = m_pFlag[q] /\ m_iItems'[q] = m_iItems[q]
        BY <2>2
      <3> QED BY <3>1 DEF Agreed
    <2> QED BY <2>1, <2>2
  <1> QED BY <1>1, <1>2 DEF Agreed

LEMMA GiveFlagInv ==
  ASSUME FlagInv, NEW f \in Flags, NEW p \in Players, GiveFlagToPlayer(f, p),
         \A q \in Players : m_pFlag[q] # f
  PROVE  FlagInv'
  <1> USE DEF Flags, Teams, NoFlag, Home, Carried, Dropped
  <1>1. FlagTypes'
    BY DEF FlagInv, FlagTypes, GiveFlagToPlayer, Thinks
  <1>2. HandsHoldTheirFlag'
    BY PlayersAssumption DEF FlagInv, FlagTypes, GiveFlagToPlayer, HandsHoldTheirFlag
  <1>3. OwnerMatchesState'
    BY DEF FlagInv, FlagTypes, GiveFlagToPlayer, OwnerMatchesState
  <1>4. FlagStaysInPlay'
    BY DEF FlagInv, FlagTypes, GiveFlagToPlayer, FlagStaysInPlay
  <1>5. PedestalShowsFlag'
    BY DEF FlagInv, FlagTypes, GiveFlagToPlayer, PedestalShowsFlag
  <1> QED BY <1>1, <1>2, <1>3, <1>4, <1>5 DEF FlagInv

LEMMA GiveFlagAgreed ==
  ASSUME FlagInv, Agreed, NEW f \in Flags, NEW p \in Players,
         GiveFlagToPlayer(f, p), m_iGoalState[f] # Carried, m_pFlag[p] = NoFlag
  PROVE  Agreed'
  <1> USE DEF NoFlag, Home, Carried, Dropped, FlagInv, FlagTypes,
              HandsHoldTheirFlag, GiveFlagToPlayer
  <1>0. NoFlag \notin Flags
    BY DEF Flags, Teams
  <1>1. \A g \in Flags : m_iGoalState'[g] = Carried =>
          owner'[g] \in Players /\ m_pFlag'[owner'[g]] = g
    BY <1>0, PlayersAssumption DEF Agreed
  <1>2. \A q \in Players :
          m_iItems'[q] = IF m_pFlag'[q] = NoFlag THEN {} ELSE {m_pFlag'[q]}
    <2> SUFFICES ASSUME NEW q \in Players
                 PROVE  m_iItems'[q] = IF m_pFlag'[q] = NoFlag THEN {}
                                                               ELSE {m_pFlag'[q]}
      OBVIOUS
    <2>1. CASE q = p
      <3>1. m_iItems[q] = {}
        BY <2>1 DEF Agreed
      <3>2. m_pFlag'[q] = f /\ m_iItems'[q] = {f}
        BY <2>1, <3>1
      <3> QED BY <1>0, <3>2
    <2>2. CASE q # p
      <3>1. m_pFlag'[q] = m_pFlag[q] /\ m_iItems'[q] = m_iItems[q]
        BY <2>2
      <3> QED BY <3>1 DEF Agreed
    <2> QED BY <2>1, <2>2
  <1> QED BY <1>1, <1>2 DEF Agreed

LEMMA DropFlagInv ==
  ASSUME FlagInv, NEW p \in Players, m_pFlag[p] # NoFlag, DropFlag(m_pFlag[p], p)
  PROVE  FlagInv'
  <1> USE DEF Flags, Teams, NoFlag, Home, Carried, Dropped
  <1>1. FlagTypes'
    BY DEF FlagInv, FlagTypes, DropFlag, Thinks
  <1>2. HandsHoldTheirFlag'
    BY PlayersAssumption DEF FlagInv, FlagTypes, DropFlag, HandsHoldTheirFlag
  <1>3. OwnerMatchesState'
    BY DEF FlagInv, FlagTypes, DropFlag, OwnerMatchesState
  <1>4. FlagStaysInPlay'
    BY DEF FlagInv, FlagTypes, DropFlag, FlagStaysInPlay
  <1>5. PedestalShowsFlag'
    BY DEF FlagInv, FlagTypes, DropFlag, PedestalShowsFlag, HandsHoldTheirFlag
  <1> QED BY <1>1, <1>2, <1>3, <1>4, <1>5 DEF FlagInv

LEMMA DropFlagAgreed ==
  ASSUME FlagInv, Agreed, NEW p \in Players, m_pFlag[p] # NoFlag,
         DropFlag(m_pFlag[p], p)
  PROVE  Agreed'
  <1> USE DEF NoFlag, Home, Carried, Dropped, FlagInv, FlagTypes,
              HandsHoldTheirFlag, DropFlag
  <1>0. NoFlag \notin Flags
    BY DEF Flags, Teams
  <1>1. \A g \in Flags : m_iGoalState'[g] = Carried =>
          owner'[g] \in Players /\ m_pFlag'[owner'[g]] = g
    BY <1>0, PlayersAssumption DEF Agreed
  <1>2. \A q \in Players :
          m_iItems'[q] = IF m_pFlag'[q] = NoFlag THEN {} ELSE {m_pFlag'[q]}
    BY <1>0, PlayersAssumption DEF Agreed
  <1> QED BY <1>1, <1>2 DEF Agreed

(* What the game rules may do to the flag of a player. *)
LEMMA DropUnlessGameOverInv ==
  ASSUME FlagInv, NEW p \in Players, DropUnlessGameOver(p)
  PROVE  /\ FlagInv'
         /\ Agreed => Agreed'
         /\ ~g_fGameOver => m_pFlag' = [m_pFlag EXCEPT ![p] = NoFlag]
  <1>1. CASE ~g_fGameOver /\ m_pFlag[p] # NoFlag
    <2>1. DropFlag(m_pFlag[p], p)
      BY <1>1 DEF DropUnlessGameOver
    <2> QED BY <1>1, <2>1, DropFlagInv, DropFlagAgreed DEF DropFlag
  <1>2. CASE ~(~g_fGameOver /\ m_pFlag[p] # NoFlag)
    <2>1. UNCHANGED flagVars
      BY <1>2 DEF DropUnlessGameOver
    <2>2. ~g_fGameOver => m_pFlag' = [m_pFlag EXCEPT ![p] = NoFlag]
      BY <1>2, <2>1 DEF flagVars, FlagInv, FlagTypes
    <2> QED
      BY <2>1, <2>2 DEF flagVars, FlagInv, FlagTypes, HandsHoldTheirFlag,
         OwnerMatchesState, FlagStaysInPlay, PedestalShowsFlag, Agreed
  <1> QED BY <1>1, <1>2

(* A step that leaves flags and hands alone. *)
LEMMA FlagsUnchangedInv ==
  ASSUME FlagInv, UNCHANGED flagVars
  PROVE  FlagInv' /\ (Agreed => Agreed')
  BY DEF flagVars, FlagInv, FlagTypes, HandsHoldTheirFlag, OwnerMatchesState,
     FlagStaysInPlay, PedestalShowsFlag, Agreed
-----------------------------------------------------------------------------
(* Each action preserves the inductive invariant. *)
LEMMA TakeFlagStep ==
  ASSUME IInv, NEW p \in Players, NEW f \in Flags, TakeFlag(p, f)
  PROVE  IInv'
  <1> USE DEF TakeFlag, Touches
  <1>1. m_iGoalState[f] # Carried
    BY DEF IInv, FlagInv, FlagStaysInPlay, Home, Carried, Dropped
  <1>2. \A q \in Players : m_pFlag[q] # f
    BY <1>1 DEF IInv, FlagInv, HandsHoldTheirFlag, Flags, Teams, NoFlag
  <1>3. FlagInv'
    BY <1>2, GiveFlagInv DEF IInv
  <1>4. ~g_fGameOver => m_pFlag[p] = NoFlag
    <2> SUFFICES ASSUME ~g_fGameOver, m_pFlag[p] # NoFlag PROVE FALSE
      OBVIOUS
    <2>1. m_iTeamNum[p] \in Teams \ {m_pFlag[p]}
      BY DEF IInv, CarrierIsLiveEnemy
    <2>2. m_pFlag[p] \in Flags /\ m_pFlag[p] # f
      BY <1>2 DEF IInv, FlagInv, FlagTypes
    <2> QED BY <2>1, <2>2 DEF Flags, Teams
  <1>5. CustodyAgreed'
    BY <1>1, <1>4, GiveFlagAgreed, CustodySplit DEF IInv, CustodyAgreed, Agreed
  <1>6. InGameHasTeam'
    BY DEF IInv, InGameHasTeam, playerVars
  <1>7. CarrierIsLiveEnemy'
    <2>1. m_iTeamNum[p] \in Teams \ {f}
      BY DEF IInv, InGameHasTeam
    <2>2. m_pFlag' = [m_pFlag EXCEPT ![p] = f]
      BY DEF GiveFlagToPlayer
    <2> QED BY <2>1, <2>2 DEF IInv, FlagInv, FlagTypes, CarrierIsLiveEnemy, playerVars
  <1> QED BY <1>3, <1>5, <1>6, <1>7 DEF IInv, PlayerTypes, playerVars

(* What a step does to the flags alone carries over to the invariant if    *)
(* the players stay as they are and nobody's hands are filled.             *)
LEMMA HandsEmptiedStep ==
  ASSUME IInv, FlagInv', Agreed => Agreed', UNCHANGED <<playerVars, g_fGameOver>>,
         \A q \in Players : m_pFlag'[q] \in {m_pFlag[q], NoFlag}
  PROVE  IInv'
  <1>1. CustodyAgreed'
    BY CustodySplit DEF IInv, CustodyAgreed, Agreed
  <1>2. CarrierIsLiveEnemy'
    BY DEF IInv, CarrierIsLiveEnemy, playerVars
  <1> QED BY <1>1, <1>2 DEF IInv, PlayerTypes, InGameHasTeam, playerVars

(* A flag that is returned is not taken from a player who has gone on to   *)
(* carry the other one.                                                    *)
LEMMA ReturnFlagStep ==
  ASSUME IInv, NEW f \in Flags, ReturnFlag(f),
         UNCHANGED <<playerVars, g_fGameOver>>,
         owner[f] \in Players => m_pFlag[owner[f]] \in {f, NoFlag}
  PROVE  IInv'
  <1>1. FlagInv' /\ (Agreed => Agreed')
    BY ReturnFlagInv, ReturnFlagAgreed DEF IInv
  <1>2. \A q \in Players : m_pFlag'[q] \in {m_pFlag[q], NoFlag}
    BY DEF IInv, FlagInv, FlagTypes, ReturnFlag
  <1> QED BY <1>1, <1>2, HandsEmptiedStep

LEMMA CaptureFlagStep ==
  ASSUME IInv, NEW p \in Players, NEW f \in Flags, CaptureFlag(p, f)
  PROVE  IInv'
  <1>1. CASE m_pFlag[p] # NoFlag
    <2>1. m_pFlag[p] \in Flags /\ owner[m_pFlag[p]] = p
      BY <1>1 DEF IInv, FlagInv, FlagTypes, HandsHoldTheirFlag
    <2> QED BY <1>1, <2>1, ReturnFlagStep DEF CaptureFlag
  <1>2. CASE m_pFlag[p] = NoFlag
    <2>1. UNCHANGED flagVars
      BY <1>2 DEF CaptureFlag
    <2> QED BY <2>1, FlagsUnchangedInv, HandsEmptiedStep
            DEF CaptureFlag, IInv, flagVars
  <1> QED BY <1>1, <1>2

LEMMA ReturnOwnFlagStep ==
  ASSUME IInv, NEW p \in Players, NEW f \in Flags, ReturnOwnFlag(p, f)
  PROVE  IInv'
  <1>1. m_iGoalState[f] = Dropped
    BY DEF IInv, FlagInv, FlagTypes, FlagStaysInPlay, ReturnOwnFlag, Touches
  <1>2. owner[f] \notin Players
    BY <1>1, PlayersAssumption DEF IInv, FlagInv, OwnerMatchesState
  <1> QED BY <1>2, ReturnFlagStep DEF ReturnOwnFlag

LEMMA ThinkStepInv ==
  ASSUME IInv, NEW f \in Flags, ThinkStep(f)
  PROVE  IInv'
  <1>1. CASE ReturnFlagThink(f)
    <2>1. m_iGoalState[f] = Home
      BY <1>1 DEF ReturnFlagThink, IInv, FlagInv, FlagTypes, FlagStaysInPlay
    <2>2. FlagInv' /\ (Agreed => Agreed')
      BY <1>1, <2>1 DEF ReturnFlagThink, IInv, FlagInv, FlagTypes, Thinks,
         HandsHoldTheirFlag, OwnerMatchesState, FlagStaysInPlay,
         PedestalShowsFlag, Agreed, Home, Carried, Dropped
    <2> QED BY <1>1, <2>2, HandsEmptiedStep DEF ReturnFlagThink
  <1>2. CASE FlagCarryThink(f)
    <2>1. owner[f] \in Players => m_pFlag[owner[f]] = NoFlag
      BY <1>2, PlayersAssumption
         DEF FlagCarryThink, IInv, FlagInv, HandsHoldTheirFlag
    <2> QED BY <1>2, <2>1, ReturnFlagStep DEF FlagCarryThink
  <1>3. ASSUME think[f] \in {"goal_item_dropthink", "ReturnFlag"}
        PROVE  owner[f] \notin Players /\ m_iGoalState[f] = Dropped
    <2>1. m_iGoalState[f] = Dropped
      BY <1>3 DEF IInv, FlagInv, FlagTypes, FlagStaysInPlay
    <2> QED BY <2>1, PlayersAssumption DEF IInv, FlagInv, OwnerMatchesState
  <1>4. CASE goal_item_dropthink(f)
    <2>1. CASE ReturnFlag(f)
      BY <1>3, <1>4, <2>1, ReturnFlagStep DEF goal_item_dropthink
    <2>2. CASE ~ReturnFlag(f)
      <3>1. /\ think' = [think EXCEPT ![f] = "ReturnFlag"]
            /\ UNCHANGED <<m_pFlag, m_iItems, m_iGoalState, owner, touch, skin,
                           playerVars, g_fGameOver>>
        BY <1>4, <2>2 DEF goal_item_dropthink
      <3>2. m_iGoalState[f] = Dropped
        BY <1>3, <1>4 DEF goal_item_dropthink
      <3>3. FlagInv' /\ (Agreed => Agreed')
        BY <3>1, <3>2 DEF IInv, FlagInv, FlagTypes, Thinks,
           HandsHoldTheirFlag, OwnerMatchesState, FlagStaysInPlay,
           PedestalShowsFlag, Agreed, Home, Carried, Dropped
      <3> QED BY <3>1, <3>3, HandsEmptiedStep
    <2> QED BY <2>1, <2>2
  <1>5. CASE ReturnFlagTimer(f)
    BY <1>3, <1>5, ReturnFlagStep DEF ReturnFlagTimer
  <1> QED BY <1>1, <1>2, <1>4, <1>5 DEF ThinkStep

(* A player whom the game rules take the flag from may change in any way   *)
(* that keeps him a player; everybody else stays as he is.                 *)
LEMMA RelievedPlayerStep ==
  ASSUME IInv, NEW p \in Players, DropUnlessGameOver(p), UNCHANGED g_fGameOver,
         PlayerTypes', InGameHasTeam',
         \A q \in Players \ {p} :
           /\ conn'[q] = conn[q] /\ m_iTeamNum'[q] = m_iTeamNum[q]
           /\ iuser1'[q] = iuser1[q] /\ alive'[q] = alive[q]
  PROVE  IInv'
  <1>1. /\ FlagInv'
        /\ Agreed => Agreed'
        /\ ~g_fGameOver => m_pFlag' = [m_pFlag EXCEPT ![p] = NoFlag]
    BY DropUnlessGameOverInv DEF IInv
  <1>2. CustodyAgreed'
    BY <1>1, CustodySplit DEF IInv, CustodyAgreed, Agreed
  <1>3. CarrierIsLiveEnemy'
    <2> SUFFICES ASSUME ~g_fGameOver, NEW q \in Players, m_pFlag'[q] # NoFlag
                 PROVE  /\ conn'[q] = "active" /\ alive'[q] /\ ~iuser1'[q]
                        /\ m_iTeamNum'[q] \in Teams \ {m_pFlag'[q]}
      BY DEF CarrierIsLiveEnemy
    <2>1. q # p /\ m_pFlag'[q] = m_pFlag[q]
      BY <1>1 DEF IInv, FlagInv, FlagTypes
    <2> QED BY <2>1 DEF IInv, CarrierIsLiveEnemy
  <1> QED BY <1>1, <1>2, <1>3 DEF IInv

LEMMA PlayerStepInv ==
  ASSUME IInv, NEW p \in Players, PlayerStep(p)
  PROVE  IInv'
  <1> USE DEF IInv, PlayerTypes, InGameHasTeam
  <1>1. CASE Killed(p)
    BY <1>1, RelievedPlayerStep DEF Killed
  <1>2. CASE Respawn(p)
    <2>1. FlagInv' /\ (Agreed => Agreed') /\ m_pFlag' = m_pFlag
      BY <1>2, FlagsUnchangedInv DEF Respawn, flagVars
    <2>2. CustodyAgreed'
      BY <1>2, <2>1, CustodySplit DEF Respawn, CustodyAgreed, Agreed
    <2>3. CarrierIsLiveEnemy'
      BY <1>2, <2>1 DEF Respawn, CarrierIsLiveEnemy
    <2> QED BY <1>2, <2>1, <2>2, <2>3 DEF Respawn
  <1>3. CASE Displaced(p)
    <2>1. FlagInv' /\ (Agreed => Agreed')
      BY <1>3, DropFlagInv, DropFlagAgreed DEF Displaced
    <2>2. \A q \in Players : m_pFlag'[q] \in {m_pFlag[q], NoFlag}
      BY <1>3 DEF Displaced, DropFlag, FlagInv, FlagTypes
    <2> QED BY <1>3, <2>1, <2>2, HandsEmptiedStep DEF Displaced
  <1>4. CASE Spectate(p)
    BY <1>4, RelievedPlayerStep DEF Spectate
  <1>5. ASSUME NEW t \in Teams, JoinAsSpectator(p, t) PROVE IInv'
    <2>1. FlagInv' /\ (Agreed => Agreed') /\ m_pFlag' = m_pFlag
      BY <1>5, FlagsUnchangedInv DEF JoinAsSpectator, flagVars
    <2>2. CustodyAgreed'
      BY <1>5, <2>1, CustodySplit DEF JoinAsSpectator, CustodyAgreed, Agreed
    <2>3. CarrierIsLiveEnemy'
      BY <1>5, <2>1 DEF JoinAsSpectator, CarrierIsLiveEnemy
    <2> QED BY <1>5, <2>1, <2>2, <2>3 DEF JoinAsSpectator
  <1>6. ASSUME NEW t \in Teams, ChangeSides(p, t) PROVE IInv'
    BY <1>6, RelievedPlayerStep DEF ChangeSides
  <1> QED BY <1>1, <1>2, <1>3, <1>4, <1>5, <1>6 DEF PlayerStep

(* The game reset returns flags from the hands that hold them. *)
LEMMA ResetFlagsInv ==
  ASSUME FlagInv, ResetFlags
  PROVE  /\ FlagInv'
         /\ Agreed => Agreed'
         /\ \A q \in Players : m_pFlag'[q] \in {m_pFlag[q], NoFlag}
  <1> DEFINE S == {f \in Flags : \E p \in Players : m_iItems[p] # {} /\ m_pFlag[p] = f}
             Stripped == {owner[f] : f \in S}
  <1>1. /\ m_pFlag'  = [p \in Players |-> IF p \in Stripped THEN NoFlag ELSE m_pFlag[p]]
        /\ m_iItems' = [p \in Players |-> IF p \in Stripped THEN {} ELSE m_iItems[p]]
        /\ m_iGoalState' = [f \in Flags |-> IF f \in S THEN Home ELSE m_iGoalState[f]]
        /\ touch' = [f \in Flags |-> touch[f] /\ f \notin S]
        /\ think' = [f \in Flags |-> IF f \in S THEN "ReturnFlagThink" ELSE think[f]]
        /\ skin'  = [f \in Flags |-> IF f \in S THEN 0 ELSE skin[f]]
        /\ UNCHANGED owner
    BY DEF ResetFlags
  <1>2. NoFlag \notin Flags
    BY DEF NoFlag, Flags, Teams
  <1>3. \A p \in Players : m_pFlag[p] # NoFlag =>
          /\ m_pFlag[p] \in S
          /\ owner[m_pFlag[p]] = p
          /\ p \in Stripped
    BY DEF FlagInv, FlagTypes, HandsHoldTheirFlag
  <1> HIDE DEF S, Stripped
  <1>4. \A p \in Players : m_pFlag'[p] = NoFlag
    BY <1>1, <1>3
  <1>5. FlagTypes'
    BY <1>1, <1>2 DEF FlagInv, FlagTypes, Thinks, Home, Carried, Dropped
  <1>6. HandsHoldTheirFlag' /\ OwnerMatchesState'
    <2>1. HandsHoldTheirFlag'
      BY <1>4 DEF HandsHoldTheirFlag
    <2>2. \A g \in Flags : m_iGoalState'[g] \in {m_iGoalState[g], Home}
      BY <1>1
    <2>3. OwnerMatchesState'
      BY <1>1, <2>2 DEF FlagInv, OwnerMatchesState, Home, Carried, Dropped
    <2> QED BY <2>1, <2>3
  <1>7. FlagStaysInPlay'
    <2>1. \A g \in Flags :
            IF g \in S
            THEN m_iGoalState'[g] = Home /\ ~touch'[g] /\ think'[g] = "ReturnFlagThink"
            ELSE /\ m_iGoalState'[g] = m_iGoalState[g]
                 /\ touch'[g] <=> touch[g]
                 /\ think'[g] = think[g]
      BY <1>1
    <2> QED BY <2>1 DEF FlagInv, FlagStaysInPlay, Home, Carried, Dropped
  <1>8. PedestalShowsFlag'
    BY <1>1 DEF FlagInv, FlagTypes, PedestalShowsFlag, Home
  <1>9. ASSUME Agreed PROVE Agreed'
    <2>1. \A g \in Flags : m_iGoalState'[g] # Carried
      <3> SUFFICES ASSUME NEW g \in Flags, m_iGoalState'[g] = Carried PROVE FALSE
        OBVIOUS
      <3>1. g \notin S /\ m_iGoalState[g] = Carried
        BY <1>1 DEF Home, Carried
      <3>2. owner[g] \in Players /\ m_pFlag[owner[g]] = g
        BY <1>9, <3>1 DEF Agreed
      <3> QED BY <1>2, <1>3, <3>1, <3>2
    <2>2. \A q \in Players : m_iItems'[q] = {}
      BY <1>1, <1>3, <1>9 DEF Agreed
    <2> QED BY <1>4, <2>1, <2>2 DEF Agreed
  <1> QED BY <1>4, <1>5, <1>6, <1>7, <1>8, <1>9 DEF FlagInv

LEMMA ConnectStepInv ==
  ASSUME IInv, NEW p \in Players, ConnectStep(p)
  PROVE  IInv'
  <1> USE DEF IInv, PlayerTypes, InGameHasTeam
  <1>1. CASE ClientConnected(p)
    <2>1. /\ FlagInv' /\ (Agreed => Agreed')
          /\ \A q \in Players : m_pFlag'[q] \in {m_pFlag[q], NoFlag}
      BY <1>1, ResetFlagsInv, FlagsUnchangedInv DEF ClientConnected, flagVars
    <2>2. CustodyAgreed'
      BY <1>1, <2>1, CustodySplit DEF ClientConnected, CustodyAgreed, Agreed
    <2>3. CarrierIsLiveEnemy'
      BY <1>1, <2>1 DEF ClientConnected, CarrierIsLiveEnemy
    <2> QED BY <1>1, <2>1, <2>2, <2>3 DEF ClientConnected
  <1>2. CASE ClientPutInServer(p)
    <2>1. FlagInv'
      BY <1>2 DEF ClientPutInServer, FlagInv, FlagTypes, HandsHoldTheirFlag,
         OwnerMatchesState, FlagStaysInPlay, PedestalShowsFlag
    <2>2. ~g_fGameOver => m_pFlag[p] = NoFlag
      BY <1>2 DEF ClientPutInServer, CarrierIsLiveEnemy
    <2>3. CustodyAgreed'
      BY <1>2, <2>2 DEF ClientPutInServer, CustodyAgreed, FlagInv, FlagTypes
    <2>4. CarrierIsLiveEnemy'
      BY <1>2, <2>2 DEF ClientPutInServer, CarrierIsLiveEnemy, FlagInv, FlagTypes
    <2> QED BY <1>2, <2>1, <2>3, <2>4 DEF ClientPutInServer, None
  <1>3. CASE ClientDisconnect(p)
    BY <1>3, RelievedPlayerStep DEF ClientDisconnect
  <1>4. CASE AbortConnect(p)
    <2>1. FlagInv' /\ (Agreed => Agreed') /\ m_pFlag' = m_pFlag
      BY <1>4, FlagsUnchangedInv DEF AbortConnect, flagVars
    <2>2. CustodyAgreed'
      BY <1>4, <2>1, CustodySplit DEF AbortConnect, CustodyAgreed, Agreed
    <2>3. CarrierIsLiveEnemy'
      BY <1>4, <2>1 DEF AbortConnect, CarrierIsLiveEnemy
    <2> QED BY <1>4, <2>1, <2>2, <2>3 DEF AbortConnect
  <1> QED BY <1>1, <1>2, <1>3, <1>4 DEF ConnectStep
-----------------------------------------------------------------------------
LEMMA FreshLevelInv ==
  FreshLevel(conn, m_iTeamNum, iuser1, alive, m_pFlag, m_iItems, m_iGoalState,
             owner, touch, think, skin, g_fGameOver) => IInv
  <1> SUFFICES ASSUME FreshLevel(conn, m_iTeamNum, iuser1, alive, m_pFlag,
                                 m_iItems, m_iGoalState, owner, touch, think,
                                 skin, g_fGameOver)
               PROVE  IInv
    OBVIOUS
  <1> USE DEF FreshLevel, None, NoFlag, Home, Carried, Dropped
  <1>1. PlayerTypes /\ g_fGameOver \in BOOLEAN /\ InGameHasTeam
    BY DEF PlayerTypes, InGameHasTeam
  <1>2. FlagTypes
    BY DEF FlagTypes, Thinks
  <1>3. HandsHoldTheirFlag /\ OwnerMatchesState /\ PedestalShowsFlag
    BY DEF HandsHoldTheirFlag, OwnerMatchesState, PedestalShowsFlag
  <1>4. FlagStaysInPlay
    BY DEF FlagStaysInPlay
  <1>5. CustodyAgreed /\ CarrierIsLiveEnemy
    BY DEF CustodyAgreed, CarrierIsLiveEnemy
  <1> QED BY <1>1, <1>2, <1>3, <1>4, <1>5 DEF IInv, FlagInv

LEMMA RoundStepInv ==
  ASSUME IInv, RoundStep
  PROVE  IInv'
  <1>1. CASE GoToIntermission
    <2>1. FlagInv' /\ PlayerTypes' /\ InGameHasTeam' /\ g_fGameOver'
      BY <1>1, FlagsUnchangedInv
         DEF GoToIntermission, IInv, PlayerTypes, InGameHasTeam, playerVars
    <2> QED BY <2>1 DEF IInv, CustodyAgreed, CarrierIsLiveEnemy
  <1>2. CASE ChangeLevel
    <2>1. FreshLevel(conn, m_iTeamNum, iuser1, alive, m_pFlag, m_iItems,
                     m_iGoalState, owner, touch, think, skin, g_fGameOver)'
      BY <1>2 DEF ChangeLevel
    <2> QED BY <2>1, FreshLevelInv, PTL
  <1> QED BY <1>1, <1>2 DEF RoundStep

LEMMA NextInv == IInv /\ [Next]_vars => IInv'
  <1> SUFFICES ASSUME IInv, [Next]_vars PROVE IInv'
    OBVIOUS
  <1>1. ASSUME NEW p \in Players, NEW f \in Flags, TouchStep(p, f) PROVE IInv'
    BY <1>1, TakeFlagStep, CaptureFlagStep, ReturnOwnFlagStep DEF TouchStep
  <1>2. ASSUME NEW f \in Flags, ThinkStep(f) PROVE IInv'
    BY <1>2, ThinkStepInv
  <1>3. ASSUME NEW p \in Players, PlayerStep(p) \/ ConnectStep(p) PROVE IInv'
    BY <1>3, PlayerStepInv, ConnectStepInv
  <1>4. CASE RoundStep
    BY <1>4, RoundStepInv
  <1>5. CASE UNCHANGED vars
    <2>1. FlagInv' /\ (Agreed => Agreed')
      BY <1>5, FlagsUnchangedInv DEF vars, flagVars, IInv
    <2> QED BY <1>5, <2>1, HandsEmptiedStep DEF vars, flagVars, playerVars, IInv
  <1> QED BY <1>1, <1>2, <1>3, <1>4, <1>5 DEF Next

(* The invariant of every behaviour, of which the theorems below are parts. *)
LEMMA Invariant == Spec => []IInv
  <1>1. Init => IInv
    BY FreshLevelInv DEF Init
  <1> QED BY <1>1, NextInv, PTL DEF Spec

-----------------------------------------------------------------------------
(* Type correctness, for every set of players. *)
THEOREM TypeCorrect == Spec => []TypeOK
  <1>1. IInv => TypeOK
    BY TypesSplit DEF IInv, FlagInv
  <1> QED BY <1>1, Invariant, PTL

(* The flag entity and the player agree about who carries which flag       *)
(* (m_pFlag, m_iItems, pev->owner, m_iGoalState) while a round is played.  *)
THEOREM CustodyIsAgreed == Spec => []CustodyAgreed
  <1>1. IInv => CustodyAgreed
    BY DEF IInv
  <1> QED BY <1>1, Invariant, PTL

(* m_pFlag never points at a flag that is in other hands or nowhere, not   *)
(* even in the intermission.                                               *)
THEOREM PointersAreTrue == Spec => []HandsHoldTheirFlag
  <1>1. IInv => HandsHoldTheirFlag
    BY DEF IInv, FlagInv
  <1> QED BY <1>1, Invariant, PTL

(* Death, spectating, changing sides and leaving all take the flag away.   *)
THEOREM CarriersAreLiveEnemies == Spec => []CarrierIsLiveEnemy
  <1>1. IInv => CarrierIsLiveEnemy
    BY DEF IInv
  <1> QED BY <1>1, Invariant, PTL

(* No order of touches, thinks and departures leaves a flag that can       *)
(* neither be touched nor has a think that gives it back.                  *)
THEOREM FlagsStayInPlay == Spec => []FlagStaysInPlay
  <1>1. IInv => FlagStaysInPlay
    BY DEF IInv, FlagInv
  <1> QED BY <1>1, Invariant, PTL

(* The skin of item_ctfbase follows the goal state of its flag.            *)
THEOREM PedestalsShowFlags == Spec => []PedestalShowsFlag
  <1>1. IInv => PedestalShowsFlag
    BY DEF IInv, FlagInv
  <1> QED BY <1>1, Invariant, PTL
-----------------------------------------------------------------------------
(* The return timer.  What a flag is dropped out of is a player's hands,   *)
(* and those hold a flag that is carried, never one on the ground.         *)
AllTimersRun == \A f \in Flags : TimerRuns(f)

LEMMA ReturnKeepsTimers ==
  ASSUME FlagTypes, NEW g \in Flags, ReturnFlag(g)
  PROVE  AllTimersRun
  BY DEF FlagTypes, ReturnFlag, AllTimersRun, TimerRuns, Home, Carried, Dropped

LEMMA DropKeepsTimers ==
  ASSUME FlagInv, NEW p \in Players, m_pFlag[p] # NoFlag, DropFlag(m_pFlag[p], p)
  PROVE  AllTimersRun
  <1>1. m_pFlag[p] \in Flags /\ m_iGoalState[m_pFlag[p]] = Carried
    BY DEF FlagInv, FlagTypes, HandsHoldTheirFlag
  <1> QED BY <1>1 DEF DropFlag, FlagInv, FlagTypes, AllTimersRun, TimerRuns,
             Home, Carried, Dropped

LEMMA UnchangedKeepsTimers ==
  ASSUME FlagTypes, UNCHANGED <<m_iGoalState, think>>
  PROVE  AllTimersRun
  BY DEF FlagTypes, AllTimersRun, TimerRuns, Home, Carried, Dropped

LEMMA DropUnlessGameOverKeepsTimers ==
  ASSUME FlagInv, NEW p \in Players, DropUnlessGameOver(p)
  PROVE  AllTimersRun
  <1>1. CASE ~g_fGameOver /\ m_pFlag[p] # NoFlag
    BY <1>1, DropKeepsTimers DEF DropUnlessGameOver
  <1>2. CASE ~(~g_fGameOver /\ m_pFlag[p] # NoFlag)
    BY <1>2, UnchangedKeepsTimers DEF DropUnlessGameOver, flagVars, FlagInv
  <1> QED BY <1>1, <1>2

LEMMA NextKeepsTimers ==
  ASSUME IInv, Next
  PROVE  AllTimersRun
  <1> USE DEF IInv, FlagInv
  <1>1. ASSUME NEW p \in Players, NEW f \in Flags, TouchStep(p, f)  PROVE AllTimersRun
    <2>1. CASE TakeFlag(p, f)
      BY <2>1 DEF TakeFlag, GiveFlagToPlayer, FlagTypes, AllTimersRun, TimerRuns,
         Home, Carried, Dropped
    <2>2. CASE CaptureFlag(p, f)
      <3>1. CASE m_pFlag[p] # NoFlag
        BY <2>2, <3>1, ReturnKeepsTimers DEF CaptureFlag, FlagTypes
      <3>2. CASE m_pFlag[p] = NoFlag
        BY <2>2, <3>2, UnchangedKeepsTimers DEF CaptureFlag, flagVars
      <3> QED BY <3>1, <3>2
    <2>3. CASE ReturnOwnFlag(p, f)
      BY <2>3, ReturnKeepsTimers DEF ReturnOwnFlag
    <2> QED BY <1>1, <2>1, <2>2, <2>3 DEF TouchStep
  <1>2. ASSUME NEW f \in Flags, ThinkStep(f)  PROVE AllTimersRun
    <2>1. CASE ReturnFlag(f)
      BY <2>1, ReturnKeepsTimers
    <2>2. CASE ReturnFlagThink(f)
      <3>1. m_iGoalState[f] = Home
        BY <2>2 DEF ReturnFlagThink, FlagTypes, FlagStaysInPlay
      <3> QED BY <2>2, <3>1 DEF ReturnFlagThink, FlagTypes, AllTimersRun, TimerRuns,
                 Home, Carried, Dropped
    <2>3. CASE goal_item_dropthink(f) /\ ~ReturnFlag(f)
      BY <2>3 DEF goal_item_dropthink, FlagTypes, AllTimersRun, TimerRuns,
         Home, Carried, Dropped
    <2> QED BY <1>2, <2>1, <2>2, <2>3
             DEF ThinkStep, FlagCarryThink, goal_item_dropthink, ReturnFlagTimer
  <1>3. ASSUME NEW p \in Players, PlayerStep(p)  PROVE AllTimersRun
    <2>1. CASE DropUnlessGameOver(p)
      BY <2>1, DropUnlessGameOverKeepsTimers
    <2>2. CASE Displaced(p)
      BY <2>2, DropKeepsTimers DEF Displaced
    <2>3. CASE UNCHANGED flagVars
      BY <2>3, UnchangedKeepsTimers DEF flagVars
    <2> QED BY <1>3, <2>1, <2>2, <2>3
             DEF PlayerStep, Killed, Respawn, Spectate, JoinAsSpectator, ChangeSides
  <1>4. ASSUME NEW p \in Players, ConnectStep(p)  PROVE AllTimersRun
    <2>1. CASE ClientDisconnect(p)
      BY <2>1, DropUnlessGameOverKeepsTimers DEF ClientDisconnect
    <2>2. CASE ResetFlags
      BY <2>2 DEF ResetFlags, FlagTypes, AllTimersRun, TimerRuns, Home, Carried, Dropped
    <2>3. CASE UNCHANGED <<m_iGoalState, think>>
      BY <2>3, UnchangedKeepsTimers
    <2> QED BY <1>4, <2>1, <2>2, <2>3
             DEF ConnectStep, ClientConnected, ClientPutInServer, AbortConnect, flagVars
  <1>5. CASE RoundStep
    <2>1. CASE GoToIntermission
      BY <2>1, UnchangedKeepsTimers DEF GoToIntermission, flagVars
    <2>2. CASE ChangeLevel
      BY <2>2 DEF ChangeLevel, FreshLevel, AllTimersRun, TimerRuns, Home, Dropped
    <2> QED BY <1>5, <2>1, <2>2 DEF RoundStep
  <1> QED BY <1>1, <1>2, <1>3, <1>4, <1>5 DEF Next

(* No event restarts the return timer of a flag on the ground, and none    *)
(* puts a flag there that was at its base.                                 *)
THEOREM TimersRun == Spec => ReturnTimerRuns
  <1>1. IInv /\ [Next]_vars => [\A f \in Flags : TimerRuns(f)]_vars
    BY NextKeepsTimers DEF AllTimersRun
  <1> QED BY <1>1, Invariant, PTL DEF Spec, ReturnTimerRuns

-----------------------------------------------------------------------------
(* CTFFlags implements CTFCustody. *)
LEMMA HolderTypes ==
  ASSUME IInv
  PROVE  Holder \in [Flags -> {"base", "ground"} \cup Players]
  BY DEF IInv, FlagInv, FlagTypes, OwnerMatchesState, Holder

(* A flag that is away and is returned is returned in the abstract, too. *)
LEMMA ReturnHolder ==
  ASSUME IInv, NEW f \in Flags, ReturnFlag(f), m_iGoalState[f] # Home
  PROVE  Custody!Return(f)
  <1> USE DEF Home, Carried, Dropped
  <1>1. Holder[f] # "base"
    BY PlayersAssumption DEF IInv, FlagInv, FlagTypes, OwnerMatchesState, Holder
  <1>2. Holder' = [Holder EXCEPT ![f] = "base"]
    BY DEF IInv, FlagInv, FlagTypes, ReturnFlag, Holder
  <1> QED BY <1>1, <1>2 DEF Custody!Return

(* The flag in the hands of a player is at that player in the abstract. *)
LEMMA CarriedHolder ==
  ASSUME IInv, NEW p \in Players, m_pFlag[p] # NoFlag
  PROVE  /\ m_pFlag[p] \in Flags
         /\ m_iGoalState[m_pFlag[p]] = Carried
         /\ Holder[m_pFlag[p]] = p
  BY DEF IInv, FlagInv, FlagTypes, HandsHoldTheirFlag, Holder, Home, Carried, Dropped

LEMMA DropHolder ==
  ASSUME IInv, NEW p \in Players, m_pFlag[p] # NoFlag, DropFlag(m_pFlag[p], p)
  PROVE  Custody!Drop(m_pFlag[p])
  <1>1. Holder[m_pFlag[p]] \in Players /\ m_pFlag[p] \in Flags
    BY CarriedHolder
  <1>2. Holder' = [Holder EXCEPT ![m_pFlag[p]] = "ground"]
    <2>1. /\ m_iGoalState' = [m_iGoalState EXCEPT ![m_pFlag[p]] = Dropped]
          /\ \A g \in Flags \ {m_pFlag[p]} : owner'[g] = owner[g]
      BY DEF IInv, FlagInv, FlagTypes, DropFlag
    <2>2. ASSUME NEW g \in Flags
          PROVE  Holder'[g] = IF g = m_pFlag[p] THEN "ground" ELSE Holder[g]
      BY <1>1, <2>1 DEF IInv, FlagInv, FlagTypes, Holder, Home, Dropped
    <2> QED BY <1>1, <2>2 DEF Holder
  <1> QED BY <1>1, <1>2 DEF Custody!Drop

LEMMA DropUnlessGameOverHolder ==
  ASSUME IInv, NEW p \in Players, DropUnlessGameOver(p)
  PROVE  UNCHANGED Holder \/ \E f \in Flags : Custody!Drop(f)
  <1>1. CASE ~g_fGameOver /\ m_pFlag[p] # NoFlag
    BY <1>1, DropHolder, CarriedHolder DEF DropUnlessGameOver
  <1>2. CASE ~(~g_fGameOver /\ m_pFlag[p] # NoFlag)
    BY <1>2 DEF DropUnlessGameOver, flagVars, Holder
  <1> QED BY <1>1, <1>2

LEMMA TakeHolder ==
  ASSUME IInv, ~g_fGameOver, NEW p \in Players, NEW f \in Flags, TakeFlag(p, f)
  PROVE  Custody!Take(p, f)
  <1> USE DEF Home, Carried, Dropped
  <1>1. m_iGoalState[f] # Carried
    BY DEF IInv, FlagInv, FlagStaysInPlay, TakeFlag, Touches
  <1>2. Holder[f] \in {"base", "ground"}
    BY <1>1 DEF IInv, FlagInv, FlagTypes, Holder
  <1>3. ASSUME NEW g \in Flags, Holder[g] = p PROVE FALSE
    <2>1. m_iGoalState[g] = Carried /\ owner[g] = p
      BY <1>3, PlayersAssumption DEF IInv, FlagInv, FlagTypes, Holder
    <2>2. m_pFlag[p] = g
      BY <2>1 DEF IInv, CustodyAgreed
    <2>3. m_iTeamNum[p] \in Teams \ {g}
      BY <2>2 DEF IInv, CarrierIsLiveEnemy, NoFlag, Flags, Teams
    <2>4. g # f /\ m_iTeamNum[p] # f
      BY <1>1, <2>1 DEF TakeFlag
    <2> QED BY <2>3, <2>4 DEF Flags, Teams
  <1>4. Holder' = [Holder EXCEPT ![f] = p]
    <2>1. /\ m_iGoalState' = [m_iGoalState EXCEPT ![f] = Carried]
          /\ owner' = [owner EXCEPT ![f] = p]
      BY DEF TakeFlag, GiveFlagToPlayer
    <2>2. ASSUME NEW g \in Flags
          PROVE  Holder'[g] = IF g = f THEN p ELSE Holder[g]
      BY <2>1 DEF IInv, FlagInv, FlagTypes, Holder
    <2> QED BY <2>2 DEF Holder
  <1> QED BY <1>2, <1>3, <1>4 DEF Custody!Take, Custody!Places, Custody!Carries

(* The game reset of ClientConnected returns at most one flag: with at     *)
(* most one player on a team there is at most one carrier.                 *)
LEMMA ResetHolder ==
  ASSUME IInv, ~g_fGameOver, AtMostOneOnTeams, ResetFlags
  PROVE  UNCHANGED Holder \/ \E f \in Flags : Custody!Return(f)
  <1> DEFINE S == {f \in Flags : \E p \in Players : m_iItems[p] # {} /\ m_pFlag[p] = f}
  <1>1. /\ m_iGoalState' = [f \in Flags |-> IF f \in S THEN Home ELSE m_iGoalState[f]]
        /\ UNCHANGED owner
    BY DEF ResetFlags
  <1>2. CASE S = {}
    BY <1>1, <1>2 DEF Holder
  <1>3. CASE S # {}
    <2>1. PICK f \in Flags, p \in Players : m_pFlag[p] = f /\ f \in S
      BY <1>3
    <2>2. ASSUME NEW g \in S PROVE g = f
      <3>1. PICK q \in Players : m_pFlag[q] = g
        BY <2>2
      <3>2. m_pFlag[p] # NoFlag /\ m_pFlag[q] # NoFlag
        BY <2>1, <2>2, <3>1 DEF Flags, Teams, NoFlag
      <3>3. m_iTeamNum[p] # None /\ m_iTeamNum[q] # None
        BY <3>2 DEF IInv, CarrierIsLiveEnemy, Teams, None
      <3> QED BY <2>1, <3>1, <3>3 DEF AtMostOneOnTeams
    <2>3. Holder[f] = p
      BY <2>1, CarriedHolder DEF Flags, Teams, NoFlag
    <2> HIDE DEF S
    <2>4. Holder' = [Holder EXCEPT ![f] = "base"]
      BY <1>1, <2>1, <2>2 DEF IInv, FlagInv, FlagTypes, Holder, Home
    <2>5. Holder[f] # "base"
      BY <2>3, PlayersAssumption
    <2> QED BY <2>4, <2>5 DEF Custody!Return
  <1> QED BY <1>2, <1>3

(* While the round is played, a step that does not end it is a step of     *)
(* Play or leaves every flag where it is.                                  *)
LEMMA PlayStep ==
  ASSUME IInv, ~g_fGameOver,
         \/ \E p \in Players, f \in Flags : TouchStep(p, f)
         \/ \E f \in Flags : ThinkStep(f)
         \/ \E p \in Players : PlayerStep(p) \/ ConnectStep(p)
  PROVE  /\ UNCHANGED g_fGameOver
         /\ \/ UNCHANGED Holder
            \/ \E f \in Flags, p \in Players : Custody!Take(p, f)
            \/ \E f \in Flags : Custody!Drop(f) \/ Custody!Return(f)
  <1>1. ASSUME NEW p \in Players, NEW f \in Flags, TouchStep(p, f)
        PROVE  /\ UNCHANGED g_fGameOver
               /\ Custody!Take(p, f) \/ \E g \in Flags : Custody!Return(g)
    <2>1. CASE TakeFlag(p, f)
      BY <2>1, TakeHolder DEF TakeFlag
    <2>2. CASE CaptureFlag(p, f)
      <3>1. m_pFlag[p] # NoFlag
        BY <2>2 DEF CaptureFlag, IInv, CustodyAgreed
      <3>2. ReturnFlag(m_pFlag[p])
        BY <2>2, <3>1 DEF CaptureFlag
      <3>3. m_pFlag[p] \in Flags /\ m_iGoalState[m_pFlag[p]] # Home
        BY <3>1, CarriedHolder DEF Home, Carried
      <3>4. Custody!Return(m_pFlag[p])
        BY <3>2, <3>3, ReturnHolder
      <3> QED BY <2>2, <3>3, <3>4 DEF CaptureFlag
    <2>3. CASE ReturnOwnFlag(p, f)
      BY <2>3, ReturnHolder DEF ReturnOwnFlag
    <2> QED BY <1>1, <2>1, <2>2, <2>3 DEF TouchStep
  <1>2. ASSUME NEW f \in Flags, ThinkStep(f)
        PROVE  UNCHANGED g_fGameOver /\ (UNCHANGED Holder \/ Custody!Return(f))
    <2>1. think[f] \in {"FlagCarryThink", "goal_item_dropthink", "ReturnFlag"}
            => m_iGoalState[f] # Home
      BY DEF IInv, FlagInv, FlagStaysInPlay
    <2>2. CASE ReturnFlagThink(f)
      BY <2>2 DEF ReturnFlagThink, Holder
    <2>3. CASE FlagCarryThink(f)
      BY <2>1, <2>3, ReturnHolder DEF FlagCarryThink
    <2>4. CASE goal_item_dropthink(f)
      <3>1. CASE ReturnFlag(f)
        BY <2>1, <2>4, <3>1, ReturnHolder DEF goal_item_dropthink
      <3>2. CASE ~ReturnFlag(f)
        BY <2>4, <3>2 DEF goal_item_dropthink, Holder
      <3> QED BY <3>1, <3>2
    <2>5. CASE ReturnFlagTimer(f)
      BY <2>1, <2>5, ReturnHolder DEF ReturnFlagTimer
    <2> QED BY <1>2, <2>2, <2>3, <2>4, <2>5 DEF ThinkStep
  <1>3. ASSUME NEW p \in Players, PlayerStep(p)
        PROVE  /\ UNCHANGED g_fGameOver
               /\ UNCHANGED Holder \/ \E f \in Flags : Custody!Drop(f)
    <2>1. CASE Killed(p)
      BY <2>1, DropUnlessGameOverHolder DEF Killed
    <2>2. CASE Respawn(p)
      BY <2>2 DEF Respawn, flagVars, Holder
    <2>3. CASE Displaced(p)
      BY <2>3, DropHolder, CarriedHolder DEF Displaced
    <2>4. CASE Spectate(p)
      BY <2>4, DropUnlessGameOverHolder DEF Spectate
    <2>5. ASSUME NEW t \in Teams, JoinAsSpectator(p, t)
          PROVE  UNCHANGED <<g_fGameOver, Holder>>
      BY <2>5 DEF JoinAsSpectator, flagVars, Holder
    <2>6. ASSUME NEW t \in Teams, ChangeSides(p, t)
          PROVE  /\ UNCHANGED g_fGameOver
                 /\ UNCHANGED Holder \/ \E f \in Flags : Custody!Drop(f)
      BY <2>6, DropUnlessGameOverHolder DEF ChangeSides
    <2> QED BY <1>3, <2>1, <2>2, <2>3, <2>4, <2>5, <2>6 DEF PlayerStep
  <1>4. ASSUME NEW p \in Players, ConnectStep(p)
        PROVE  /\ UNCHANGED g_fGameOver
               /\ \/ UNCHANGED Holder
                  \/ \E f \in Flags : Custody!Drop(f) \/ Custody!Return(f)
    <2>1. CASE ClientConnected(p)
      <3>1. CASE AtMostOneOnTeams
        BY <2>1, <3>1, ResetHolder DEF ClientConnected
      <3>2. CASE ~AtMostOneOnTeams
        BY <2>1, <3>2 DEF ClientConnected, flagVars, Holder
      <3> QED BY <3>1, <3>2
    <2>2. CASE ClientPutInServer(p)
      BY <2>2 DEF ClientPutInServer, Holder
    <2>3. CASE ClientDisconnect(p)
      BY <2>3, DropUnlessGameOverHolder DEF ClientDisconnect
    <2>4. CASE AbortConnect(p)
      BY <2>4 DEF AbortConnect, flagVars, Holder
    <2> QED BY <1>4, <2>1, <2>2, <2>3, <2>4 DEF ConnectStep
  <1> QED BY <1>1, <1>2, <1>3, <1>4

LEMMA NextRefines ==
  ASSUME IInv, IInv', [Next]_vars
  PROVE  [Custody!Next]_(Custody!vars)
  <1> USE DEF Custody!vars, Custody!Next
  <1>0. Holder' \in [Flags -> {"base", "ground"} \cup Players]
    <2>1. (Holder \in [Flags -> {"base", "ground"} \cup Players])'
      BY HolderTypes, PTL
    <2> QED BY <2>1
  <1>1. CASE UNCHANGED vars
    BY <1>1 DEF vars, Holder
  <1>2. CASE GoToIntermission
    BY <1>2 DEF GoToIntermission, flagVars, Holder, Custody!EndRound
  <1>3. CASE ChangeLevel
    <2>1. Holder' = [f \in Flags |-> "base"]
      BY <1>3 DEF ChangeLevel, FreshLevel, Holder
    <2> QED BY <1>3, <2>1 DEF ChangeLevel, FreshLevel, Custody!NextLevel
  <1>4. CASE g_fGameOver /\ g_fGameOver'
    BY <1>0, <1>4 DEF Custody!Aftermath, Custody!Places
  <1>5. CASE /\ \/ \E p \in Players, f \in Flags : TouchStep(p, f)
                \/ \E f \in Flags : ThinkStep(f)
                \/ \E p \in Players : PlayerStep(p) \/ ConnectStep(p)
             /\ ~g_fGameOver
    BY <1>5, PlayStep DEF Custody!Play
  <1>6. ASSUME \/ \E p \in Players, f \in Flags : TouchStep(p, f)
               \/ \E f \in Flags : ThinkStep(f)
               \/ \E p \in Players : PlayerStep(p) \/ ConnectStep(p)
        PROVE  UNCHANGED g_fGameOver
    BY <1>6 DEF TouchStep, TakeFlag, CaptureFlag, ReturnOwnFlag, ThinkStep,
       ReturnFlagThink, FlagCarryThink, goal_item_dropthink, ReturnFlagTimer,
       PlayerStep, Killed, Respawn, Displaced, Spectate, JoinAsSpectator,
       ChangeSides, ConnectStep, ClientConnected, ClientPutInServer,
       ClientDisconnect, AbortConnect
  <1> QED BY <1>1, <1>2, <1>3, <1>4, <1>5, <1>6 DEF Next, RoundStep, IInv

(* Every behaviour of the flag code is one CTFCustody allows: a flag has   *)
(* one place at a time and changes it one promise at a time.               *)
THEOREM FlagsImplementCustody == Spec => ImplementsCustody
  <1>1. Init => Custody!Init
    BY DEF Init, FreshLevel, Holder, Custody!Init
  <1> QED BY <1>1, NextRefines, Invariant, PTL DEF Spec, ImplementsCustody, Custody!Spec
=============================================================================
