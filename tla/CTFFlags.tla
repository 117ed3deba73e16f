------------------------------ MODULE CTFFlags ------------------------------
(***************************************************************************)
(* The flag entities of Capture the Flag (CTFGoalFlag), the players who    *)
(* carry them and the game rules that take flags away from players.        *)
(*                                                                         *)
(* A flag is a small state machine made of a goal state, a touch callback  *)
(* and one scheduled think callback.  Who has the flag is recorded twice:  *)
(* in the flag (pev->owner) and in the player (m_pFlag and the flag bits   *)
(* of m_iItems).  Touches, thinks, deaths, team changes, connections and   *)
(* disconnections come in any order; each is one action, because the       *)
(* server runs its callbacks one after the other on one thread.            *)
(***************************************************************************)
EXTENDS Naturals

CONSTANTS Players,   \* the client slots, 1..gpGlobals->maxClients
          NoPlayer   \* a null pev->owner

(* Slots are numbers: neither NoPlayer nor a place of CTFCustody is one.   *)
ASSUME PlayersAssumption == /\ NoPlayer \notin Players
                            /\ Players \cap {"base", "ground"} = {}

None   == 0          \* CTFTeam::None
Teams  == {1, 2}     \* CTFTeam::BlackMesa and CTFTeam::OpposingForce
Flags  == Teams      \* m_iGoalNum: each flag carries the number of its team
NoFlag == 0          \* a null m_pFlag

Home    == 1         \* the values of m_iGoalState
Carried == 2
Dropped == 3

Thinks == {"none", "ReturnFlagThink", "FlagCarryThink",
           "goal_item_dropthink", "ReturnFlag"}

VARIABLES
  conn,          \* conn[p]: "free", "connecting" or "active"
  m_iTeamNum,    \* m_iTeamNum[p]: the team of the player
  iuser1,        \* iuser1[p]: the player is an observer, not solid
  alive,         \* alive[p]: pev->health > 0
  m_pFlag,       \* m_pFlag[p]: the flag the player thinks he carries
  m_iItems,      \* m_iItems[p]: the flag bits of the player's items
  m_iGoalState,  \* m_iGoalState[f]: Home, Carried or Dropped
  owner,         \* owner[f]: pev->owner
  touch,         \* touch[f]: the touch function is goal_item_touch
  think,         \* think[f]: the think function that is scheduled
  skin,          \* skin[f]: pev->skin of the item_ctfbase of the flag
  g_fGameOver    \* the intermission has begun

playerVars == <<conn, m_iTeamNum, iuser1, alive>>
flagVars   == <<m_pFlag, m_iItems, m_iGoalState, owner, touch, think, skin>>
vars       == <<conn, m_iTeamNum, iuser1, alive, m_pFlag, m_iItems,
                m_iGoalState, owner, touch, think, skin, g_fGameOver>>

TypeOK ==
  /\ conn \in [Players -> {"free", "connecting", "active"}]
  /\ m_iTeamNum \in [Players -> Teams \cup {None}]
  /\ iuser1 \in [Players -> BOOLEAN]
  /\ alive \in [Players -> BOOLEAN]
  /\ m_pFlag \in [Players -> Flags \cup {NoFlag}]
  /\ m_iItems \in [Players -> SUBSET Flags]
  /\ m_iGoalState \in [Flags -> {Home, Carried, Dropped}]
  /\ owner \in [Flags -> Players \cup {NoPlayer}]
  /\ touch \in [Flags -> BOOLEAN]
  /\ think \in [Flags -> Thinks]
  /\ skin \in [Flags -> {0, 1}]
  /\ g_fGameOver \in BOOLEAN

-----------------------------------------------------------------------------
(* The level after CTFGoalFlag::Spawn and PlaceItem: the engine runs the   *)
(* first frames of a multiplayer level before it lets a client in.         *)
FreshLevel(c, t, i, a, mf, mi, gs, o, tc, th, sk, over) ==
  /\ c  = [p \in Players |-> "free"]
  /\ t  = [p \in Players |-> None]
  /\ i  = [p \in Players |-> TRUE]
  /\ a  = [p \in Players |-> TRUE]
  /\ mf = [p \in Players |-> NoFlag]
  /\ mi = [p \in Players |-> {}]
  /\ gs = [f \in Flags |-> Home]
  /\ o  = [f \in Flags |-> NoPlayer]
  /\ tc = [f \in Flags |-> TRUE]
  /\ th = [f \in Flags |-> "none"]
  /\ sk = [f \in Flags |-> 0]
  /\ over = FALSE

Init == FreshLevel(conn, m_iTeamNum, iuser1, alive, m_pFlag, m_iItems,
                   m_iGoalState, owner, touch, think, skin, g_fGameOver)

-----------------------------------------------------------------------------
(* Mutants of ReturnFlag: the carrier's m_pFlag is forgotten; the pedestal *)
(* is forgotten.                                                           *)
ReturnFlag_KeepsPointer(f) ==
  /\ UNCHANGED m_pFlag
  /\ IF owner[f] = NoPlayer
     THEN UNCHANGED m_iItems
     ELSE m_iItems' = [m_iItems EXCEPT ![owner[f]] = {}]
  /\ m_iGoalState' = [m_iGoalState EXCEPT ![f] = Home]
  /\ touch' = [touch EXCEPT ![f] = FALSE]
  /\ think' = [think EXCEPT ![f] = "ReturnFlagThink"]
  /\ skin'  = [skin EXCEPT ![f] = 0]
  /\ UNCHANGED owner

ReturnFlag_KeepsSkin(f) ==
  /\ IF owner[f] = NoPlayer
     THEN UNCHANGED <<m_pFlag, m_iItems>>
     ELSE /\ m_pFlag'  = [m_pFlag EXCEPT ![owner[f]] = NoFlag]
          /\ m_iItems' = [m_iItems EXCEPT ![owner[f]] = {}]
  /\ m_iGoalState' = [m_iGoalState EXCEPT ![f] = Home]
  /\ touch' = [touch EXCEPT ![f] = FALSE]
  /\ think' = [think EXCEPT ![f] = "ReturnFlagThink"]
  /\ UNCHANGED <<owner, skin>>

(* CTFGoalFlag::ReturnFlag.  The player it strips is the one pev->owner    *)
(* names; pev->owner itself is left as it is, also when the flag is home.  *)
ReturnFlag(f) ==
  /\ IF owner[f] = NoPlayer
     THEN UNCHANGED <<m_pFlag, m_iItems>>
     ELSE /\ m_pFlag'  = [m_pFlag EXCEPT ![owner[f]] = NoFlag]
          /\ m_iItems' = [m_iItems EXCEPT ![owner[f]] = {}]
  /\ m_iGoalState' = [m_iGoalState EXCEPT ![f] = Home]
  /\ touch' = [touch EXCEPT ![f] = FALSE]
  /\ think' = [think EXCEPT ![f] = "ReturnFlagThink"]
  /\ skin'  = [skin EXCEPT ![f] = 0]
  /\ UNCHANGED owner

(* CTFGoalFlag::GiveFlagToPlayer *)
GiveFlagToPlayer(f, p) ==
  /\ m_pFlag'  = [m_pFlag EXCEPT ![p] = f]
  /\ m_iItems' = [m_iItems EXCEPT ![p] = @ \cup {f}]
  /\ m_iGoalState' = [m_iGoalState EXCEPT ![f] = Carried]
  /\ owner' = [owner EXCEPT ![f] = p]
  /\ touch' = [touch EXCEPT ![f] = FALSE]
  /\ think' = [think EXCEPT ![f] = "FlagCarryThink"]
  /\ skin'  = [skin EXCEPT ![f] = 1]

(* Mutants of DropFlag: the flag bits stay with the player; no think is    *)
(* scheduled, as in a DropFlag that forgets DoDrop's SetThink.             *)
DropFlag_KeepsItems(f, p) ==
  /\ m_pFlag'  = [m_pFlag EXCEPT ![p] = NoFlag]
  /\ m_iGoalState' = [m_iGoalState EXCEPT ![f] = Dropped]
  /\ owner' = [owner EXCEPT ![f] = NoPlayer]
  /\ touch' = [touch EXCEPT ![f] = TRUE]
  /\ think' = [think EXCEPT ![f] = "goal_item_dropthink"]
  /\ UNCHANGED <<m_iItems, skin>>

DropFlag_NoThink(f, p) ==
  /\ m_pFlag'  = [m_pFlag EXCEPT ![p] = NoFlag]
  /\ m_iItems' = [m_iItems EXCEPT ![p] = {}]
  /\ m_iGoalState' = [m_iGoalState EXCEPT ![f] = Dropped]
  /\ owner' = [owner EXCEPT ![f] = NoPlayer]
  /\ touch' = [touch EXCEPT ![f] = TRUE]
  /\ think' = [think EXCEPT ![f] = "none"]
  /\ UNCHANGED skin

(* CTFGoalFlag::DropFlag with DoDrop *)
DropFlag(f, p) ==
  /\ m_pFlag'  = [m_pFlag EXCEPT ![p] = NoFlag]
  /\ m_iItems' = [m_iItems EXCEPT ![p] = {}]
  /\ m_iGoalState' = [m_iGoalState EXCEPT ![f] = Dropped]
  /\ owner' = [owner EXCEPT ![f] = NoPlayer]
  /\ touch' = [touch EXCEPT ![f] = TRUE]
  /\ think' = [think EXCEPT ![f] = "goal_item_dropthink"]
  /\ UNCHANGED skin

(* The test the game rules make before they take the flag of a player. *)
DropUnlessGameOver(p) ==
  IF ~g_fGameOver /\ m_pFlag[p] # NoFlag
  THEN DropFlag(m_pFlag[p], p)
  ELSE UNCHANGED flagVars

-----------------------------------------------------------------------------
(* goal_item_touch.  The engine calls it only for a flag whose touch       *)
(* function is set and for solid players: neither observers nor slots      *)
(* without a client are solid.                                             *)
Touches(p, f) ==
  /\ touch[f]
  /\ conn[p] = "active"
  /\ ~iuser1[p]
  /\ alive[p]

(* Mutant of TakeFlag: the team of the flag is not looked at. *)
TakeFlag_AnyTeam(p, f) ==
  /\ Touches(p, f)
  /\ GiveFlagToPlayer(f, p)
  /\ UNCHANGED <<playerVars, g_fGameOver>>

TakeFlag(p, f) ==
  /\ Touches(p, f)
  /\ m_iTeamNum[p] # f
  /\ GiveFlagToPlayer(f, p)
  /\ UNCHANGED <<playerVars, g_fGameOver>>

CaptureFlag(p, f) ==
  /\ Touches(p, f)
  /\ m_iTeamNum[p] = f
  /\ m_iGoalState[f] = Home
  /\ m_iItems[p] # {}
  /\ IF m_pFlag[p] # NoFlag THEN ReturnFlag(m_pFlag[p]) ELSE UNCHANGED flagVars
  /\ UNCHANGED <<playerVars, g_fGameOver>>

ReturnOwnFlag(p, f) ==
  /\ Touches(p, f)
  /\ m_iTeamNum[p] = f
  /\ m_iGoalState[f] # Home
  /\ ReturnFlag(f)
  /\ UNCHANGED <<playerVars, g_fGameOver>>

-----------------------------------------------------------------------------
(* The scheduled think functions. *)

(* The touch function comes back a quarter of a second after the return. *)
ReturnFlagThink(f) ==
  /\ think[f] = "ReturnFlagThink"
  /\ think' = [think EXCEPT ![f] = "none"]
  /\ touch' = [touch EXCEPT ![f] = TRUE]
  /\ UNCHANGED <<m_pFlag, m_iItems, m_iGoalState, owner, skin,
                 playerVars, g_fGameOver>>

(* Mutant of FlagCarryThink: the items of the owner are not looked at. *)
FlagCarryThink_TrustsOwner(f) ==
  /\ think[f] = "FlagCarryThink"
  /\ owner[f] = NoPlayer
  /\ ReturnFlag(f)
  /\ UNCHANGED <<playerVars, g_fGameOver>>

(* The branch in which the owner still has a flag only schedules the next  *)
(* FlagCarryThink; this is the branch in which the flag goes home.         *)
FlagCarryThink(f) ==
  /\ think[f] = "FlagCarryThink"
  /\ \/ owner[f] = NoPlayer
     \/ m_iItems[owner[f]] = {}
  /\ ReturnFlag(f)
  /\ UNCHANGED <<playerVars, g_fGameOver>>

(* Mutant of goal_item_dropthink: the return is not scheduled. *)
goal_item_dropthink_NoReturn(f) ==
  /\ think[f] = "goal_item_dropthink"
  /\ \/ ReturnFlag(f)
     \/ /\ think' = [think EXCEPT ![f] = "none"]
        /\ UNCHANGED <<m_pFlag, m_iItems, m_iGoalState, owner, touch, skin>>
  /\ UNCHANGED <<playerVars, g_fGameOver>>

(* Five seconds after the drop: what the flag fell into decides. *)
goal_item_dropthink(f) ==
  /\ think[f] = "goal_item_dropthink"
  /\ \/ ReturnFlag(f)
     \/ /\ think' = [think EXCEPT ![f] = "ReturnFlag"]
        /\ UNCHANGED <<m_pFlag, m_iItems, m_iGoalState, owner, touch, skin>>
  /\ UNCHANGED <<playerVars, g_fGameOver>>

(* g_flFlagReturnTime after the drop. *)
ReturnFlagTimer(f) ==
  /\ think[f] = "ReturnFlag"
  /\ ReturnFlag(f)
  /\ UNCHANGED <<playerVars, g_fGameOver>>

-----------------------------------------------------------------------------
(* Players. *)

(* CBasePlayer::Killed with CHalfLifeCTFplay::PlayerKilled; the suicide    *)
(* command also reaches it for a player who is dead already.               *)
Killed(p) ==
  /\ conn[p] = "active"
  /\ ~iuser1[p]
  /\ alive' = [alive EXCEPT ![p] = FALSE]
  /\ DropUnlessGameOver(p)
  /\ UNCHANGED <<conn, m_iTeamNum, iuser1, g_fGameOver>>

Respawn(p) ==
  /\ conn[p] = "active"
  /\ ~iuser1[p]
  /\ ~alive[p]
  /\ alive' = [alive EXCEPT ![p] = TRUE]
  /\ UNCHANGED <<conn, m_iTeamNum, iuser1, g_fGameOver>>
  /\ UNCHANGED flagVars

(* A displacer sends the carrier away: the flag stays, also after the end. *)
Displaced(p) ==
  /\ conn[p] = "active"
  /\ ~iuser1[p]
  /\ m_pFlag[p] # NoFlag
  /\ DropFlag(m_pFlag[p], p)
  /\ UNCHANGED <<playerVars, g_fGameOver>>

(* Mutant of Spectate: the flag is not dropped. *)
Spectate_KeepsFlag(p) ==
  /\ conn[p] = "active"
  /\ alive'  = [alive EXCEPT ![p] = TRUE]
  /\ iuser1' = [iuser1 EXCEPT ![p] = TRUE]
  /\ m_iTeamNum' = [m_iTeamNum EXCEPT ![p] = None]
  /\ UNCHANGED flagVars
  /\ UNCHANGED <<conn, g_fGameOver>>

(* ChangePlayerTeam with no character: the player becomes a spectator.  A  *)
(* dead player is respawned first.                                         *)
Spectate(p) ==
  /\ conn[p] = "active"
  /\ alive'  = [alive EXCEPT ![p] = TRUE]
  /\ iuser1' = [iuser1 EXCEPT ![p] = TRUE]
  /\ m_iTeamNum' = [m_iTeamNum EXCEPT ![p] = None]
  /\ DropUnlessGameOver(p)
  /\ UNCHANGED <<conn, g_fGameOver>>

(* Menu_Char_Input for the team t chosen in the team menu.  A spectator is *)
(* put into the game; a player who changes sides loses his flag and is     *)
(* killed (a dead one stays dead).                                         *)
JoinAsSpectator(p, t) ==
  /\ conn[p] = "active"
  /\ iuser1[p]
  /\ m_iTeamNum' = [m_iTeamNum EXCEPT ![p] = t]
  /\ iuser1' = [iuser1 EXCEPT ![p] = FALSE]
  /\ UNCHANGED <<conn, alive, g_fGameOver>>
  /\ UNCHANGED flagVars

ChangeSides(p, t) ==
  /\ conn[p] = "active"
  /\ ~iuser1[p]
  /\ m_iTeamNum[p] # t
  /\ m_iTeamNum' = [m_iTeamNum EXCEPT ![p] = t]
  /\ alive' = [alive EXCEPT ![p] = FALSE]
  /\ DropUnlessGameOver(p)
  /\ UNCHANGED <<conn, iuser1, g_fGameOver>>

-----------------------------------------------------------------------------
(* Connections. *)

(* At most one slot holds a player with a team. *)
AtMostOneOnTeams ==
  \A p, q \in Players :
    m_iTeamNum[p] # None /\ m_iTeamNum[q] # None => p = q

(* The game reset of ClientConnected: every flag a player thinks he        *)
(* carries goes home, slot by slot.  A flag two slots point at is returned *)
(* once for each, which changes nothing the second time.                   *)
ResetFlags ==
  LET S == {f \in Flags : \E p \in Players : m_iItems[p] # {} /\ m_pFlag[p] = f}
      Stripped == {owner[f] : f \in S}
  IN  /\ m_pFlag'  = [p \in Players |-> IF p \in Stripped THEN NoFlag ELSE m_pFlag[p]]
      /\ m_iItems' = [p \in Players |-> IF p \in Stripped THEN {} ELSE m_iItems[p]]
      /\ m_iGoalState' = [f \in Flags |-> IF f \in S THEN Home ELSE m_iGoalState[f]]
      /\ touch' = [f \in Flags |-> touch[f] /\ f \notin S]
      /\ think' = [f \in Flags |-> IF f \in S THEN "ReturnFlagThink" ELSE think[f]]
      /\ skin'  = [f \in Flags |-> IF f \in S THEN 0 ELSE skin[f]]
      /\ UNCHANGED owner

ClientConnected(p) ==
  /\ conn[p] = "free"
  /\ conn' = [conn EXCEPT ![p] = "connecting"]
  /\ IF AtMostOneOnTeams THEN ResetFlags ELSE UNCHANGED flagVars
  /\ UNCHANGED <<m_iTeamNum, iuser1, alive, g_fGameOver>>

(* ClientPutInServer creates the player object anew in its slot and spawns *)
(* it: without a team it is an observer.                                   *)
ClientPutInServer(p) ==
  /\ conn[p] = "connecting"
  /\ conn' = [conn EXCEPT ![p] = "active"]
  /\ m_iTeamNum' = [m_iTeamNum EXCEPT ![p] = None]
  /\ iuser1' = [iuser1 EXCEPT ![p] = TRUE]
  /\ alive'  = [alive EXCEPT ![p] = TRUE]
  /\ m_pFlag'  = [m_pFlag EXCEPT ![p] = NoFlag]
  /\ m_iItems' = [m_iItems EXCEPT ![p] = {}]
  /\ UNCHANGED <<m_iGoalState, owner, touch, think, skin, g_fGameOver>>

(* ClientDisconnect returns at once during the intermission: the slot      *)
(* keeps the team and the flag of the player who has left.                 *)
ClientDisconnect(p) ==
  /\ conn[p] = "active"
  /\ conn' = [conn EXCEPT ![p] = "free"]
  /\ m_iTeamNum' = IF g_fGameOver THEN m_iTeamNum
                                  ELSE [m_iTeamNum EXCEPT ![p] = None]
  /\ DropUnlessGameOver(p)
  /\ UNCHANGED <<iuser1, alive, g_fGameOver>>

(* A client that gives up before it is in the game: no code of ours runs. *)
AbortConnect(p) ==
  /\ conn[p] = "connecting"
  /\ conn' = [conn EXCEPT ![p] = "free"]
  /\ UNCHANGED <<m_iTeamNum, iuser1, alive, g_fGameOver>>
  /\ UNCHANGED flagVars

-----------------------------------------------------------------------------
(* The round. *)

(* A limit is reached; which one is the matter of CTFRound. *)
GoToIntermission ==
  /\ ~g_fGameOver
  /\ g_fGameOver' = TRUE
  /\ UNCHANGED playerVars
  /\ UNCHANGED flagVars

(* The next level: CWorld::Spawn, new flags, and clients that reconnect. *)
ChangeLevel ==
  /\ g_fGameOver
  /\ FreshLevel(conn', m_iTeamNum', iuser1', alive', m_pFlag', m_iItems',
                m_iGoalState', owner', touch', think', skin', g_fGameOver')

TouchStep(p, f)  == TakeFlag(p, f) \/ CaptureFlag(p, f) \/ ReturnOwnFlag(p, f)
ThinkStep(f)     == \/ ReturnFlagThink(f) \/ FlagCarryThink(f)
                    \/ goal_item_dropthink(f) \/ ReturnFlagTimer(f)
PlayerStep(p)    == \/ Killed(p) \/ Respawn(p) \/ Displaced(p) \/ Spectate(p)
                    \/ \E t \in Teams : JoinAsSpectator(p, t) \/ ChangeSides(p, t)
ConnectStep(p)   == \/ ClientConnected(p) \/ ClientPutInServer(p)
                    \/ ClientDisconnect(p) \/ AbortConnect(p)
RoundStep        == GoToIntermission \/ ChangeLevel

Next ==
  \/ \E p \in Players, f \in Flags : TouchStep(p, f)
  \/ \E f \in Flags : ThinkStep(f)
  \/ \E p \in Players : PlayerStep(p) \/ ConnectStep(p)
  \/ RoundStep

(* The engine runs the think function of an entity once its time has come. *)
Fairness == \A f \in Flags : WF_vars(ThinkStep(f))

Spec     == Init /\ [][Next]_vars
FairSpec == Spec /\ Fairness
-----------------------------------------------------------------------------
(* The two records of who carries a flag agree: as long as the round is    *)
(* played, a flag is carried exactly when one player points at it, the     *)
(* flag points back at him, and the item bits that the scoreboard, the     *)
(* carry think and the capture test read are those of that one flag.       *)
CustodyAgreed ==
  ~g_fGameOver =>
    /\ \A f \in Flags :
         m_iGoalState[f] = Carried =>
           owner[f] \in Players /\ m_pFlag[owner[f]] = f
    /\ \A p \in Players :
         m_iItems[p] = IF m_pFlag[p] = NoFlag THEN {} ELSE {m_pFlag[p]}

(* Also after the end of the round, and whoever takes over a slot, a       *)
(* player never points at a flag that is not in his hands: a later         *)
(* DropFlag or ReturnFlag through m_pFlag hits his own flag.               *)
HandsHoldTheirFlag ==
  \A p \in Players : m_pFlag[p] # NoFlag =>
    /\ owner[m_pFlag[p]] = p
    /\ m_iGoalState[m_pFlag[p]] = Carried
    /\ m_pFlag[p] \in m_iItems[p]

(* Death, spectating, changing sides and leaving all take the flag away:   *)
(* who carries a flag is in the game, alive and of the other team.         *)
CarrierIsLiveEnemy ==
  ~g_fGameOver =>
    \A p \in Players : m_pFlag[p] # NoFlag =>
      /\ conn[p] = "active" /\ alive[p] /\ ~iuser1[p]
      /\ m_iTeamNum[p] \in Teams \ {m_pFlag[p]}

(* No flag drops out of play: one that cannot be touched has a think       *)
(* scheduled that gives it back, one on the ground can be touched and has  *)
(* its return scheduled, and one at its base is idle or about to be.       *)
FlagStaysInPlay ==
  \A f \in Flags :
    /\ m_iGoalState[f] = Home =>
         \/ touch[f] /\ think[f] = "none"
         \/ ~touch[f] /\ think[f] = "ReturnFlagThink"
    /\ m_iGoalState[f] = Carried => ~touch[f] /\ think[f] = "FlagCarryThink"
    /\ m_iGoalState[f] = Dropped =>
         touch[f] /\ think[f] \in {"goal_item_dropthink", "ReturnFlag"}

(* The pedestal shows an empty stand exactly while its flag is away, also  *)
(* when the flag is dropped, taken up again and returned by any route.     *)
PedestalShowsFlag ==
  \A f \in Flags : (skin[f] = 0) <=> (m_iGoalState[f] = Home)

(* A flag on the ground does not stay there: somebody takes it, or the     *)
(* return timer brings it home.                                            *)
DroppedFlagLeavesGround ==
  \A f \in Flags : (m_iGoalState[f] = Dropped) ~> (m_iGoalState[f] # Dropped)

(* The return timer of a flag on the ground runs on, whoever dies, leaves, *)
(* is displaced or connects: nothing but the flag's own think changes it,  *)
(* and a flag comes to the ground only out of somebody's hands.            *)
TimerRuns(f) ==
  m_iGoalState'[f] = Dropped =>
    \/ m_iGoalState[f] = Carried
    \/ /\ m_iGoalState[f] = Dropped
       /\ \/ think'[f] = think[f]
          \/ think[f] = "goal_item_dropthink" /\ think'[f] = "ReturnFlag"

ReturnTimerRuns == [][\A f \in Flags : TimerRuns(f)]_vars

(* A flag left with an owner who no longer has any flag, as happens when   *)
(* a slot is taken over during the intermission, is recovered.             *)
AbandonedFlagRecovered ==
  \A f \in Flags, p \in Players :
    (m_iGoalState[f] = Carried /\ owner[f] = p /\ m_iItems[p] = {})
      ~> ~(m_iGoalState[f] = Carried /\ owner[f] = p /\ m_iItems[p] = {})

(* What a player sees of the flags, as the abstract specification has it.  *)
Holder == [f \in Flags |-> IF m_iGoalState[f] = Home    THEN "base"   ELSE
                           IF m_iGoalState[f] = Dropped THEN "ground" ELSE owner[f]]

Custody == INSTANCE CTFCustody WITH holder <- Holder, playing <- ~g_fGameOver

(* While the round is played the flags behave as CTFCustody promises: one  *)
(* flag at a time changes hands, and nobody ever has two.                  *)
ImplementsCustody == Custody!Spec
=============================================================================
