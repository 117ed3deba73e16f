------------------------------ MODULE CTFRound ------------------------------
(***************************************************************************)
(* The end of a Capture the Flag round: a limit is reached, the            *)
(* intermission begins, the statistics go out to the players a few at a    *)
(* time, and the server changes to the next level.                         *)
(*                                                                         *)
(* CHalfLifeCTFplay::Think runs once per frame.  Between frames players    *)
(* come and go, press buttons, and a game_end entity may be used, during   *)
(* the intermission too.  Times are counted in steps of 0.2 seconds, the   *)
(* distance of two messages of statistics.                                 *)
(***************************************************************************)
EXTENDS Naturals, FiniteSets, FiniteSetsExt

CONSTANTS MaxClients,   \* gpGlobals->maxClients
          StatsBatch,   \* 5 in Think: the players whose statistics go out at once
          MinChat,      \* the least and the greatest value GetChatTime returns,
          MaxChat,      \*   1 second and MAX_INTERMISSION_TIME
          ChatTimes     \* the values mp_chattime is set to, before it is clamped

Slots == 1 .. MaxClients

ASSUME RoundAssumption ==
  /\ MaxClients \in Nat \ {0} /\ StatsBatch \in Nat \ {0}
  /\ MinChat \in Nat /\ MaxChat \in Nat /\ MinChat <= MaxChat
  /\ ChatTimes \subseteq Nat /\ ChatTimes # {}

VARIABLES
  seat,           \* seat[s]: no player object ("never"), one of a client who
                  \* is "here", or one of a client who is "gone"
  limit,          \* the limits that are reached, "time", "frags", "captures",
                  \* as long as the round is played; nothing reads them later
  g_fGameOver,
  mp_chattime,
  clock,          \* the time since m_flIntermissionStartTime
  button,         \* m_iEndIntermissionButtonHit
  m_iStatsPhase,
  m_iStatsPlayer,
  wait,           \* the time until m_flNextStatsSend: 0 or 1
  owed            \* history: who is here since the statistics were begun and
                  \* has not been sent his own

statsVars == <<m_iStatsPhase, m_iStatsPlayer, wait, owed>>
gameVars  == <<g_fGameOver, clock, button>>
vars == <<seat, limit, g_fGameOver, mp_chattime, clock, button,
          m_iStatsPhase, m_iStatsPlayer, wait, owed>>

Limits == {"time", "frags", "captures"}
Phases == {"Nothing", "SendTeam0", "SendTeam1", "SendTeam2", "SendPlayers", "OpenMenu"}

TypeOK ==
  /\ seat \in [Slots -> {"never", "here", "gone"}]
  /\ limit \in SUBSET Limits
  /\ g_fGameOver \in BOOLEAN
  /\ mp_chattime \in ChatTimes
  /\ clock \in Nat
  /\ button \in BOOLEAN
  /\ m_iStatsPhase \in Phases
  /\ m_iStatsPlayer \in Slots
  /\ wait \in {0, 1}
  /\ owed \in SUBSET {s \in Slots : seat[s] = "here"}

(* A level begins: new game rules and CWorld::Spawn. *)
Fresh(st, li, over, cl, bu, ph, pl, wa, ow) ==
  /\ st = [s \in Slots |-> "never"] /\ li = {}
  /\ over = FALSE /\ cl = 0 /\ bu = FALSE
  /\ ph = "Nothing" /\ pl = 1 /\ wa = 0 /\ ow = {}

Init ==
  /\ Fresh(seat, limit, g_fGameOver, clock, button, m_iStatsPhase,
           m_iStatsPlayer, wait, owed)
  /\ mp_chattime \in ChatTimes

-----------------------------------------------------------------------------
(* Mutant of GetChatTime: no upper bound. *)
GetChatTime_NoMaximum == IF mp_chattime < MinChat THEN MinChat ELSE mp_chattime

GetChatTime ==
  IF mp_chattime < MinChat THEN MinChat
  ELSE IF mp_chattime > MaxChat THEN MaxChat ELSE mp_chattime

Here == {s \in Slots : seat[s] = "here"}

(* Mutant of GoToIntermission: a second call starts the intermission anew. *)
GoToIntermission_Again ==
  /\ m_iStatsPhase' = "SendTeam0"
  /\ m_iStatsPlayer' = 1
  /\ wait' = 1
  /\ owed' = Here
  /\ limit' = {}
  /\ g_fGameOver' = TRUE /\ clock' = 0 /\ button' = FALSE

(* GoToIntermission of the two rules.  The first part is CTF's: it begins  *)
(* the statistics, also when the game is over already; the second is       *)
(* CHalfLifeMultiplay's, which is not entered twice.                       *)
GoToIntermission ==
  /\ m_iStatsPhase' = "SendTeam0"
  /\ m_iStatsPlayer' = 1
  /\ wait' = 1
  /\ owed' = Here
  /\ limit' = {}
  /\ IF g_fGameOver
     THEN UNCHANGED gameVars
     ELSE g_fGameOver' = TRUE /\ clock' = 0 /\ button' = FALSE

-----------------------------------------------------------------------------
(* The statistics. *)

(* The loop of SendPlayers runs over the slots that have a player object,  *)
(* also those of players who have left, until it has sent StatsBatch + 1.  *)
Rest  == {s \in Slots : s >= m_iStatsPlayer /\ seat[s] # "never"}
Batch == {s \in Rest : Cardinality({r \in Rest : r < s}) <= StatsBatch}

(* m_iStatsPlayer after the loop and the decrement behind it: the last     *)
(* slot that was sent, or MaxClients if the loop ran to its end.           *)
LastOfBatch == IF Cardinality(Batch) > StatsBatch THEN Max(Batch) ELSE MaxClients

(* Mutant of SendPlayers: the decrement behind the loop is an increment.   *)
SendPlayers_SkipsOne ==
  /\ m_iStatsPlayer' = IF LastOfBatch + 2 <= MaxClients THEN LastOfBatch + 2
                                                        ELSE MaxClients
  /\ m_iStatsPhase' = IF MaxClients <= LastOfBatch + 1 THEN "OpenMenu" ELSE "SendPlayers"
  /\ owed' = owed \ Batch

SendPlayers ==
  /\ m_iStatsPlayer' = LastOfBatch
  /\ m_iStatsPhase' = IF MaxClients <= LastOfBatch + 1 THEN "OpenMenu" ELSE "SendPlayers"
  /\ owed' = owed \ Batch

NextPhase == [SendTeam0 |-> "SendTeam1", SendTeam1 |-> "SendTeam2",
              SendTeam2 |-> "SendPlayers", OpenMenu |-> "Nothing"]

(* The first part of Think, dt after the last frame. *)
Statistics(dt) ==
  IF m_iStatsPhase = "Nothing" \/ wait > dt
  THEN wait' = wait - (IF wait > 0 THEN dt ELSE 0)
       /\ UNCHANGED <<m_iStatsPhase, m_iStatsPlayer, owed>>
  ELSE /\ wait' = 1
       /\ IF m_iStatsPhase = "SendPlayers" THEN SendPlayers
          ELSE /\ m_iStatsPhase' = NextPhase[m_iStatsPhase]
               /\ UNCHANGED <<m_iStatsPlayer, owed>>

-----------------------------------------------------------------------------
(* Think.  No statistics are pending before the intermission.              *)

(* Mutant of FrameInPlay: the capture limit is not looked at. *)
FrameInPlay_NoCaptureLimit ==
  /\ ~g_fGameOver
  /\ limit \cap {"time", "frags"} # {}
  /\ GoToIntermission
  /\ UNCHANGED <<seat, mp_chattime>>

FrameInPlay ==
  /\ ~g_fGameOver
  /\ limit # {}
  /\ GoToIntermission
  /\ UNCHANGED <<seat, mp_chattime>>

(* CHalfLifeMultiplay::Think at a time after the start of the intermission *)
MayLeave(now) == now > GetChatTime /\ (button \/ now > MaxChat)

FrameInIntermission(dt) ==
  /\ g_fGameOver
  /\ ~MayLeave(clock + dt)
  /\ clock' = clock + dt
  /\ Statistics(dt)
  /\ UNCHANGED <<seat, limit, g_fGameOver, mp_chattime, button>>

(* Mutant of ChangeLevel: the new level goes on with the old statistics,   *)
(* as if its game rules were not new ones.                                 *)
ChangeLevel_OldRules(dt) ==
  /\ g_fGameOver
  /\ MayLeave(clock + dt)
  /\ seat' = [s \in Slots |-> "never"] /\ limit' = {}
  /\ g_fGameOver' = FALSE /\ clock' = 0 /\ button' = FALSE
  /\ owed' = {}
  /\ UNCHANGED <<mp_chattime, m_iStatsPhase, m_iStatsPlayer, wait>>

ChangeLevel(dt) ==
  /\ g_fGameOver
  /\ MayLeave(clock + dt)
  /\ Fresh(seat', limit', g_fGameOver', clock', button', m_iStatsPhase',
           m_iStatsPlayer', wait', owed')
  /\ UNCHANGED mp_chattime

Frame(dt) == FrameInPlay \/ FrameInIntermission(dt) \/ ChangeLevel(dt)

-----------------------------------------------------------------------------
(* Between frames. *)

(* Captures and kills reach limits, time passes, and a client who connects *)
(* may reset the scores.                                                   *)
LimitsChange ==
  /\ ~g_fGameOver
  /\ limit' \in SUBSET Limits
  /\ UNCHANGED <<seat, mp_chattime, gameVars, statsVars>>

SetChatTime(t) ==
  /\ mp_chattime' = t
  /\ UNCHANGED <<seat, limit, gameVars, statsVars>>

ClientPutInServer(s) ==
  /\ seat[s] # "here"
  /\ seat' = [seat EXCEPT ![s] = "here"]
  /\ UNCHANGED <<limit, mp_chattime, gameVars, statsVars>>

ClientDisconnect(s) ==
  /\ seat[s] = "here"
  /\ seat' = [seat EXCEPT ![s] = "gone"]
  /\ owed' = owed \ {s}
  /\ UNCHANGED <<limit, mp_chattime, gameVars, m_iStatsPhase, m_iStatsPlayer, wait>>

(* PlayerThink, which runs before the game-over test of PreThink. *)
PressButton ==
  /\ g_fGameOver
  /\ Here # {}
  /\ button' = TRUE
  /\ UNCHANGED <<seat, limit, mp_chattime, g_fGameOver, clock, statsVars>>

(* CGameEnd::Use *)
EndMultiplayerGame ==
  /\ GoToIntermission
  /\ UNCHANGED <<seat, mp_chattime>>

Next ==
  \/ \E dt \in {0, 1} : Frame(dt)
  \/ LimitsChange
  \/ \E t \in ChatTimes : SetChatTime(t)
  \/ \E s \in Slots : ClientPutInServer(s) \/ ClientDisconnect(s)
  \/ PressButton
  \/ EndMultiplayerGame

(* The server runs frames, and time passes. *)
Fairness == WF_vars(Frame(1))

Spec     == Init /\ [][Next]_vars
FairSpec == Spec /\ Fairness
-----------------------------------------------------------------------------
(* However often game_end is used, whoever presses or never presses a      *)
(* button, and whatever mp_chattime is set to: the intermission is over    *)
(* after MAX_INTERMISSION_TIME.                                            *)
IntermissionIsBounded == clock <= MaxChat

(* The server gets to the next level. *)
IntermissionEnds == g_fGameOver ~> ~g_fGameOver

(* Nothing sets the clock of an intermission back: game_end, buttons,      *)
(* mp_chattime and connections leave it alone or leave it to the frames,   *)
(* each of which that takes time moves it on or ends the intermission.     *)
ClockRuns ==
  [][g_fGameOver => \/ ~g_fGameOver'
                    \/ clock' >= clock /\ (Frame(1) => clock' > clock)]_vars

(* A limit that stays reached ends the round. *)
LimitEndsRound == (limit # {}) ~> (g_fGameOver \/ limit = {})

(* The statistics begin with an intermission and never outlast it into the *)
(* next round, where they would open the menu over the game.               *)
StatisticsBelongToIntermission == m_iStatsPhase # "Nothing" => g_fGameOver

(* When the menu is opened, everybody who has been here since the          *)
(* statistics were begun has been sent his own, except perhaps the player  *)
(* in the last slot.                                                       *)
OnlyLastSlotIsMissed == m_iStatsPhase = "OpenMenu" => owed \subseteq {MaxClients}

(* What the comment in Think says: statistics are sent until everything    *)
(* has been sent.                                                          *)
EverybodyIsSent == m_iStatsPhase = "OpenMenu" => owed = {}
=============================================================================
