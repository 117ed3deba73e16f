# TLA+ models of the Half-Life Unified SDK

This directory holds TLA+ specifications of parts of the Half-Life Unified SDK,
the TLC configurations that check them on small instances, and TLAPS proofs for
every instance. Paths below are relative to the repository; the game's code is
in `src/game`.

| Module | What it is |
| --- | --- |
| `CTFCustody` | abstract: who has which flag, and what may change it |
| `CTFFlags` | the flag entities, their callbacks, and the players' side of them |
| `CTFFlags_proofs` | its invariants, its timers and its refinement of `CTFCustody`, proved |
| `CTFRound` | the end of a CTF round: limits, intermission, statistics, level change |
| `CTFRound_proofs` | its invariants and the bound of the intermission, proved |
| `MapCycle` | the map cycle and the choice of the next level |
| `MapCycle_proofs` | its invariants, proved |
| `JobQueue` | abstract: jobs are run once and in order until the worker ends |
| `MusicSystem` | the two threads of the client's music player |
| `MusicSystem_proofs` | its invariants, its refinement of `JobQueue` and the bound of its end, proved |
| `SquadRolls` | abstract: whom each monster follows |
| `Squads` | squads of monsters: leader, followers, attack slots |
| `Squads_proofs` | its invariants and its refinement of `SquadRolls`, proved |
| `Doors` | sliding and rotating doors, and doors of several pieces |
| `Doors_proofs` | its invariants and the bound of closing, proved |
| `Possession` | abstract: which monster is in the hands of which script |
| `ScriptedSequences` | scripts that take possession of monsters and act in concert |
| `ScriptedSequences_proofs` | its invariants, an action property and its refinement of `Possession`, proved |
| `MC*` | give the constants values for TLC |

To check a module: `tlc -config MCCTFFlags.cfg MCCTFFlags`; to check its proofs:
`tlapm CTFFlags_proofs.tla`. `PROJECT.json` lists the runs, the lines each
definition models, the mutants that show each property can fail, the hazards
of the code and the findings.

## The system

The repository builds two libraries that the GoldSource engine loads. The
*server* library runs on one thread: the engine calls it once per frame, runs
the think functions of entities whose time has come and the touch functions of
entities that meet, and reports connections and commands of clients. The
*client* library is called once per frame as well; its music player has a
thread of its own. What is hard here is therefore seldom a data race. It is
callbacks that come in any order, state that is recorded in two objects,
entities and players that vanish between two callbacks of one protocol, and
work that is spread over many frames.

| Component | State | Operations | Interacts with | What makes it correct |
| --- | --- | --- | --- | --- |
| CTF flags (`server/entities/ctf/ctf_goals.*`) | goal state, owner, scheduled think, touch function, pedestal | touch, think, return, drop | players' `m_pFlag`, `m_iItems`; game rules | both records of the carrier agree; a flag never falls out of play |
| CTF rules (`server/gamerules/CHalfLifeCTFplay.*`) | team scores, statistics phase, menus | Think, connect, disconnect, kill, team change, intermission | flags, multiplayer rules, player | carriers are live enemies; statistics reach everybody; limits end the round |
| Multiplayer rules (`CHalfLifeMultiplay.*`) | game over, intermission times, button | Think, PlayerThink, ChangeLevel | map cycle, entities such as `game_end` | the intermission ends, once |
| Map cycle (`MapCycleSystem.*`) | entries, position, name of the loaded file | load, next map | cvar, map files, player count | fair to entries, respects limits, names an existing map |
| Music player (`client/sound/MusicSystem.*`) | job queue, flags, fade, OpenAL source | play, stop, pause, resume, block, volume, quit | sound system, `music` command | commands take effect in order; flags agree with what is heard; quits |
| Doors (`server/entities/doors.cpp`, `subs.cpp`) | toggle state, place, callback, think, touch function | use, touch, blocked, reach the end, wait | players, monsters, triggers, the other pieces | never stuck, never deaf; what closes by itself closes |
| Squads (`NPCs/squadmonster.*`) | leader, members, attack slots, enemy | start, recruit, choose a schedule, die, be removed, restore | schedules, saved games | followers and leaders agree; a slot has one holder and is not lost |
| Scripted sequences (`NPCs/scripted.*`, `schedule.cpp`) | who holds whom, start time, count of those awaited; state and task of the monster | use, possess, cancel, arrive, wait, play, end | schedules, damage, followers, saved games | both records of a possession agree; a group acts in concert and does act |
| Game sound system, sound cache | channels, cache | start, stop, update, block | server messages | a channel is not taken twice |
| Buttons, platforms, trains | toggle state, callbacks, locks | use, touch, blocked, reach the end | triggers, players | never stuck between two states |
| Triggers, multi_manager, subs | queues of targets, delays | use, think | every entity | every target is fired once, in order |
| Global state, level change | table of globals, transition entities | set, query, save, restore | save and restore | states survive a transition |
| Monsters: the other schedules, talk | schedule and task, speech | think, speak, follow | each other, navigation | no task without its goal |
| Player, weapons, items | health, inventory, timers | think, spawn, kill, use | rules, prediction | no use after death; client and server agree |
| Configuration, commands, logging, tables | registrations | parse, register, remove | all systems | names resolve to one thing |
| Save and restore, network data | serialised fields | write, read | engine | what is written is read back |
| Rendering, HUD, input, movement, particles | presentation | per frame | engine | outside of what a model checker sees |
| Compile tools (`src/utils`), SDL2 | separate programs, third-party code | | | |

`PROJECT.json` lists every component with its sources and its status.

## CTF flags

`CTFFlags` models `CTFGoalFlag` and everything that reads or writes the custody
of a flag. A flag is a machine of goal state (1 home, 2 carried, 3 dropped), the
touch function and one scheduled think. Who has it is recorded in the flag
(`owner`, which is `pev->owner`) and in the player (`m_pFlag` and the flag bits of
`m_iItems`). One action is one callback of the engine: a touch (`TakeFlag`,
`CaptureFlag`, `ReturnOwnFlag`), a think (`ReturnFlagThink`, `FlagCarryThink`,
`goal_item_dropthink`, `ReturnFlagTimer`), what happens to a player (`Killed`,
`Respawn`, `Displaced`, `Spectate`, `JoinAsSpectator`, `ChangeSides`), connections,
and the round. `ReturnFlag`, `GiveFlagToPlayer` and `DropFlag` are the functions of
these names, called whole by the actions.

Two things in the code make the module more than bookkeeping. `ReturnFlag`
strips the player whom `pev->owner` names and leaves `pev->owner` set. And
during the intermission nothing drops a flag any more: `ClientDisconnect`
returns at once, and a new client may be put into a slot whose former player
carried one. `FlagCarryThink` then finds an owner without a flag and brings the
flag home.

Run `ctf_flags` checks, with two flags and two slots, `CustodyAgreed`,
`HandsHoldTheirFlag`, `CarrierIsLiveEnemy`, `FlagStaysInPlay` and `PedestalShowsFlag`; under weak fairness of every flag's think (the engine
runs a think once its time has come) `DroppedFlagLeavesGround` and
`AbandonedFlagRecovered`; and that the module implements `CTFCustody`. Two slots
are enough for a carrier and an opponent and for a slot taken over beside them;
a third adds a bystander. Nothing but the slots is bounded, so that the state
space is the whole one.

`ReturnTimerRuns` says what the first of the two liveness properties rests on: nothing
but the flag's own think changes the timer of a flag on the ground, so that its next
two thinks bring it home whatever the players do. It is proved and in no run.

Abstracted: positions (any solid live player may touch any flag that has a touch
function), the content of water or sky that decides whether a dropped flag
returns at once, times, and scores. A map is assumed to place one flag for each
of the two teams.

## The end of a round

`CTFRound` models `CHalfLifeCTFplay::Think` and `CHalfLifeMultiplay::Think` frame
by frame. `FrameInPlay` is a frame in which a limit is reached,
`FrameInIntermission(dt)` one that sends statistics and waits, and
`ChangeLevel(dt)` the one that leaves. Between frames limits are reached or reset,
players come and go, somebody presses a button, `mp_chattime` changes, and a
`game_end` entity is used, the last three during the intermission too.

Times are counted in steps of 0.2 seconds, the distance of two messages of
statistics; `dt` is 0 or 1, so that several frames may fall into one step. The
batch of statistics is modelled as the set the loop sends; `StatsBatch` is the
code's 5, of which the loop sends one more. `owed` is a history variable.

Run `ctf_round` has four slots and a `StatsBatch` of 1, so that a full server
needs two batches and the last can end one short of the last slot; an intermission of
at most seven steps, so that it can end before and after the statistics; and chat
times below and above the values they are clamped to. Fairness is that the
server runs frames and time passes (`WF_vars(Frame(1))`).

* `IntermissionIsBounded`, `IntermissionEnds`: `GoToIntermission` of the CTF rules is
  entered again by `game_end`, which must not start the clock again.
  `ClockRuns`, proved and in no run, is what `IntermissionEnds` rests on: no step
  sets the clock back, and each frame that takes time moves it on or ends the intermission.
* `StatisticsBelongToIntermission`, `LimitEndsRound`.
* `OnlyLastSlotIsMissed`: the statistics leave out nobody but perhaps the last
  slot.

**Finding** (`ctf_round_stats`, expected violation). The last slot really is
left out. After a batch `m_iStatsPlayer` is the last slot that was sent, and
`maxClients <= m_iStatsPlayer + 1` ends the statistics when one slot is still to
come. With 7, 12, 17, 22, 27 or 32 slots, all taken, the last player's statistics are
never sent, although the comment at `CHalfLifeCTFplay.cpp:550` says "until we've sent
everything". The run uses the code's constants and seven slots.

## The map cycle

`MapCycle` models `MapCycleSystem` and `CHalfLifeMultiplay::ChangeLevel`. The
cycle is loaded when the cvar `mapcyclejsonfile` names another file than the one
loaded; it keeps the entries whose map exists, and is used, levels later, by
`NextItem`, the two loops of `MapCycle::GetNextMap`. In between maps are installed and
removed and players come and go.

`waited` counts for each entry how often in a row it was suitable and another
one was taken, and `last` remembers whether the last choice was suitable: both
are history variables.

Run `map_cycle` uses cycles of up to four entries with a lower, an upper and no
limit, one of them with the same map twice, three maps, two files and up to three
players: every pass of the loop, the fallback to an unsuitable entry, the empty
cycle and the restart of the current level occur. When no entry is suitable
the code ignores the limits ("No valid map found, use next in list",
`MapCycleSystem.cpp:61`); `SuitableIfAny` says that it does so only then.

## The music player

`MusicSystem` models `sound::MusicSystem` with one action per access to a variable
of the other thread. The game thread issues commands; each becomes a job in a
queue under a mutex. The worker takes the queue if it can get the mutex without
waiting, runs the jobs, feeds the source (`Update`) and sets the gain
(`UpdateVolume`). `m_Enabled`, `m_Playing`, `m_Paused` and the time of the fade are atomics
that no lock guards.

`worker` is the worker's place in `Run`. `Stop`, `Pause` and `Resume` are each a test
(`CallStop` or a job's `Call`), the effect on the source together with the write of
`m_Paused` (`Act`), and the write of `m_Playing` (`SetPlaying`): that is the order the
code writes them in. Volumes are 0 and 1; a fade may leave any gain up to the
volume set. Samples, buffers and file names are left out: `Play(sameFile)` is told whether the
file is the one `m_FileName` names.

* Run `music` (queue of two): `FlagsMatchSource`, and
  `FocusDecidesBlocking`, which needs every `Block` and `Unblock` to be run in
  order. With two jobs queued and two taken, commands can overtake, cancel
  and repeat one another. The run also checks `ImplementsJobQueue`: seen from the game
  thread, the mutex, the list of the queue and the list the worker has taken
  are one queue, from which jobs are run once and in order, and none is lost but to the
  end of the worker. `QuitApproaches`: once `m_Quit` is set, each step of the worker makes
  `StepsLeft` smaller, and no step of the other thread puts it back, so
  that the destructor waits for a bounded number of steps.
* Run `music_live` (queue of one): `StopTakesEffect`, `FadeEndsInSilence`,
  `PlayingIsAudible`, `DestructorReturns`. Fairness: both threads are scheduled, time
  passes, and the worker, which tries the mutex every millisecond while the game
  thread holds it for one insertion, gets it in the end (strong fairness of
  `TakeJobs`). Nobody is assumed to type a command.
* **Finding** (`music_off`, expected violation). `music off` queues a `Stop` and
  then clears `m_Enabled`. When the worker gets to the `Stop` after that, it does
  nothing, since the player is disabled. `docs/features/sound-system.md:56` says that
  `off` "stops any music that is currently playing". The source plays
  what it has been given and `m_Playing` stays true, so that `music on` goes on
  with the old track.

`MaxJobs` bounds the queue; a command waits in the model when it is full. The
code's queue has no bound.

## Squads

`Squads` models `CSquadMonster`. Everything happens on the server's one thread, so
that an action is a whole think or a whole call by the engine: the first think
(`StartMonster`, which recruits), a change of schedule (`MaintainSchedule`: the old
slot is vacated, a new enemy is passed on, and a slot is occupied), a change of schedule
from within (`SetSchedule`), `GetEnemy`, `TakeDamage`, `Killed`, the removal of an entity, and `Restore(R)`, a saved game or a
level change that leaves the monsters of `R` behind. `m_afSquadSlots` is in no data
map and is lost by that; `m_iMySlot` is saved.

What makes squads hard is what the code does with the dead. A named monster
killed before its first think still runs `StartMonster` and may lead; corpses
are recruited by name, and can be killed again. When a leader dies the code
disbands the squad, although the header (`squadmonster.h`) speaks of promoting
another. `VacateSlot` does nothing for a monster outside a squad.

A task may replace the schedule it belongs to (`TASK_SET_SCHEDULE`, `schedule.cpp:617`).
`ScheduleChange` is not called then and no slot is vacated, but the new schedule may ask
for one: the grunts' and the shock troopers' schedule after a grenade takes cover, which on
the hardest skill wants a grenade slot again (`hgrunt.cpp:1214`, `hgrunt.cpp:1858`). `SetSchedule`
is that step, `Grenades` the slots it asks for. `OccupySlot` then overwrites `m_iMySlot`, and the
slot it named stays marked with nobody to give it back.

* Run `squads`: three monsters of one name, two of them flagged as leaders and one
  spawned later, two slots, both of them in `Grenades`, and one enemy. `LiveSquadsAgree`, `SlotExclusive`,
  `NoSlotLeaks`, and `ImplementsRolls`, the refinement of `SquadRolls`: a squad is formed
  at once, of monsters in no squad, and only loses members until it is disbanded. Three monsters are a leader, a follower and a rival. One enemy
  makes a squad split: a follower fights it, its leader nobody. `spoilt` is a history of what the code really
  loses track of: a slot brought along from a former squad ("leftover"), a holder
  removed without being killed ("removed"), a slot overwritten by another ("overwritten"), a
  restored game ("restored"). `NoSlotLeaks` admits "removed" and "overwritten" alone: these are
  the two ways in which a squad loses a slot for good. The properties are claimed for squads to which that has not happened, and each
  exception is one the code needs.
* **Finding** (`squad_lists`, expected violation). `SquadRemove` searches the
  leader's list for `this`, the leader, instead of `pRemove` (`squadmonster.cpp:136`): a
  follower that dies stays in the list.

Nothing bounds the run but its constants. There is no liveness to state: nothing in
a squad has to happen.

## Doors

`Doors` models `CBaseDoor` and `CRotDoor` over `LinearMove` and `AngularMove`. A door is a
record of its toggle state, its place, where it was sent, the callback of its
arrival, its one pending think (the end of a move or of the wait at the top) and whether
it has a touch function. The member functions are operators from such a record to
the next, called as the code calls them: `DoorActivate`, `DoorGoUp`, `DoorGoDown`, `Move`
(which ends at once when the door is already there), `MoveDone`, `DoorHitTop`,
`DoorHitBottom`. The actions are what the engine and the world call: `DoorTouch`, `Use` of any
set of pieces at once, `Push` (a frame of movement), `Think`, and `Blocked`, which
turns round the door and then every other piece of the same targetname.

`StartOpen` are the rotating doors with `SF_DOOR_START_OPEN`. The comment of `CRotDoor::Spawn` says
"swap pos1 and pos2, put door at pos2" (`doors.cpp:629`), but the code puts the door at
`m_vecAngle2` first and then assigns `m_vecAngle1` to it before it saves it, so that both angles
are those of the closed door. Such a door stands open while its toggle state is that of a
closed one. The first use turns it shut, as it should; from then on it is where both ends are, each
later move ends at once, and it never opens again. In the model `Tops` of such a door is
its bottom and `Spawned` puts it at its top. A sliding door is swapped well (`doors.cpp:281`) and
like any other.

* Run `doors`: a gate that swings both ways, a toggle door that starts open, and
  a door of two pieces, one sliding, opened by use only and closing by itself, the other
  swinging and staying open. Two blocks: the first sets the pieces against each
  other, the second meets them so. `NoDoorStranded`, which excepts a door that starts open until it
  is first moved, `RestingDoorListens`, and, under
  weak fairness of every door's think (the engine runs it when it is due),
  `AutoReturnCloses`. `ClosingApproaches` is its safety core: while a door that closes by
  itself is not closed, each step that changes it, but for moving it along, makes `ToClose`
  smaller, which counts the blocks still to come, the one touch that can turn it and
  the stations left. Nobody is assumed to touch anything, and there may be touches and uses
  without end. `MaxBlocks` bounds the blocks, which matters to `AutoReturnCloses` only: a
  door that is blocked for ever never closes.
* **Finding** (`doors_touch`, expected violation). `DoorTouch` takes the touch
  function away after `DoorActivate` ("Temporarily disable the touch function, until
  movement is finished", `doors.cpp:361`), but a door that has been told to close and
  has not moved yet is told to go up, is there already, and `DoorHitTop` has
  re-instated the touch function by then: the door rests open and deaf. The same order of calls
  makes a toggle door that starts open deaf, without any race: it is there already whenever it is
  touched after its first move. `RestingDoorListens` says that a door comes to rest deaf only
  when the touch found it where it sent it to; `raced` is the history of that. In the run
  no door starts open, and a toggle door (`hatch`) shows the race. The wrong swap has no
  run of its own: `MCDoors` has such a door, and the exceptions of the two invariants are what it does.

Left out: masters (a call that a master stops is a step not taken), what doors fire
(`Use` comes at any time), the second, corrected move of a door that arrives
inexactly, health, sounds, momentary doors and buttons.

## Scripted sequences

`ScriptedSequences` models a group of `scripted_sequence` entities with one
targetname, and the monsters they may take. A script looks for a monster
(`PossessEntity`, or `FindNobody`, which cancels the group), the monster takes up the
script's schedule when it thinks (`NewSchedule`), walks to the mark (`EnableScript` counts
it out) or fails to get there (`TaskFail`), waits for the others (`WaitForScript`), and plays
(`SequenceDone`). Meanwhile it may be shot (`TakeDamage`, `ExitScriptedSequence`), killed outside
the script state, asked to follow, removed, or be in a restored game (`PostRestore`: schedules
are not saved). If it is in `Prey` a barnacle may catch it (`FBecomeProne`), bite it
(`BarnacleVictimBitten`) and, when it is killed, let it go (`BarnacleVictimReleased`). A
monster's `task` is where it is in the script's schedule; its state `idle` stands for ALERT
too; `started` is that `m_startTime` has come. `CineCleanup` and `CancelScript` leave the
monster's schedule to its next think, so that one that is possessed again before
that goes on with the old one: the model keeps the task through both.

A walk that fails does not end the script. `TASK_FAILED` is in the interrupt mask of no script
schedule, so that `IScheduleFlags` hides it from `GetIdealState`; `MaintainSchedule` runs
`slFail` in the script state (`schedule.cpp:207`), and after it the script's schedule from the start, with
the monster still counted as on its way. Nothing bounds how often that happens.

A barnacle's tongue calls `FBecomeProne` on any live monster it reaches that is its enemy, which sets the ideal
state to PRONE and tests neither the state nor `m_pCine` (`monsters.cpp:815`). A monster in the
script state leaves it with its next schedule, while the script goes on to have it; one that was
caught before and is possessed while it hangs may be given the barnacle's schedule in the script
state (task `chomp`), which nothing ends.

* Run `scripts`: two scripts with a mark, `greet` repeatable and with an idle animation, so that it takes
  its monster at once, and `enter`, which is used and removed at its end; two monsters, one that a
  barnacle can reach and both scripts may take, and one in a squad; two possessions (`MaxTurns`),
  so that both are taken or one is taken again; one restored game (`MaxRestores`). Deadlock is allowed:
  when the scripts have run out and the monsters are gone nothing is left to do.
* `PossessionMutual`: `m_pCine` and `m_hTargetEnt` name each other. `m_pCine` is a plain
  pointer, and a script is deleted a tenth of a second after its end.
* `ScriptedHaveCine`: the ASSERT of `schedule.cpp:1481`.
* `DelayCounts`, `InConcert`: `m_iDelay` of every script of the group is the number of
  monsters on their way, and nobody plays before it is right. The history `spoilt`
  names the two ways in which the code miscounts: a monster that leaves the script
  before it arrives, by whatever way, is never counted out ("late"), and one that walks to its mark again
  after a restored game, or with a schedule left over from another script, is counted out twice
  ("early").
* `ActorsStay`: nothing makes a monster want to leave the script state while the script has
  it; `CineCleanup` is what ends it. There are two exceptions, named one by one: a member of a squad
  that is shot wants to hunt at once (`squadmonster.cpp:540`), and the prey of a barnacle wants to be
  prone when it is caught and idle when it is released. Both leave a script that still has them.
* `NobodyWaitsInVain`: as long as somebody of the group is on its way or waits, somebody
  of it has a step to take, unless "late" happened. The step may be a walk that fails. It is the safety core of `WalkersPlay`.
* `ImplementsPossession`, the refinement of `Possession`, is proved and in no run: checking
  it over this run's states takes TLC longer than the rest of the run.
* `WalkersPlay`, under weak fairness of each monster's `MaintainSchedule`: every monster
  thinks, a walk ends at the mark or fails, and animations end. Nothing says that walks succeed in the
  end, and the code does not see to it, so the property is that whoever is held arrives and
  plays or is let go, unless "late" happened or somebody's walk fails; a group that is held up for ever
  without "late" is one in which walks fail for ever.

Left out: aiscripted_sequence and the override of states, scripts without a name,
with an empty animation or with a moveto of 4 or 5, animations of death, scripts that
something else removes, scripted sentences, and a level change that takes the monster along and
leaves its script behind (`scripted.h:81` keeps scripts from crossing levels), after which `m_pCine` is
null in the script state. Of barnacles: that two reach for one monster at once, and that a monster is
bitten or released when it has died meanwhile. What a bitten monster does outside the script state
is no part of a script.

## What is proved

The proofs assume only the named assumptions on the constants:
`PlayersAssumption`, `RoundAssumption`, `MapCycleAssumption`, `MusicAssumption`,
`MonstersAssumption`, `SizesAssumption`, `DoorsAssumption`, `BlocksAssumption`, `ScriptsAssumption`.

`TypeOK` of every module is proved, and is no property of a run: every invariant
below rests on it.

* `CTFFlags_proofs`, for any number of slots: `CustodyAgreed`, `HandsHoldTheirFlag`,
  `CarrierIsLiveEnemy`, `FlagStaysInPlay`, `PedestalShowsFlag`, and
  `FlagsImplementCustody`, the refinement of `CTFCustody`. These invariants are inductive
  together with facts about slots that hold also in the intermission: agreement of
  the two records, for instance, needs to know that an owner who lost his
  flag is found by `FlagCarryThink` and not by a second carrier. `TimersRun` proves
  `ReturnTimerRuns` from them: a death drops the flag that `m_pFlag` names, and
  `HandsHoldTheirFlag` says that this one is not on the ground already.
* `CTFRound_proofs`, for any number of slots, any size of the batches and any chat
  times: `IntermissionIsBounded`, `StatisticsBelongToIntermission`,
  `OnlyLastSlotIsMissed`. The strengthening is `NobodyBelowIsOwed`: while
  statistics are being sent, nobody below `m_iStatsPlayer` is owed his own.
  `BatchLeavesTheEnd` shows that what a batch leaves over lies behind its last slot.
  `IntermissionsRunOut` proves `ClockRuns` and that the clock stays within `MaxChat`:
  together they bound the number of frames of an intermission that take time.
* `MapCycle_proofs`, for any cycle: `NoEntryStarves`, `SuitableIfAny`,
  `CurrentMapExists`, `LoopsAreOneWalk`. The strengthening is `WaitedBelowDistance`:
  the choices an entry has waited for and its distance from the position round the
  cycle stay below the length of the cycle. `GetNextMap` takes the nearest suitable
  entry (`NextItemIsNearest`), so that every other one comes nearer by at
  least the step it waits.
* `MusicSystem_proofs`, for any length of the queue: `FlagsMatchSource`,
  `FocusDecidesBlocking`. `FlagsAgree` extends the first of the two properties to the
  places inside an operation. The second needs `FocusWillDecide`: the last `Block` or
  `Unblock` on its way to the worker (being worked off, queued, or about to be
  queued) says whether the window has the focus, and without one `m_Blocked` does.
  `WillBeAfterAppend` and `WillBeAfterTail` are what it takes about sequences.
  `MusicImplementsJobQueue` is the refinement of `JobQueue`. It needs `NothingLeftTodo`: outside
  the loop over the jobs nothing that was taken is left, so that the assignment of the
  queue to the worker's list loses no job. `DestructorWaitsBounded` proves `QuitApproaches`
  and that `StepsLeft` is a natural number: the number of steps the destructor waits
  for is bounded by the length of the list the worker was caught with.
* `Squads_proofs`, for any monsters, names, slots and sizes: `LiveSquadsAgree`, `SlotExclusive`,
  `NoSlotLeaks`, with the exceptions `spoilt` names. They are inductive together with `UnbornUnknown` (nothing refers to a
  monster before it is spawned), `LeadersStarted` (a squad begins with no slot marked) and
  `NoPairs` (no two monsters lead each other, corpses included). Each action has a
  lemma that says what it does to the variables, and the invariants are proved from these.
  `SquadsImplementRolls` is the refinement of `SquadRolls`, action by action from the same
  lemmas.
* `Doors_proofs`, for any doors, flags (those that start open included), pieces and number of
  blocks: `NoDoorStranded`, `RestingDoorListens`. `Settled` says of one door's record what the first says of every
  door; the lemmas `GoUp`, `GoDown` and so on show it of what each member function returns,
  whatever state it finds. `DoorsClose` proves `ClosingApproaches` and `CloseInSight`:
  `ToClose` is a natural number, and a door that has not closed yet has a think to come.
* `ScriptedSequences_proofs`, for any finite set of monsters, any scripts and casts:
  `PossessionMutual`, `ScriptedHaveCine`, `DelayCounts`, and the action property `InConcert`. The
  first two are inductive with the types; `DelayCounts` rests on them and on lemmas about
  how the number of walkers changes when somebody is possessed, arrives or leaves;
  `InConcert` follows from `DelayCounts` in the state before the step. `ActorsStay`
  is inductive with these and with the fact that only `Prey` is caught; the steps that shoot, catch,
  bite and release a monster share one lemma (`TouchedFields`) on what they leave alone. `NobodyWaitsInVain` takes the count as well, and two more
  invariants: `TasksFit` (who has a task of a script is in the script state) and
  `StartedOrAwaited` (the script of somebody who waits has been started or still counts
  somebody): with a delay above zero `DelayCounts` names a walker, who has a step to take;
  with none the one who waits may begin. `ScriptsImplementPossession` is the
  refinement of `Possession`: a monster is in the hands of one script at a time, of one
  that may take it, and passes from one to the other only by being let go.

Only model-checked are the liveness properties, since fairness is beyond the prover. For
five of the ten a theorem states the safety half of the argument, so that only the
step from "each fair step brings it nearer" to "it arrives" is left to TLC:

| Liveness | Run | Its safety half |
| --- | --- | --- |
| `DroppedFlagLeavesGround` | `ctf_flags` | `TimersRun` |
| `AbandonedFlagRecovered` | `ctf_flags` | |
| `IntermissionEnds` | `ctf_round` | `IntermissionsRunOut` |
| `LimitEndsRound` | `ctf_round` | |
| `StopTakesEffect`, `FadeEndsInSilence` | `music_live` | |
| `PlayingIsAudible` | `music_live` | |
| `DestructorReturns` | `music_live` | `DestructorWaitsBounded` |
| `AutoReturnCloses` | `doors` | `DoorsClose` |
| `WalkersPlay` | `scripts` | `NobodyIsForgotten` |

## Plan, and what is not modelled

The modules were written in this order: flags with their abstract custody, round,
map cycle, music player, squads, doors, scripted sequences. The order follows where
the code records one fact twice, spreads one protocol over many callbacks, or runs two
threads; each of these parts is now modelled and its invariants are proved. Four of them
are proved to implement an abstract specification as well.

Still to be proved: that `MapCycle` implements a fair choice from a set of
entries, with the length of the cycle as the bound of the wait; that statistics reach
everybody but the last slot before a long enough intermission ends; an abstract
specification of one door, and of the attack slots of a squad; a ranking function for
`StopTakesEffect` like those of `QuitApproaches` and `ClosingApproaches`.

Candidates for further modules, all smaller: team and player scores of CTF with their
bonuses (a capture during the intermission still scores, since `goal_item_touch` does
not test `g_fGameOver`); `multi_manager` and delayed use; monster makers; the control of
a tank by one player; the channels of the client's sound system. aiscripted_sequence
would extend `ScriptedSequences`, buttons and platforms `Doors`.

Not modelled: geometry, physics, animation, rendering, parsing, logging, the
compile tools and third-party code, which are most of the repository's lines. They are
data or presentation, or out of a model checker's reach. `PROJECT.json` gives the
reason for each component, and a note for each hazard that no property covers.
