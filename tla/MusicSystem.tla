---------------------------- MODULE MusicSystem ----------------------------
(***************************************************************************)
(* The music player of the client (sound::MusicSystem).  The game thread   *)
(* issues commands; all of OpenAL is used on a worker thread only.  A      *)
(* command becomes a job in a queue that a mutex guards; the worker takes  *)
(* the whole queue when it can get the mutex without waiting, runs the     *)
(* jobs, feeds the source and updates the volume, and sleeps.              *)
(*                                                                         *)
(* The two threads also share atomics that no lock guards: m_Enabled,      *)
(* which only the game thread writes and each job reads when it runs,      *)
(* m_Playing and m_Paused, which only the worker writes and Play reads,    *)
(* and the end of the fade, which both write.  One action is one access to *)
(* a variable of the other thread.                                         *)
(***************************************************************************)
EXTENDS Integers, Sequences

CONSTANT MaxJobs     \* bound: the queue holds no more jobs than this

ASSUME MusicAssumption == MaxJobs \in Nat \ {0}

Volumes == {0, 1}    \* the MP3Volume setting: silent or audible
Jobs    == {"Start", "Stop", "Pause", "Resume", "Block", "Unblock"}

VARIABLES
  \* the game thread
  game,         \* "idle", "is_paused" in Play, "queue" or "queue_then_off" in
                \* RunOnWorkerThread, "off" after it, "joining" and "gone"
  call,         \* the job it is queueing
  m_Enabled,    \* written by the music command, read by the jobs
  ssBlocked,    \* SoundSystem::m_Blocked
  cvar,         \* the value of MP3Volume
  fade,         \* m_FadeStartTime: "none", "running" or "over"
  m_Jobs,       \* the queue
  \* the worker thread
  worker,       \* where it is in Run
  ret,          \* where it goes on after Stop, Pause or Resume
  todo,         \* m_JobsToExecute
  m_Playing,
  m_Paused,
  m_Blocked,
  m_Volume,     \* -1 forces the next UpdateVolume to act
  source,       \* the OpenAL source: "stopped", "playing" or "paused"
  gain          \* the gain of the OpenAL listener

gameVars   == <<m_Enabled, ssBlocked, cvar>>
flagVars   == <<m_Playing, m_Paused>>
soundVars  == <<m_Blocked, m_Volume, source, gain>>
workerVars == <<worker, ret, todo, flagVars, soundVars>>
vars == <<game, call, m_Enabled, ssBlocked, cvar, fade, m_Jobs, worker, ret,
          todo, m_Playing, m_Paused, m_Blocked, m_Volume, source, gain>>

(* Mutant of m_Quit: the destructor sets it after it has joined the worker. *)
m_Quit_AfterJoin == game = "gone"

m_Quit == game \in {"joining", "gone"}

TypeOK ==
  /\ game \in {"idle", "is_paused", "queue", "queue_then_off", "off",
               "joining", "gone"}
  /\ call \in Jobs
  /\ m_Enabled \in BOOLEAN /\ ssBlocked \in BOOLEAN /\ cvar \in Volumes
  /\ fade \in {"none", "running", "over"}
  /\ m_Jobs \in Seq(Jobs) /\ Len(m_Jobs) <= MaxJobs
  /\ todo \in Seq(Jobs)   /\ Len(todo) <= MaxJobs
  /\ worker \in {"run", "top", "jobs", "stop", "pause", "resume",
                 "not_playing", "playing", "restart", "load", "begin",
                 "started", "start_failed", "update", "volume",
                 "forced_volume", "exit"}
  /\ ret \in {"top", "jobs", "load", "volume"}
  /\ m_Playing \in BOOLEAN /\ m_Paused \in BOOLEAN /\ m_Blocked \in BOOLEAN
  /\ m_Volume \in Volumes \cup {-1} /\ gain \in Volumes
  /\ source \in {"stopped", "playing", "paused"}

(* After Create: the worker thread has been started. *)
Init ==
  /\ game = "idle" /\ call = "Stop" /\ m_Enabled = TRUE /\ ssBlocked = FALSE
  /\ cvar \in Volumes /\ fade = "none" /\ m_Jobs = <<>>
  /\ worker = "run" /\ ret = "top" /\ todo = <<>>
  /\ m_Playing = FALSE /\ m_Paused = FALSE /\ m_Blocked = FALSE
  /\ m_Volume = -1 /\ source = "stopped" /\ gain = 1

-----------------------------------------------------------------------------
(* The game thread. *)

(* A command begins to queue a job for the worker: RunOnWorkerThread takes *)
(* the mutex, appends and releases it.  The mutex is held at some time     *)
(* between Queue and Push.                                                 *)
Queue(job, at) ==
  /\ Len(m_Jobs) < MaxJobs
  /\ call' = job
  /\ game' = at

Queueing == game \in {"queue", "queue_then_off"}

(* Mutant of Push: the job is inserted in front of the others. *)
Push_InFront ==
  /\ Queueing
  /\ m_Jobs' = <<call>> \o m_Jobs
  /\ game' = IF game = "queue" THEN "idle" ELSE "off"
  /\ call' = "Stop"
  /\ UNCHANGED <<gameVars, fade, workerVars>>

Push ==
  /\ Queueing
  /\ m_Jobs' = Append(m_Jobs, call)
  /\ game' = IF game = "queue" THEN "idle" ELSE "off"
  /\ call' = "Stop"
  /\ UNCHANGED <<gameVars, fade, workerVars>>

(* Play of the file m_FileName names, or of another one.  The file that    *)
(* plays or is paused already is not started again; m_Paused is read only  *)
(* if m_Playing is false.  That nothing plays or is paused while           *)
(* m_FileName is still empty makes the choice exact.                       *)
Play(sameFile) ==
  /\ game = "idle"
  /\ IF sameFile
     THEN IF m_Playing THEN UNCHANGED <<game, call>>
          ELSE Len(m_Jobs) < MaxJobs /\ game' = "is_paused" /\ UNCHANGED call
     ELSE Queue("Start", "queue")
  /\ UNCHANGED <<gameVars, fade, m_Jobs, workerVars>>

PlayReadsPaused ==
  /\ game = "is_paused"
  /\ IF m_Paused THEN game' = "idle" /\ UNCHANGED call ELSE Queue("Start", "queue")
  /\ UNCHANGED <<gameVars, fade, m_Jobs, workerVars>>

(* The stop, pause and resume commands, the Stop of a disconnection, and   *)
(* the Pause and Resume with which SoundSystem follows the game's pause.   *)
Command(job) ==
  /\ game = "idle"
  /\ Queue(job, "queue")
  /\ UNCHANGED <<gameVars, fade, m_Jobs, workerVars>>

(* SoundSystem::Block and Unblock follow the focus of the window.          *)
FocusChanges ==
  /\ game = "idle"
  /\ Queue(IF ssBlocked THEN "Unblock" ELSE "Block", "queue")
  /\ ssBlocked' = ~ssBlocked
  /\ UNCHANGED <<m_Enabled, cvar, fade, m_Jobs, workerVars>>

MusicOn ==
  /\ game = "idle"
  /\ m_Enabled' = TRUE
  /\ UNCHANGED <<game, call, ssBlocked, cvar, fade, m_Jobs, workerVars>>

MusicReset ==
  /\ game = "idle"
  /\ m_Enabled' = TRUE
  /\ Queue("Stop", "queue")
  /\ UNCHANGED <<ssBlocked, cvar, fade, m_Jobs, workerVars>>

(* The Stop is queued first and m_Enabled is cleared after it.             *)
MusicOff ==
  /\ game = "idle"
  /\ Queue("Stop", "queue_then_off")
  /\ UNCHANGED <<gameVars, fade, m_Jobs, workerVars>>

MusicOffDisables ==
  /\ game = "off"
  /\ game' = "idle"
  /\ m_Enabled' = FALSE
  /\ UNCHANGED <<call, ssBlocked, cvar, fade, m_Jobs, workerVars>>

MusicFadeout ==
  /\ game = "idle"
  /\ fade' = "running"
  /\ UNCHANGED <<game, call, gameVars, m_Jobs, workerVars>>

SetVolume(v) ==
  /\ game = "idle"
  /\ cvar' = v
  /\ UNCHANGED <<game, call, m_Enabled, ssBlocked, fade, m_Jobs, workerVars>>

(* The destructor; the jobs still queued are discarded. *)
Destroy ==
  /\ game = "idle"
  /\ game' = "joining"
  /\ UNCHANGED <<call, gameVars, fade, m_Jobs, workerVars>>

Joined ==
  /\ game = "joining"
  /\ worker = "exit"
  /\ game' = "gone"
  /\ UNCHANGED <<call, gameVars, fade, m_Jobs, workerVars>>

-----------------------------------------------------------------------------
(* The world: time, and a source that has played all it was given.         *)
FadeEnds ==
  /\ fade = "running"
  /\ fade' = "over"
  /\ UNCHANGED <<game, call, gameVars, m_Jobs, workerVars>>

Underrun ==
  /\ source = "playing"
  /\ source' = "stopped"
  /\ UNCHANGED <<game, call, gameVars, fade, m_Jobs, worker, ret, todo,
                 flagVars, m_Blocked, m_Volume, gain>>

-----------------------------------------------------------------------------
(* The worker thread. *)
Goto(w) == worker' = w /\ UNCHANGED ret

(* Acting at w and then going on at r, if a job finds that it may act. *)
Call(may, w, r) ==
  IF may THEN worker' = w /\ ret' = r ELSE Goto(r)

(* Stop tests the flags here and acts in later steps. *)
CallStop(r) == Call(m_Enabled /\ (m_Playing \/ m_Paused), "stop", r)

(* No variable of the game thread is written. *)
WorkerOnly == UNCHANGED <<game, call, gameVars>>

RunStarts ==
  /\ worker = "run"
  /\ Goto("top") \/ Goto("exit")   \* alcSetThreadContext may fail
  /\ WorkerOnly /\ UNCHANGED <<fade, m_Jobs, todo, flagVars, soundVars>>

RunQuits ==
  /\ worker = "top"
  /\ m_Quit
  /\ Goto("exit")
  /\ WorkerOnly /\ UNCHANGED <<fade, m_Jobs, todo, flagVars, soundVars>>

(* Mutants of TakeJobs: m_Jobs is copied and not swapped with the empty    *)
(* list; the jobs still queued are run at the end.                         *)
TakeJobs_Copies ==
  /\ worker = "top"
  /\ ~m_Quit
  /\ todo' = m_Jobs
  /\ Goto("jobs")
  /\ WorkerOnly /\ UNCHANGED <<fade, m_Jobs, flagVars, soundVars>>

TakeJobs_UntilEmpty ==
  /\ worker = "top"
  /\ m_Jobs # <<>> \/ ~m_Quit
  /\ todo' = m_Jobs
  /\ m_Jobs' = <<>>
  /\ Goto("jobs")
  /\ WorkerOnly /\ UNCHANGED <<fade, flagVars, soundVars>>

(* m_Jobs is swapped with m_JobsToExecute, which is empty here. *)
TakeJobs ==
  /\ worker = "top"
  /\ ~m_Quit
  /\ todo' = m_Jobs
  /\ m_Jobs' = <<>>
  /\ Goto("jobs")
  /\ WorkerOnly /\ UNCHANGED <<fade, flagVars, soundVars>>

(* try_lock fails: the loop goes on without new jobs. *)
TakeNoJobs ==
  /\ worker = "top"
  /\ Queueing
  /\ Goto("jobs")
  /\ WorkerOnly /\ UNCHANGED <<fade, m_Jobs, todo, flagVars, soundVars>>

JobsDone ==
  /\ worker = "jobs"
  /\ todo = <<>>
  /\ Goto("update")
  /\ WorkerOnly /\ UNCHANGED <<fade, m_Jobs, todo, flagVars, soundVars>>

NextJob(job) ==
  /\ worker = "jobs"
  /\ todo # <<>>
  /\ Head(todo) = job
  /\ todo' = Tail(todo)
  /\ WorkerOnly /\ UNCHANGED <<fade, m_Jobs, flagVars, m_Volume, source>>

(* Mutant of RunStop: a track that is paused is not stopped. *)
RunStop_UnlessPaused ==
  /\ NextJob("Stop")
  /\ Call(m_Enabled /\ m_Playing, "stop", "jobs")
  /\ UNCHANGED <<m_Blocked, gain>>

RunStop   == /\ NextJob("Stop")
             /\ CallStop("jobs")
             /\ UNCHANGED <<m_Blocked, gain>>
RunPause  == /\ NextJob("Pause")
             /\ Call(m_Enabled /\ m_Playing, "pause", "jobs")
             /\ UNCHANGED <<m_Blocked, gain>>
RunResume == /\ NextJob("Resume")
             /\ Call(m_Enabled /\ m_Paused, "resume", "jobs")
             /\ UNCHANGED <<m_Blocked, gain>>
RunBlock  == /\ NextJob("Block")
             /\ m_Blocked' = TRUE
             /\ gain' = 0
             /\ Goto("jobs")
(* Mutant of RunUnblock: the volume is left to the next Update. *)
RunUnblock_LeavesGain ==
  /\ NextJob("Unblock")
  /\ m_Blocked' = FALSE
  /\ Goto("jobs")
  /\ UNCHANGED gain
RunUnblock == /\ NextJob("Unblock")
              /\ m_Blocked' = FALSE
              /\ Goto("forced_volume")
              /\ UNCHANGED gain
(* StartPlaying stops what plays or is paused; that Stop tests m_Enabled   *)
(* once more.                                                              *)
RunStart  == /\ NextJob("Start")
             /\ Goto(IF ~m_Enabled THEN "jobs"
                     ELSE IF m_Playing \/ m_Paused THEN "restart" ELSE "load")
             /\ UNCHANGED <<m_Blocked, gain>>

Restart ==
  /\ worker = "restart"
  /\ CallStop("load")
  /\ WorkerOnly /\ UNCHANGED <<fade, m_Jobs, todo, flagVars, soundVars>>

Load ==
  /\ worker = "load"
  /\ fade' = "none"
  /\ m_Volume' = -1
  /\ Goto("begin")
  /\ WorkerOnly /\ UNCHANGED <<m_Jobs, todo, flagVars, m_Blocked, source, gain>>

(* The file cannot be read, or its first second is given to the source.    *)
(* A file without samples leaves the source without anything to play.      *)
Begin ==
  /\ worker = "begin"
  /\ \/ Goto("jobs") /\ UNCHANGED source
     \/ Goto("started") /\ source' \in {"playing", "stopped"}
  /\ WorkerOnly /\ UNCHANGED <<fade, m_Jobs, todo, flagVars, m_Blocked, m_Volume, gain>>

(* m_Playing is set; an OpenAL error stops the music again.  m_Volume is   *)
(* -1 since Load, so StartPlaying never gets to its Pause.                 *)
Started ==
  /\ worker = "started"
  /\ m_Playing' = TRUE
  /\ Goto("jobs") \/ Goto("start_failed")
  /\ WorkerOnly /\ UNCHANGED <<fade, m_Jobs, todo, m_Paused, soundVars>>

StartFailed ==
  /\ worker = "start_failed"
  /\ CallStop("jobs")
  /\ WorkerOnly /\ UNCHANGED <<fade, m_Jobs, todo, flagVars, soundVars>>

(* The acting half of Stop, Pause and Resume: all three write m_Paused     *)
(* first and m_Playing after it.                                           *)
Act(w, s, p, then) ==
  /\ worker = w
  /\ source' = s
  /\ m_Paused' = p
  /\ Goto(then)
  /\ WorkerOnly /\ UNCHANGED <<fade, m_Jobs, todo, m_Playing, m_Blocked, m_Volume, gain>>

(* Mutant of StopActs: the flags are cleared, the source plays on. *)
StopActs_FlagsOnly == Act("stop", source, FALSE, "not_playing")

StopActs   == Act("stop", "stopped", FALSE, "not_playing")
PauseActs  == Act("pause", IF source = "playing" THEN "paused" ELSE source, TRUE,
                  "not_playing")
ResumeActs == Act("resume", "playing", FALSE, "playing")

SetPlaying ==
  /\ worker \in {"playing", "not_playing"}
  /\ m_Playing' = (worker = "playing")
  /\ worker' = ret
  /\ ret' = "top"
  /\ WorkerOnly /\ UNCHANGED <<fade, m_Jobs, todo, m_Paused, soundVars>>

(* Update: the source may be short of samples (it is fed and, if it has    *)
(* run dry, started again), the track may have come to its end, and OpenAL *)
(* may report an error.  Only the first and the last go on to the volume.  *)
AfterFeeding == IF m_Blocked THEN "top" ELSE "volume"

Update ==
  /\ worker = "update"
  /\ IF ~m_Enabled THEN Goto("top") /\ UNCHANGED source
     ELSE IF ~m_Playing THEN Goto(AfterFeeding) /\ UNCHANGED source
     ELSE \/ Goto(AfterFeeding) /\ source' \in {source, "playing"}
          \/ CallStop("top") /\ UNCHANGED source
          \/ CallStop(AfterFeeding) /\ UNCHANGED source
  /\ WorkerOnly /\ UNCHANGED <<fade, m_Jobs, todo, flagVars, m_Blocked, m_Volume, gain>>

(* Mutant of UpdateVolume: the end of a fade is tested but nothing is      *)
(* stopped.                                                                *)
UpdateVolume_NeverStops(w, r, force) ==
  /\ worker = w
  /\ Goto(r)
  /\ m_Volume' = cvar
  /\ gain' \in IF fade = "none" THEN {cvar} ELSE 0 .. cvar
  /\ WorkerOnly /\ UNCHANGED <<fade, m_Jobs, todo, flagVars, m_Blocked, source>>

(* UpdateVolume: a fade that is over stops the music and leaves the gain   *)
(* as it is; one that is running scales it.                                *)
UpdateVolume(w, r, force) ==
  /\ worker = w
  /\ IF fade = "over"
     THEN CallStop(r) /\ UNCHANGED <<m_Volume, gain>>
     ELSE /\ Goto(r)
          /\ m_Volume' = cvar
          /\ gain' \in IF fade = "running"             THEN 0 .. cvar
                       ELSE IF force \/ m_Volume # cvar THEN {cvar} ELSE {gain}
  /\ WorkerOnly /\ UNCHANGED <<fade, m_Jobs, todo, flagVars, m_Blocked, source>>

UpdateVolumeInLoop    == UpdateVolume("volume", "top", FALSE)
UpdateVolumeOfUnblock == UpdateVolume("forced_volume", "jobs", TRUE)

-----------------------------------------------------------------------------
GameCommands ==
  \/ \E sameFile \in BOOLEAN : Play(sameFile)
  \/ \E job \in {"Stop", "Pause", "Resume"} : Command(job)
  \/ FocusChanges
  \/ MusicOn \/ MusicReset \/ MusicOff \/ MusicFadeout
  \/ \E v \in Volumes : SetVolume(v)
  \/ Destroy

(* What the game thread does once it has begun a command. *)
GameGoesOn == Push \/ PlayReadsPaused \/ MusicOffDisables \/ Joined

Environment == FadeEnds \/ Underrun

Worker ==
  \/ RunStarts \/ RunQuits \/ TakeJobs \/ TakeNoJobs \/ JobsDone
  \/ RunStop \/ RunPause \/ RunResume \/ RunBlock \/ RunUnblock \/ RunStart
  \/ Restart \/ Load \/ Begin \/ Started \/ StartFailed
  \/ StopActs \/ PauseActs \/ ResumeActs \/ SetPlaying
  \/ Update \/ UpdateVolumeInLoop \/ UpdateVolumeOfUnblock

(* Both threads are gone. *)
Terminated == game = "gone" /\ UNCHANGED vars

Next == GameCommands \/ GameGoesOn \/ Environment \/ Worker \/ Terminated

(* Both threads are scheduled and time passes; nobody need type a command. *)
(* The worker sleeps between its attempts to get the mutex, which the game *)
(* thread holds for one insertion: it gets it in the end.                  *)
Fairness == /\ WF_vars(Worker)
            /\ SF_vars(TakeJobs)
            /\ WF_vars(GameGoesOn)
            /\ WF_vars(FadeEnds)

Spec     == Init /\ [][Next]_vars
FairSpec == Spec /\ Fairness
-----------------------------------------------------------------------------
(* Between two operations of the worker, what the flags say is what is     *)
(* heard: a player that does not play is silent, and one that neither      *)
(* plays nor is paused has given its buffers back.                         *)
BetweenOperations == worker \in {"top", "jobs", "update", "volume", "forced_volume"}

FlagsMatchSource ==
  BetweenOperations /\ ~m_Playing =>
    /\ source # "playing"
    /\ ~m_Paused => source = "stopped"

(* Once the commands have been worked off, the worker is blocked exactly   *)
(* if the window has lost the focus, and then nothing is heard: no pair of *)
(* Block and Unblock overtakes another, and no volume update slips in.     *)
WorkedOff ==
  game = "idle" /\ m_Jobs = <<>> /\ todo = <<>> /\ worker \in {"top", "jobs", "update"}

FocusDecidesBlocking ==
  WorkedOff => /\ m_Blocked <=> ssBlocked
               /\ ssBlocked => gain = 0

(* What is given to the player and not yet run, as the two threads share   *)
(* it, and how far the worker is from its end.                             *)
Pending == IF worker = "exit" THEN <<>> ELSE todo \o m_Jobs

Service == CASE worker = "exit"              -> "closed"
             [] worker # "exit" /\ m_Quit    -> "quitting"
             [] worker = "run" /\ ~m_Quit    -> "starting"
             [] OTHER                        -> "open"

Promise == INSTANCE JobQueue WITH pending <- Pending, service <- Service

(* The queue under its mutex and the list the worker has taken are one     *)
(* queue: commands are run in order, once, and only quitting discards any. *)
ImplementsJobQueue == Promise!Spec

(* A stop that is asked for ends the music, unless the player is disabled  *)
(* or destroyed before the worker gets to it, or never got its context.    *)
StopQueued == \E i \in DOMAIN m_Jobs : m_Jobs[i] = "Stop"

StopTakesEffect ==
  StopQueued ~> (~m_Playing /\ ~m_Paused) \/ ~m_Enabled \/ m_Quit \/ worker = "exit"

(* A fade that has come to its end ends the music, paused or not, unless a *)
(* new track or a new fade takes its place or the window has no focus.     *)
FadeEndsInSilence ==
  fade = "over" ~> \/ ~m_Playing /\ ~m_Paused
                   \/ fade # "over" \/ m_Blocked \/ ~m_Enabled \/ worker = "exit"

(* Music that plays is heard at the volume that is set: blocking, fading   *)
(* and unblocking never leave the gain where it was.                       *)
HearsVolume(v) ==
  m_Playing /\ m_Enabled /\ ~ssBlocked /\ fade = "none" /\ cvar = v /\ ~m_Quit

PlayingIsAudible ==
  \A v \in Volumes :
    HearsVolume(v) ~> gain = v \/ ~HearsVolume(v) \/ worker = "exit"

(* The destructor returns: the worker leaves its loop whatever it is at.   *)
DestructorReturns == game = "joining" ~> game = "gone"

(* How many steps the worker needs at most to its end once m_Quit is set:  *)
(* from where it is, from where a Stop, Pause or Resume returns to, and    *)
(* for the jobs it has taken.                                              *)
StepsOfAJob == 10

StepsFromJobs == 8 + StepsOfAJob * Len(todo)

StepsFrom(w) ==
  CASE w = "exit"   -> 0
    [] w = "top"    -> 1
    [] w = "run"    -> 2
    [] w = "volume" -> 4
    [] w = "update" -> 7
    [] w = "jobs"          -> StepsFromJobs
    [] w = "start_failed"  -> StepsFromJobs + 3
    [] w = "forced_volume" -> StepsFromJobs + 3
    [] w = "started"       -> StepsFromJobs + 4
    [] w = "begin"         -> StepsFromJobs + 5
    [] w = "load"          -> StepsFromJobs + 6
    [] w = "restart"       -> StepsFromJobs + 9

StepsLeft ==
  IF worker \in {"stop", "pause", "resume"} THEN StepsFrom(ret) + 2
  ELSE IF worker \in {"playing", "not_playing"} THEN StepsFrom(ret) + 1
  ELSE StepsFrom(worker)

(* The destructor waits for a bounded number of steps of the worker: once  *)
(* m_Quit is set each of them brings the worker nearer to its end, with    *)
(* however many jobs it is caught, and no step of the game thread or of    *)
(* the source puts it back.                                                *)
QuitApproaches ==
  [][m_Quit => StepsLeft' < StepsLeft \/ UNCHANGED <<worker, ret, todo>>]_vars

(* What docs/features/sound-system.md says of "music off": it disables     *)
(* playback and stops any music that is currently playing.                 *)
OffStopsMusic == WorkedOff /\ ~m_Enabled => ~m_Playing /\ ~m_Paused
=============================================================================
