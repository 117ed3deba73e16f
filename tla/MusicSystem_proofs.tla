------------------------- MODULE MusicSystem_proofs -------------------------
(***************************************************************************)
(* Proofs about MusicSystem for every length of the queue.                 *)
(*                                                                         *)
(* FlagsMatchSource is extended to the places inside an operation: the     *)
(* flags may disagree with the source only between the two writes of       *)
(* Stop, Pause and Resume and before StartPlaying sets m_Playing.          *)
(* FocusDecidesBlocking follows from what the jobs on their way to the     *)
(* worker will do: the last Block or Unblock among them says whether the   *)
(* window has the focus.                                                   *)
(***************************************************************************)
EXTENDS MusicSystem, SequenceTheorems, TLAPS

(* A command that is being queued has found room for its job. *)
RoomForCall == Queueing => Len(m_Jobs) < MaxJobs

SourceAgrees ==
  /\ source # "playing"
  /\ ~m_Paused => source = "stopped"

FlagsAgree ==
  /\ worker \notin {"started", "playing", "not_playing"} /\ ~m_Playing => SourceAgrees
  /\ worker = "not_playing" => SourceAgrees

(* The places the worker reaches only with all jobs done. *)
InOperation == worker \in {"stop", "pause", "resume", "playing", "not_playing"}

AfterJobs ==
  \/ worker \in {"run", "top", "update", "volume"}
  \/ InOperation /\ ret \in {"top", "volume"}

NothingLeftTodo == AfterJobs => todo = <<>>

(* What is on its way to the worker, and what it will do. *)
OnTheWay == todo \o m_Jobs \o (IF Queueing THEN <<call>> ELSE <<>>)

IsFocus(job) == job \in {"Block", "Unblock"}

WillBe(jobs, blocked, b) ==
  /\ \A i \in 1 .. Len(jobs) :
       IsFocus(jobs[i]) /\ (\A j \in 1 .. Len(jobs) : j > i => ~IsFocus(jobs[j]))
         => (jobs[i] = "Block" <=> b)
  /\ (\A i \in 1 .. Len(jobs) : ~IsFocus(jobs[i])) => (blocked <=> b)

FocusWillDecide == WillBe(OnTheWay, m_Blocked, ssBlocked)

(* The worker sets the volume only when it is not blocked. *)
BlockedIsSilent ==
  /\ m_Blocked => gain = 0
  /\ worker \in {"volume", "forced_volume"} => ~m_Blocked
  /\ InOperation /\ ret = "volume" => ~m_Blocked

-----------------------------------------------------------------------------
(* TypeOK in three parts; with RoomForCall it is inductive. *)
GameTypes ==
  /\ game \in {"idle", "is_paused", "queue", "queue_then_off", "off", "joining", "gone"}
  /\ m_Enabled \in BOOLEAN /\ ssBlocked \in BOOLEAN /\ cvar \in {0, 1}
  /\ fade \in {"none", "running", "over"}

QueueTypes ==
  /\ call \in Jobs
  /\ m_Jobs \in Seq(Jobs) /\ Len(m_Jobs) <= MaxJobs
  /\ todo \in Seq(Jobs)   /\ Len(todo) <= MaxJobs
  /\ RoomForCall

WorkerTypes ==
  /\ worker \in {"run", "top", "jobs", "stop", "pause", "resume", "not_playing",
                 "playing", "restart", "load", "begin", "started", "start_failed",
                 "update", "volume", "forced_volume", "exit"}
  /\ ret \in {"top", "jobs", "load", "volume"}
  /\ m_Playing \in BOOLEAN /\ m_Paused \in BOOLEAN /\ m_Blocked \in BOOLEAN
  /\ m_Volume \in {-1, 0, 1} /\ gain \in {0, 1}
  /\ source \in {"stopped", "playing", "paused"}

LEMMA TypesInParts == TypeOK /\ RoomForCall <=> GameTypes /\ QueueTypes /\ WorkerTypes
<1>1. Volumes = {0, 1} /\ Volumes \cup {-1} = {-1, 0, 1}
  BY DEF Volumes
<1> QED
  BY <1>1, Zenon DEF TypeOK, GameTypes, QueueTypes, WorkerTypes

(* A queue within a bound, and the gains UpdateVolume can set. *)
LEMMA AppendFits ==
  ASSUME NEW S, NEW n \in Nat, NEW s \in Seq(S), NEW x \in S, Len(s) < n
  PROVE  Append(s, x) \in Seq(S) /\ Len(Append(s, x)) <= n
OBVIOUS

LEMMA TailFits ==
  ASSUME NEW S, NEW n \in Nat, NEW s \in Seq(S), Len(s) <= n, s # <<>>
  PROVE  Tail(s) \in Seq(S) /\ Len(Tail(s)) <= n
OBVIOUS

LEMMA EmptyFits ==
  ASSUME NEW S, NEW n \in Nat
  PROVE  <<>> \in Seq(S) /\ Len(<<>>) = 0 /\ Len(<<>>) <= n
OBVIOUS

LEMMA GainFits ==
  ASSUME NEW v \in {0, 1}, NEW g \in {0, 1}, NEW h \in {g, v} \cup 0 .. v
  PROVE  h \in {0, 1}
OBVIOUS

(* A step of the game thread or of the world. *)
GameStep == GameCommands \/ GameGoesOn \/ FadeEnds

LEMMA GameStepIsLocal == GameStep => UNCHANGED workerVars
BY DEF GameStep, GameCommands, GameGoesOn, FadeEnds, Play, Command, FocusChanges, MusicOn,
       MusicReset, MusicOff, MusicFadeout, SetVolume, Destroy, Push, PlayReadsPaused,
       MusicOffDisables, Joined

LEMMA GameStepKeepsTypes ==
  ASSUME GameTypes, GameStep
  PROVE  GameTypes'
BY DEF GameTypes, GameStep, GameCommands, GameGoesOn, FadeEnds, Play, Queue, Command,
       FocusChanges, MusicOn, MusicReset, MusicOff, MusicFadeout, SetVolume, Volumes,
       Destroy, Push, PlayReadsPaused, MusicOffDisables, Joined, gameVars

LEMMA GameStepKeepsQueue ==
  ASSUME QueueTypes, GameTypes, GameStep
  PROVE  QueueTypes'
<1> USE DEF QueueTypes, RoomForCall, Queueing
<1>1. UNCHANGED todo
  BY GameStepIsLocal DEF workerVars
<1>2. CASE Push
  <2>1. /\ m_Jobs' = Append(m_Jobs, call) /\ call' = "Stop"
        /\ game' \in {"idle", "off"} /\ Len(m_Jobs) < MaxJobs
    BY <1>2 DEF Push
  <2>2. m_Jobs' \in Seq(Jobs) /\ Len(m_Jobs') <= MaxJobs
    BY <2>1, AppendFits, MusicAssumption
  <2>3. call' \in Jobs
    BY <2>1 DEF Jobs
  <2> QED
    BY <1>1, <2>1, <2>2, <2>3
<1>3. CASE ~Push
  <2>1. /\ UNCHANGED m_Jobs /\ call' \in Jobs
        /\ \/ Len(m_Jobs) < MaxJobs
           \/ game' \in {"idle", "off", "joining", "gone"}
           \/ UNCHANGED game
    BY <1>3 DEF GameStep, GameCommands, GameGoesOn, FadeEnds, Play, Queue, Command,
         FocusChanges, MusicOn, MusicReset, MusicOff, MusicFadeout, SetVolume, Destroy,
         PlayReadsPaused, MusicOffDisables, Joined, Jobs
  <2> QED
    BY <1>1, <2>1
<1> QED
  BY <1>2, <1>3

LEMMA WorkerTypesAreLocal == WorkerTypes /\ UNCHANGED workerVars => WorkerTypes'
BY DEF WorkerTypes, workerVars, flagVars, soundVars

LEMMA WorkerIsLocal == Worker \/ Underrun => UNCHANGED <<game, call, gameVars>>
BY DEF Worker, Underrun, WorkerOnly, RunStarts, RunQuits, TakeNoJobs, JobsDone, TakeJobs,
       RunStop, RunPause, RunResume, RunBlock, RunUnblock, RunStart, NextJob, Restart,
       Load, Begin, Started, StartFailed, StopActs, PauseActs, ResumeActs, Act,
       SetPlaying, Update, UpdateVolumeInLoop, UpdateVolumeOfUnblock, UpdateVolume

LEMMA WorkerKeepsFade == Worker \/ Underrun => fade' \in {fade, "none"}
BY DEF Worker, Underrun, WorkerOnly, RunStarts, RunQuits, TakeNoJobs, JobsDone, TakeJobs,
       RunStop, RunPause, RunResume, RunBlock, RunUnblock, RunStart, NextJob, Restart,
       Load, Begin, Started, StartFailed, StopActs, PauseActs, ResumeActs, Act,
       SetPlaying, Update, UpdateVolumeInLoop, UpdateVolumeOfUnblock, UpdateVolume

LEMMA WorkerKeepsQueue ==
  ASSUME QueueTypes, Worker \/ Underrun
  PROVE  QueueTypes'
<1>1. \/ UNCHANGED <<m_Jobs, todo>>
      \/ m_Jobs' = <<>> /\ todo' = m_Jobs
      \/ UNCHANGED m_Jobs /\ todo # <<>> /\ todo' = Tail(todo)
  BY DEF Worker, Underrun, WorkerOnly, RunStarts, RunQuits, TakeNoJobs, JobsDone, TakeJobs,
       RunStop, RunPause, RunResume, RunBlock, RunUnblock, RunStart, NextJob, Restart,
       Load, Begin, Started, StartFailed, StopActs, PauseActs, ResumeActs, Act,
       SetPlaying, Update, UpdateVolumeInLoop, UpdateVolumeOfUnblock, UpdateVolume
<1>2. UNCHANGED <<game, call>>
  BY WorkerIsLocal
<1>3. /\ m_Jobs' \in Seq(Jobs) /\ Len(m_Jobs') <= MaxJobs
      /\ todo' \in Seq(Jobs)   /\ Len(todo') <= MaxJobs
  BY <1>1, TailFits, EmptyFits, MusicAssumption DEF QueueTypes
<1>4. m_Jobs' = m_Jobs \/ Len(m_Jobs') = 0
  BY <1>1, EmptyFits, MusicAssumption
<1>5. 0 < MaxJobs
  BY MusicAssumption
<1>6. RoomForCall'
  <2>1. Queueing' <=> Queueing
    BY <1>2 DEF Queueing
  <2> QED
    BY <2>1, <1>4, <1>5 DEF QueueTypes, RoomForCall
<1> QED
  BY <1>2, <1>3, <1>6 DEF QueueTypes

LEMMA WorkerKeepsTypes ==
  ASSUME WorkerTypes, GameTypes, Worker \/ Underrun
  PROVE  WorkerTypes'
<1> USE DEF WorkerTypes, flagVars, soundVars, Goto, CallStop, Call
<1>1. CASE RunStarts \/ RunQuits \/ TakeNoJobs \/ JobsDone \/ TakeJobs
  BY <1>1 DEF RunStarts, RunQuits, TakeNoJobs, JobsDone, TakeJobs
<1>2. CASE RunStop \/ RunPause \/ RunResume
  BY <1>2 DEF RunStop, RunPause, RunResume, NextJob
<1>3. CASE RunBlock \/ RunUnblock \/ RunStart
  BY <1>3 DEF RunBlock, RunUnblock, RunStart, NextJob
<1>4. CASE Restart \/ Load \/ Begin
  BY <1>4 DEF Restart, Load, Begin
<1>5. CASE Started \/ StartFailed
  BY <1>5 DEF Started, StartFailed
<1>6. CASE StopActs \/ PauseActs \/ ResumeActs
  BY <1>6 DEF StopActs, PauseActs, ResumeActs, Act
<1>7. CASE SetPlaying \/ Underrun
  BY <1>7 DEF SetPlaying, Underrun
<1>8. CASE Update
  BY <1>8 DEF Update, AfterFeeding
<1>9. CASE UpdateVolumeInLoop \/ UpdateVolumeOfUnblock
  <2>1. /\ worker' \in {"stop", "top", "jobs"} /\ ret' \in {ret, "top", "jobs"}
        /\ m_Volume' \in {m_Volume, cvar}
        /\ gain' \in {gain, cvar} \cup 0 .. cvar
        /\ UNCHANGED <<m_Playing, m_Paused, m_Blocked, source>>
    BY <1>9 DEF UpdateVolumeInLoop, UpdateVolumeOfUnblock, UpdateVolume
  <2>2. m_Volume' \in {-1, 0, 1}
    BY <2>1 DEF GameTypes
  <2>3. gain' \in {0, 1}
    BY <2>1, GainFits DEF GameTypes
  <2> QED
    BY <2>1, <2>2, <2>3
<1> QED
  BY <1>1, <1>2, <1>3, <1>4, <1>5, <1>6, <1>7, <1>8, <1>9 DEF Worker

Types == GameTypes /\ QueueTypes /\ WorkerTypes

THEOREM TypesHold == Spec => []Types
<1>1. Init => Types
  <2>1. Init => GameTypes /\ WorkerTypes
    BY DEF Init, GameTypes, WorkerTypes, Volumes
  <2>2. Init => QueueTypes
    BY MusicAssumption DEF Init, QueueTypes, RoomForCall, Queueing, Jobs
  <2> QED
    BY <2>1, <2>2 DEF Types
<1>2. ASSUME Types, [Next]_vars  PROVE Types'
  <2>1. CASE GameStep
    <3>1. WorkerTypes'
      BY <1>2, <2>1, GameStepIsLocal, WorkerTypesAreLocal DEF Types
    <3> QED
      BY <1>2, <2>1, <3>1, GameStepKeepsTypes, GameStepKeepsQueue DEF Types
  <2>2. CASE Worker \/ Underrun
    <3>1. GameTypes'
      BY <1>2, <2>2, WorkerIsLocal, WorkerKeepsFade DEF Types, GameTypes, gameVars
    <3> QED
      BY <1>2, <2>2, <3>1, WorkerKeepsTypes, WorkerKeepsQueue DEF Types
  <2>3. CASE UNCHANGED vars
    <3>1. GameTypes'
      BY <1>2, <2>3 DEF Types, GameTypes, vars
    <3>2. QueueTypes'
      BY <1>2, <2>3 DEF Types, QueueTypes, RoomForCall, Queueing, vars
    <3>3. WorkerTypes'
      BY <1>2, <2>3, WorkerTypesAreLocal DEF Types, vars, workerVars, flagVars, soundVars
    <3> QED
      BY <3>1, <3>2, <3>3 DEF Types
  <2> QED
    BY <1>2, <2>1, <2>2, <2>3 DEF Next, Environment, GameStep, Terminated
<1> QED
  BY <1>1, <1>2, PTL DEF Spec

(* No gain is negative or above full volume, and no queue is longer than   *)
(* its bound.                                                              *)
THEOREM TypeCorrect == Spec => []TypeOK
<1>1. Types => TypeOK
  BY TypesInParts DEF Types
<1> QED
  BY <1>1, TypesHold, PTL

-----------------------------------------------------------------------------
(* FlagsAgree is inductive, given the types. *)
LEMMA StepKeepsFlags ==
  ASSUME WorkerTypes, FlagsAgree, Next
  PROVE  FlagsAgree'
<1> USE DEF WorkerTypes, FlagsAgree, SourceAgrees, flagVars, soundVars, Goto
<1>1. CASE GameStep
  BY <1>1, GameStepIsLocal DEF workerVars
<1>2. CASE Underrun
  BY <1>2 DEF Underrun
<1>3. CASE RunStarts \/ RunQuits \/ TakeNoJobs \/ JobsDone \/ TakeJobs
  BY <1>3 DEF RunStarts, RunQuits, TakeNoJobs, JobsDone, TakeJobs
<1>4. CASE RunStop \/ RunPause \/ RunResume \/ RunBlock \/ RunUnblock \/ RunStart
  <2>1. /\ worker = "jobs" /\ UNCHANGED <<m_Playing, m_Paused, source>>
        /\ worker' \in {"jobs", "stop", "pause", "resume", "forced_volume", "restart", "load"}
    BY <1>4 DEF RunStop, RunPause, RunResume, RunBlock, RunUnblock, RunStart, NextJob,
         CallStop, Call
  <2> QED
    BY <2>1
<1>5. CASE Restart \/ Load \/ Begin \/ Started \/ StartFailed
  BY <1>5 DEF Restart, Load, Begin, Started, StartFailed, CallStop, Call
<1>6. CASE StopActs \/ PauseActs \/ ResumeActs
  BY <1>6 DEF StopActs, PauseActs, ResumeActs, Act
<1>7. CASE SetPlaying
  BY <1>7 DEF SetPlaying
<1>8. CASE Update
  BY <1>8 DEF Update, AfterFeeding, CallStop, Call
<1>9. CASE UpdateVolumeInLoop \/ UpdateVolumeOfUnblock
  <2>1. /\ worker \in {"volume", "forced_volume"} /\ worker' \in {"top", "jobs", "stop"}
        /\ UNCHANGED <<m_Playing, m_Paused, source>>
    BY <1>9 DEF UpdateVolumeInLoop, UpdateVolumeOfUnblock, UpdateVolume, CallStop, Call
  <2> QED
    BY <2>1
<1>10. CASE Terminated
  BY <1>10 DEF Terminated, vars
<1> QED
  BY <1>1, <1>2, <1>3, <1>4, <1>5, <1>6, <1>7, <1>8, <1>9, <1>10
     DEF Next, GameStep, Environment, Worker

(* A player whose flags say that it does not play is silent, and one that  *)
(* is not paused either has stopped its source.                            *)
THEOREM FlagsAreTrue == Spec => []FlagsMatchSource
<1>1. Init => FlagsAgree
  BY DEF Init, FlagsAgree, SourceAgrees
<1>2. ASSUME WorkerTypes, FlagsAgree, [Next]_vars  PROVE FlagsAgree'
  <2>1. CASE UNCHANGED vars
    BY <1>2, <2>1 DEF FlagsAgree, SourceAgrees, vars
  <2> QED
    BY <1>2, <2>1, StepKeepsFlags
<1>3. FlagsAgree => FlagsMatchSource
  BY DEF FlagsAgree, SourceAgrees, FlagsMatchSource, BetweenOperations
<1>4. Types => WorkerTypes
  BY DEF Types
<1> QED
  BY <1>1, <1>2, <1>3, <1>4, TypesHold, PTL DEF Spec
-----------------------------------------------------------------------------
(* What the jobs will do, when one is added at the end or the first is     *)
(* taken.                                                                  *)
LEMMA WillBeAfterAppend ==
  ASSUME NEW jobs \in Seq(Jobs), NEW job \in Jobs, NEW blocked, NEW b, NEW c,
         WillBe(jobs, blocked, b),
         IsFocus(job) => (job = "Block" <=> c),
         ~IsFocus(job) => (b <=> c)
  PROVE  WillBe(Append(jobs, job), blocked, c)
<1> DEFINE more == Append(jobs, job)
           n    == Len(jobs)
<1>1. /\ n \in Nat /\ Len(more) = n + 1 /\ more[n + 1] = job
      /\ \A i \in 1 .. n : more[i] = jobs[i]
  BY AppendProperties, LenProperties
<1> HIDE DEF more, n
<1>2. /\ \A i \in 1 .. n : IsFocus(jobs[i]) /\ (\A j \in 1 .. n : j > i => ~IsFocus(jobs[j]))
                             => (jobs[i] = "Block" <=> b)
      /\ (\A i \in 1 .. n : ~IsFocus(jobs[i])) => (blocked <=> b)
  BY DEF WillBe, n
<1>3. ASSUME NEW i \in 1 .. n + 1, IsFocus(more[i]),
             \A j \in 1 .. n + 1 : j > i => ~IsFocus(more[j])
      PROVE  more[i] = "Block" <=> c
  <2>1. CASE i = n + 1
    BY <1>1, <1>3, <2>1
  <2>2. CASE i \in 1 .. n
    <3>1. IsFocus(jobs[i]) /\ \A j \in 1 .. n : j > i => ~IsFocus(jobs[j])
      BY <1>1, <1>3, <2>2
    <3>2. ~IsFocus(job)
      BY <1>1, <1>3, <2>2
    <3> QED
      BY <1>1, <1>2, <2>2, <3>1, <3>2
  <2> QED
    BY <1>1, <2>1, <2>2
<1>4. ASSUME \A i \in 1 .. n + 1 : ~IsFocus(more[i])
      PROVE  blocked <=> c
  <2>1. ~IsFocus(job) /\ \A i \in 1 .. n : ~IsFocus(jobs[i])
    BY <1>1, <1>4
  <2> QED
    BY <1>2, <2>1
<1> QED
  BY <1>1, <1>3, <1>4 DEF WillBe, more

LEMMA WillBeAfterTail ==
  ASSUME NEW jobs \in Seq(Jobs), jobs # <<>>, NEW blocked, NEW b, NEW c,
         WillBe(jobs, blocked, b),
         IsFocus(Head(jobs)) => (Head(jobs) = "Block" <=> c),
         ~IsFocus(Head(jobs)) => (blocked <=> c)
  PROVE  WillBe(Tail(jobs), c, b)
<1> DEFINE rest == Tail(jobs)
           n    == Len(rest)
<1>1. /\ n \in Nat /\ Len(jobs) = n + 1 /\ Head(jobs) = jobs[1]
      /\ \A i \in 1 .. n : rest[i] = jobs[i + 1]
  BY HeadTailProperties, LenProperties
<1> HIDE DEF rest, n
<1>2. /\ \A i \in 1 .. n + 1 :
           IsFocus(jobs[i]) /\ (\A j \in 1 .. n + 1 : j > i => ~IsFocus(jobs[j]))
             => (jobs[i] = "Block" <=> b)
      /\ (\A i \in 1 .. n + 1 : ~IsFocus(jobs[i])) => (blocked <=> b)
  BY <1>1 DEF WillBe
<1>3. ASSUME NEW i \in 1 .. n, IsFocus(rest[i]),
             \A j \in 1 .. n : j > i => ~IsFocus(rest[j])
      PROVE  rest[i] = "Block" <=> b
  <2>1. ASSUME NEW j \in 1 .. n + 1, j > i + 1  PROVE ~IsFocus(jobs[j])
    <3>1. j - 1 \in 1 .. n /\ j - 1 > i /\ (j - 1) + 1 = j
      BY <1>1, <2>1
    <3> QED
      BY <1>1, <1>3, <3>1
  <2>2. i + 1 \in 1 .. n + 1 /\ IsFocus(jobs[i + 1])
    BY <1>1, <1>3
  <2> QED
    BY <1>1, <1>2, <2>1, <2>2
<1>4. ASSUME \A i \in 1 .. n : ~IsFocus(rest[i])
      PROVE  c <=> b
  <2>1. ASSUME NEW j \in 1 .. n + 1, j > 1  PROVE ~IsFocus(jobs[j])
    <3>1. j - 1 \in 1 .. n /\ (j - 1) + 1 = j
      BY <1>1, <2>1
    <3> QED
      BY <1>1, <1>4, <3>1
  <2>2. 1 \in 1 .. n + 1
    BY <1>1
  <2>3. CASE IsFocus(Head(jobs))
    BY <1>1, <1>2, <2>1, <2>2, <2>3
  <2>4. CASE ~IsFocus(Head(jobs))
    <3>1. \A i \in 1 .. n + 1 : ~IsFocus(jobs[i])
      BY <1>1, <2>1, <2>4
    <3> QED
      BY <1>2, <2>4, <3>1
  <2> QED
    BY <2>3, <2>4
<1> QED
  BY <1>1, <1>3, <1>4 DEF WillBe, rest, n

(* Jobs s taken, t queued and x being queued; OnTheWay when x is pushed,    *)
(* when the worker takes t, and when it runs the first job of s.            *)
LEMMA Ways ==
  ASSUME NEW s \in Seq(Jobs), NEW t \in Seq(Jobs), NEW x \in Jobs
  PROVE  /\ s \o t \o <<>> \in Seq(Jobs) /\ s \o t \o <<x>> \in Seq(Jobs)
         /\ s \o t \o <<x>> = Append(s \o t \o <<>>, x)
         /\ s \o t \o <<x>> = s \o Append(t, x) \o <<>>
<1>1. s \o t \in Seq(Jobs) /\ <<x>> \in Seq(Jobs) /\ <<>> \in Seq(Jobs)
  BY ConcatProperties, EmptySeq
<1>2. s \o t \o <<>> = s \o t
  BY <1>1, ConcatEmptySeq
<1>3. s \o t \o <<x>> = Append(s \o t, x) /\ Append(s \o t, x) \in Seq(Jobs)
  BY <1>1, AppendIsConcat, AppendProperties
<1>4. Append(t, x) = t \o <<x>> /\ Append(t, x) \in Seq(Jobs)
  BY AppendIsConcat, AppendProperties
<1>5. s \o Append(t, x) \o <<>> = s \o (t \o <<x>>)
  BY <1>4, ConcatProperties, ConcatEmptySeq
<1>6. s \o t \o <<x>> = s \o (t \o <<x>>)
  BY <1>1, ConcatAssociative
<1> QED
  BY <1>1, <1>2, <1>3, <1>5, <1>6

LEMMA WayOfTail ==
  ASSUME NEW s \in Seq(Jobs), NEW t \in Seq(Jobs), s # <<>>
  PROVE  /\ s \o t \in Seq(Jobs) /\ s \o t # <<>> /\ Head(s \o t) = Head(s)
         /\ Tail(s \o t) = Tail(s) \o t
<1>1. s \o t \in Seq(Jobs) /\ s \o t # <<>>
  BY ConcatProperties, ConcatEqualIffEmpty
<1>2. Head(s \o t) = Head(s)
  BY <1>1, ConcatProperties, EmptySeq, LenProperties
<1>3. Tail(s) \in Seq(Jobs) /\ Tail(s \o t) \in Seq(Jobs)
  BY <1>1, HeadTailProperties
<1>4. Tail(s \o t) = Tail(s) \o t
  <2>1. /\ Len(Tail(s \o t)) = Len(Tail(s) \o t)
        /\ Len(Tail(s \o t)) = Len(s) + Len(t) - 1
        /\ Len(s) \in Nat /\ Len(t) \in Nat /\ Len(Tail(s)) = Len(s) - 1
    BY <1>1, <1>3, HeadTailProperties, ConcatProperties, LenProperties
  <2>2. ASSUME NEW i \in 1 .. Len(Tail(s \o t))
        PROVE  Tail(s \o t)[i] = (Tail(s) \o t)[i]
    <3>1. Tail(s \o t)[i] = (s \o t)[i + 1] /\ i + 1 \in 1 .. Len(s) + Len(t)
      BY <1>1, <2>1, HeadTailProperties
    <3>2. (s \o t)[i + 1] = IF i + 1 <= Len(s) THEN s[i + 1] ELSE t[i + 1 - Len(s)]
      BY <3>1, ConcatProperties
    <3>3. (Tail(s) \o t)[i] = IF i <= Len(Tail(s)) THEN Tail(s)[i] ELSE t[i - Len(Tail(s))]
      BY <1>3, <2>1, ConcatProperties
    <3>4. i <= Len(Tail(s)) => Tail(s)[i] = s[i + 1]
      BY <2>1, HeadTailProperties
    <3>5. i - Len(Tail(s)) = i + 1 - Len(s) /\ (i <= Len(Tail(s)) <=> i + 1 <= Len(s))
      BY <2>1
    <3> QED
      BY <3>1, <3>2, <3>3, <3>4, <3>5
  <2>3. Tail(s) \o t \in Seq(Jobs)
    BY <1>3, ConcatProperties
  <2> QED
    BY <1>3, <2>1, <2>2, <2>3, SeqEqual
<1> QED
  BY <1>1, <1>2, <1>4

LEMMA WayIsOfJobs == QueueTypes => OnTheWay \in Seq(Jobs)
BY Ways DEF QueueTypes, OnTheWay

(* A game step pushes the job, leaves the way alone or adds a job to it;   *)
(* only FocusChanges adds one that is about the focus.                     *)
LeavesWay ==
  /\ UNCHANGED <<m_Jobs, ssBlocked>>
  /\ UNCHANGED <<game, call>> \/ (~Queueing /\ ~Queueing')

AddsToWay ==
  /\ UNCHANGED m_Jobs /\ ~Queueing /\ Queueing' /\ call' \in Jobs
  /\ IsFocus(call') => (call' = "Block" <=> ssBlocked')
  /\ ~IsFocus(call') => (ssBlocked <=> ssBlocked')

LEMMA GameStepsOnWay ==
  ASSUME GameTypes, GameStep
  PROVE  Push \/ LeavesWay \/ AddsToWay
<1> USE DEF GameTypes, LeavesWay, AddsToWay, Queueing, gameVars, Jobs, IsFocus, Queue
<1>1. ASSUME NEW sameFile \in BOOLEAN, Play(sameFile)  PROVE LeavesWay \/ AddsToWay
  BY <1>1 DEF Play
<1>2. ASSUME NEW job \in {"Stop", "Pause", "Resume"}, Command(job)
      PROVE  AddsToWay
  BY <1>2 DEF Command
<1>3. CASE FocusChanges
  BY <1>3 DEF FocusChanges
<1>4. CASE MusicReset \/ MusicOff
  BY <1>4 DEF MusicReset, MusicOff
<1>5. CASE MusicOn \/ MusicFadeout \/ FadeEnds \/ Destroy
  BY <1>5 DEF MusicOn, MusicFadeout, FadeEnds, Destroy
<1>6. ASSUME NEW v \in Volumes, SetVolume(v)  PROVE LeavesWay
  BY <1>6 DEF SetVolume
<1>7. CASE PlayReadsPaused \/ MusicOffDisables \/ Joined
  BY <1>7 DEF PlayReadsPaused, MusicOffDisables, Joined
<1> QED
  BY <1>1, <1>2, <1>3, <1>4, <1>5, <1>6, <1>7 DEF GameStep, GameCommands, GameGoesOn

LEMMA GameStepKeepsFocus ==
  ASSUME Types, FocusWillDecide, GameStep
  PROVE  FocusWillDecide'
<1>1. UNCHANGED <<todo, m_Blocked>> /\ QueueTypes /\ OnTheWay \in Seq(Jobs)
  BY GameStepIsLocal, WayIsOfJobs DEF Types, workerVars, soundVars
<1>2. CASE Push
  <2>1. Queueing /\ ~Queueing' /\ m_Jobs' = Append(m_Jobs, call) /\ UNCHANGED ssBlocked
    BY <1>2 DEF Push, Queueing, gameVars
  <2>2. OnTheWay' = OnTheWay
    BY <1>1, <2>1, Ways DEF OnTheWay, QueueTypes
  <2> QED
    BY <1>1, <2>1, <2>2 DEF FocusWillDecide
<1>3. CASE LeavesWay
  <2>1. OnTheWay' = OnTheWay
    BY <1>1, <1>3 DEF LeavesWay, OnTheWay, Queueing
  <2> QED
    BY <1>1, <1>3, <2>1 DEF LeavesWay, FocusWillDecide
<1>4. CASE AddsToWay
  <2>1. OnTheWay' = Append(OnTheWay, call')
    BY <1>1, <1>4, Ways DEF AddsToWay, OnTheWay, QueueTypes
  <2>2. WillBe(Append(OnTheWay, call'), m_Blocked, ssBlocked')
    BY <1>1, <1>4, WillBeAfterAppend DEF AddsToWay, FocusWillDecide
  <2> QED
    BY <1>1, <2>1, <2>2 DEF FocusWillDecide
<1> QED
  BY <1>2, <1>3, <1>4, GameStepsOnWay DEF Types

-----------------------------------------------------------------------------
LEMMA WorkerKeepsFocus ==
  ASSUME Types, NothingLeftTodo, FocusWillDecide, Worker \/ Underrun
  PROVE  FocusWillDecide'
<1>1. /\ UNCHANGED ssBlocked /\ (Queueing' <=> Queueing) /\ UNCHANGED call
      /\ QueueTypes /\ OnTheWay \in Seq(Jobs)
  BY WorkerIsLocal, WayIsOfJobs DEF Types, gameVars, Queueing
<1>2. CASE UNCHANGED <<todo, m_Jobs, m_Blocked>>
  <2>1. OnTheWay' = OnTheWay
    BY <1>1, <1>2 DEF OnTheWay
  <2> QED
    BY <1>1, <1>2, <2>1 DEF FocusWillDecide
<1>3. CASE TakeJobs
  <2>1. todo = <<>> /\ todo' = m_Jobs /\ m_Jobs' = <<>> /\ UNCHANGED m_Blocked
    BY <1>3 DEF TakeJobs, NothingLeftTodo, AfterJobs, soundVars
  <2>2. OnTheWay' = OnTheWay
    <3>1. m_Jobs \o <<>> = m_Jobs /\ <<>> \o m_Jobs = m_Jobs
      BY <1>1, ConcatEmptySeq DEF QueueTypes
    <3> QED
      BY <1>1, <2>1, <3>1 DEF OnTheWay
  <2> QED
    BY <1>1, <2>1, <2>2 DEF FocusWillDecide
<1>4. ASSUME NEW job, NextJob(job),
             IsFocus(job) => (job = "Block" <=> m_Blocked'),
             ~IsFocus(job) => (m_Blocked <=> m_Blocked')
      PROVE  FocusWillDecide'
  <2>1. todo # <<>> /\ Head(todo) = job /\ todo' = Tail(todo) /\ UNCHANGED m_Jobs
    BY <1>4 DEF NextJob
  <2> DEFINE last == IF Queueing THEN <<call>> ELSE <<>>
             rest == m_Jobs \o last
  <2>2. m_Jobs \in Seq(Jobs) /\ todo \in Seq(Jobs) /\ last \in Seq(Jobs)
    BY <1>1 DEF QueueTypes
  <2>3. OnTheWay = todo \o m_Jobs \o last /\ OnTheWay' = Tail(todo) \o m_Jobs \o last
    BY <1>1, <2>1 DEF OnTheWay
  <2> HIDE DEF last
  <2>4. rest \in Seq(Jobs) /\ Tail(todo) \in Seq(Jobs)
    BY <2>1, <2>2, ConcatProperties, HeadTailProperties
  <2>5. todo \o m_Jobs \o last = todo \o rest
    BY <2>2, ConcatAssociative
  <2>6. Tail(todo) \o m_Jobs \o last = Tail(todo) \o rest
    BY <2>4, <2>2, ConcatAssociative
  <2>7. OnTheWay = todo \o rest /\ OnTheWay' = Tail(todo) \o rest
    BY <2>3, <2>5, <2>6
  <2> HIDE DEF rest
  <2>8. OnTheWay # <<>> /\ Head(OnTheWay) = job /\ OnTheWay' = Tail(OnTheWay)
    BY <2>1, <2>4, <2>7, <2>2, WayOfTail
  <2>9. WillBe(Tail(OnTheWay), m_Blocked', ssBlocked)
    BY <1>1, <1>4, <2>8, WillBeAfterTail DEF FocusWillDecide
  <2> QED
    BY <1>1, <2>8, <2>9 DEF FocusWillDecide
<1>5. CASE RunStop \/ RunPause \/ RunResume \/ RunStart
  BY <1>4, <1>5 DEF RunStop, RunPause, RunResume, RunStart, IsFocus
<1>6. CASE RunBlock
  BY <1>4, <1>6 DEF RunBlock, IsFocus
<1>7. CASE RunUnblock
  BY <1>4, <1>7 DEF RunUnblock, IsFocus
<1>8. CASE ~(\/ TakeJobs \/ RunStop \/ RunPause \/ RunResume \/ RunStart \/ RunBlock
             \/ RunUnblock)
  BY <1>2, <1>8 DEF Worker, Underrun, WorkerOnly, RunStarts, RunQuits, TakeNoJobs, JobsDone,
       Restart, Load, Begin, Started, StartFailed, StopActs, PauseActs, ResumeActs, Act,
       SetPlaying, Update, UpdateVolumeInLoop, UpdateVolumeOfUnblock, UpdateVolume, soundVars
<1> QED
  BY <1>3, <1>5, <1>6, <1>7, <1>8

LEMMA StepKeepsTodo ==
  ASSUME WorkerTypes, NothingLeftTodo, GameStep \/ Worker \/ Underrun
  PROVE  NothingLeftTodo'
<1> USE DEF WorkerTypes, NothingLeftTodo, AfterJobs, InOperation, Goto, CallStop, Call
<1>1. CASE GameStep
  BY <1>1, GameStepIsLocal DEF workerVars
<1>2. CASE Underrun
  BY <1>2 DEF Underrun
<1>3. CASE RunStarts \/ RunQuits \/ TakeNoJobs \/ JobsDone \/ TakeJobs
  BY <1>3 DEF RunStarts, RunQuits, TakeNoJobs, JobsDone, TakeJobs
<1>4. CASE RunStop \/ RunPause \/ RunResume
  BY <1>4 DEF RunStop, RunPause, RunResume, NextJob
<1>5. CASE RunBlock \/ RunUnblock \/ RunStart
  BY <1>5 DEF RunBlock, RunUnblock, RunStart, NextJob
<1>6. CASE Restart \/ Load \/ Begin \/ Started \/ StartFailed
  BY <1>6 DEF Restart, Load, Begin, Started, StartFailed
<1>7. CASE StopActs \/ PauseActs \/ ResumeActs \/ SetPlaying
  BY <1>7 DEF StopActs, PauseActs, ResumeActs, Act, SetPlaying
<1>8. CASE Update
  BY <1>8 DEF Update, AfterFeeding
<1>9. CASE UpdateVolumeInLoop \/ UpdateVolumeOfUnblock
  BY <1>9 DEF UpdateVolumeInLoop, UpdateVolumeOfUnblock, UpdateVolume
<1> QED
  BY <1>1, <1>2, <1>3, <1>4, <1>5, <1>6, <1>7, <1>8, <1>9 DEF Worker

LEMMA StepKeepsSilence ==
  ASSUME WorkerTypes, BlockedIsSilent, GameStep \/ Worker \/ Underrun
  PROVE  BlockedIsSilent'
<1> USE DEF WorkerTypes, InOperation, Goto, CallStop, Call
<1>1. CASE UNCHANGED <<worker, ret, m_Blocked, gain>>
  BY <1>1 DEF BlockedIsSilent
<1>2. CASE /\ m_Blocked' = m_Blocked /\ gain' = gain
           /\ worker' \in {"volume", "forced_volume"} => ~m_Blocked
           /\ InOperation' => ret' # "volume" \/ ~m_Blocked
  BY <1>2 DEF BlockedIsSilent
<1>3. CASE RunStarts \/ RunQuits \/ TakeNoJobs \/ JobsDone \/ TakeJobs
  BY <1>2, <1>3 DEF RunStarts, RunQuits, TakeNoJobs, JobsDone, TakeJobs, soundVars
<1>4. CASE RunStop \/ RunPause \/ RunResume \/ RunStart
  BY <1>2, <1>4 DEF RunStop, RunPause, RunResume, RunStart, NextJob
<1>5. CASE RunBlock
  <2>1. gain' = 0 /\ worker' = "jobs"
    BY <1>5 DEF RunBlock
  <2> QED
    BY <2>1 DEF BlockedIsSilent
<1>6. CASE RunUnblock
  <2>1. ~m_Blocked'
    BY <1>6 DEF RunUnblock
  <2> QED
    BY <2>1 DEF BlockedIsSilent
<1>7. CASE Restart \/ Load \/ Begin \/ Started \/ StartFailed
  BY <1>2, <1>7 DEF Restart, Load, Begin, Started, StartFailed, soundVars
<1>8. CASE StopActs \/ PauseActs \/ ResumeActs
  <2>1. /\ m_Blocked' = m_Blocked /\ gain' = gain /\ InOperation
        /\ ret' = ret /\ worker' \in {"playing", "not_playing"}
    BY <1>8 DEF StopActs, PauseActs, ResumeActs, Act
  <2> QED
    BY <1>2, <2>1 DEF BlockedIsSilent
<1>9. CASE SetPlaying
  <2>1. /\ m_Blocked' = m_Blocked /\ gain' = gain /\ InOperation
        /\ worker' = ret /\ ret' = "top"
    BY <1>9 DEF SetPlaying, soundVars
  <2> QED
    BY <1>2, <2>1 DEF BlockedIsSilent
<1>10. CASE Update
  BY <1>2, <1>10 DEF Update, AfterFeeding
<1>11. CASE UpdateVolumeInLoop \/ UpdateVolumeOfUnblock
  <2>1. ~m_Blocked /\ UNCHANGED m_Blocked
    BY <1>11 DEF UpdateVolumeInLoop, UpdateVolumeOfUnblock, UpdateVolume, BlockedIsSilent
  <2> QED
    BY <2>1 DEF BlockedIsSilent
<1>12. GameStep \/ Underrun => UNCHANGED <<worker, ret, m_Blocked, gain>>
  BY GameStepIsLocal DEF Underrun, workerVars, soundVars
<1> QED
  BY <1>1, <1>3, <1>4, <1>5, <1>6, <1>7, <1>8, <1>10, <1>11, <1>12, <1>9 DEF Worker

FocusInv == NothingLeftTodo /\ FocusWillDecide /\ BlockedIsSilent

(* Once the commands have been worked off, the worker is blocked exactly   *)
(* if the window has lost the focus, and then nothing is heard.            *)
THEOREM FocusDecides == Spec => []FocusDecidesBlocking
<1>1. Init => FocusInv
  <2>1. ASSUME Init  PROVE FocusWillDecide
    <3>1. todo = <<>> /\ m_Jobs = <<>> /\ ~Queueing /\ ~m_Blocked /\ ~ssBlocked
      BY <2>1 DEF Init, Queueing
    <3>2. OnTheWay = <<>> /\ Len(<<>>) = 0
      BY <3>1, ConcatEmptySeq, EmptySeq DEF OnTheWay
    <3> QED
      BY <3>1, <3>2 DEF FocusWillDecide, WillBe
  <2>2. Init => NothingLeftTodo /\ BlockedIsSilent
    BY DEF Init, NothingLeftTodo, BlockedIsSilent, InOperation
  <2> QED
    BY <2>1, <2>2 DEF FocusInv
<1>2. ASSUME Types, FocusInv, [Next]_vars  PROVE FocusInv'
  <2>1. CASE GameStep \/ Worker \/ Underrun
    BY <1>2, <2>1, GameStepKeepsFocus, WorkerKeepsFocus, StepKeepsTodo, StepKeepsSilence
       DEF FocusInv, Types
  <2>2. CASE UNCHANGED vars
    <3>1. FocusWillDecide'
      BY <1>2, <2>2 DEF FocusInv, FocusWillDecide, WillBe, OnTheWay, Queueing, vars
    <3>2. NothingLeftTodo' /\ BlockedIsSilent'
      BY <1>2, <2>2 DEF FocusInv, NothingLeftTodo, AfterJobs, BlockedIsSilent, InOperation,
           vars
    <3> QED
      BY <3>1, <3>2 DEF FocusInv
  <2> QED
    BY <1>2, <2>1, <2>2 DEF Next, Environment, GameStep, Terminated
<1>3. FocusInv => FocusDecidesBlocking
  <2>1. ASSUME FocusInv, WorkedOff  PROVE m_Blocked <=> ssBlocked
    <3>1. todo = <<>> /\ m_Jobs = <<>> /\ ~Queueing
      BY <2>1 DEF WorkedOff, Queueing
    <3>2. OnTheWay = <<>> /\ Len(<<>>) = 0
      BY <3>1, ConcatEmptySeq, EmptySeq DEF OnTheWay
    <3> QED
      BY <2>1, <3>2 DEF FocusInv, FocusWillDecide, WillBe
  <2> QED
    BY <2>1 DEF FocusInv, BlockedIsSilent, FocusDecidesBlocking
<1> QED
  BY <1>1, <1>2, <1>3, TypesHold, PTL DEF Spec
-----------------------------------------------------------------------------
(* MusicSystem implements JobQueue.                                        *)

(* Where the worker is in the loop does not matter to those who wait.      *)
InLoop == worker \notin {"run", "exit"}

LEMMA Services ==
  /\ worker = "exit" => Service = "closed" /\ Pending = <<>>
  /\ worker # "exit" => Pending = todo \o m_Jobs
  /\ worker # "exit" /\ m_Quit => Service = "quitting"
  /\ worker = "run" /\ ~m_Quit => Service = "starting"
  /\ InLoop /\ ~m_Quit => Service = "open"
BY DEF Service, Pending, InLoop, m_Quit

LEMMA ServicesAfter ==
  /\ worker' = "exit" => Service' = "closed" /\ Pending' = <<>>
  /\ worker' # "exit" => Pending' = todo' \o m_Jobs'
  /\ worker' # "exit" /\ m_Quit' => Service' = "quitting"
  /\ worker' = "run" /\ ~m_Quit' => Service' = "starting"
  /\ InLoop' /\ ~m_Quit' => Service' = "open"
BY DEF Service, Pending, InLoop, m_Quit

Stutters == UNCHANGED <<Pending, Service>>

LEMMA PushGives ==
  ASSUME Types, Push
  PROVE  Stutters \/ \E job \in Jobs : Promise!Give(job)
<1>1. /\ UNCHANGED <<todo, worker>> /\ ~m_Quit /\ ~m_Quit'
      /\ m_Jobs' = Append(m_Jobs, call) /\ QueueTypes
  BY GameStepIsLocal DEF Push, Types, GameStep, GameGoesOn, workerVars, Queueing, m_Quit
<1>2. CASE worker = "exit"
  BY <1>1, <1>2, Services, ServicesAfter DEF Stutters
<1>3. CASE worker # "exit"
  <2>1. todo \o Append(m_Jobs, call) = Append(todo \o m_Jobs, call)
    <3>1. todo \o m_Jobs \in Seq(Jobs) /\ Append(m_Jobs, call) \in Seq(Jobs)
      BY <1>1, ConcatProperties, AppendProperties DEF QueueTypes
    <3>2. /\ todo \o m_Jobs \o <<>> = todo \o m_Jobs
          /\ todo \o Append(m_Jobs, call) \o <<>> = todo \o Append(m_Jobs, call)
      <4>1. todo \o Append(m_Jobs, call) \in Seq(Jobs)
        BY <1>1, <3>1, ConcatProperties DEF QueueTypes
      <4> QED
        BY <3>1, <4>1, ConcatEmptySeq
    <3> QED
      BY <1>1, <3>2, Ways DEF QueueTypes
  <2>2. Pending' = Append(Pending, call) /\ Pending = todo \o m_Jobs
    BY <1>1, <1>3, <2>1, Services, ServicesAfter
  <2>3. Service \in {"starting", "open"} /\ UNCHANGED Service
    <3>1. worker = "run" \/ InLoop
      BY <1>3 DEF InLoop
    <3>2. InLoop' <=> InLoop
      BY <1>1 DEF InLoop
    <3> QED
      BY <1>1, <3>1, <3>2, Services, ServicesAfter
  <2> QED
    BY <1>1, <2>2, <2>3 DEF Promise!Give, QueueTypes
<1> QED
  BY <1>2, <1>3

LEMMA GameStepRefines ==
  ASSUME Types, GameStep
  PROVE  [Promise!Next]_(Promise!vars)
<1> USE DEF Promise!vars, Promise!Next
<1>1. UNCHANGED <<todo, worker>>
  BY GameStepIsLocal DEF workerVars
<1>2. InLoop' <=> InLoop
  BY <1>1 DEF InLoop
<1>3. worker = "exit" \/ worker = "run" \/ InLoop
  BY DEF InLoop
<1>4. CASE Push
  BY <1>4, PushGives DEF Stutters
<1>5. CASE UNCHANGED m_Jobs /\ (m_Quit' <=> m_Quit)
  <2>1. Pending' = Pending
    BY <1>1, <1>5, Services, ServicesAfter
  <2>2. Service' = Service
    BY <1>1, <1>2, <1>3, <1>5, Services, ServicesAfter
  <2> QED
    BY <2>1, <2>2
<1>6. CASE Destroy
  <2>1. UNCHANGED m_Jobs /\ ~m_Quit /\ m_Quit'
    BY <1>6 DEF Destroy, m_Quit
  <2>2. Pending' = Pending
    BY <1>1, <2>1 DEF Pending
  <2>3. CASE worker = "exit"
    BY <1>1, <2>2, <2>3, Services, ServicesAfter
  <2>4. CASE worker # "exit"
    BY <1>1, <1>3, <2>1, <2>2, <2>4, Services, ServicesAfter DEF Promise!Quit
  <2> QED
    BY <2>3, <2>4
<1>7. CASE ~Push /\ ~Destroy
  <2>1. UNCHANGED m_Jobs /\ (m_Quit' <=> m_Quit)
    BY <1>7 DEF m_Quit, Types, GameTypes, GameStep, GameCommands, GameGoesOn, FadeEnds, Play,
         Queue, Command, FocusChanges, MusicOn, MusicReset, MusicOff, MusicFadeout, SetVolume,
         PlayReadsPaused, MusicOffDisables, Joined
  <2> QED
    BY <1>5, <2>1
<1> QED
  BY <1>4, <1>6, <1>7

(* A job is run when the worker takes it from the list.                    *)
LEMMA NextJobRuns ==
  ASSUME Types, NEW job, NextJob(job), InLoop', UNCHANGED game
  PROVE  Promise!Run
<1>1. /\ worker = "jobs" /\ todo # <<>> /\ todo' = Tail(todo) /\ UNCHANGED m_Jobs
      /\ todo \in Seq(Jobs) /\ m_Jobs \in Seq(Jobs)
  BY DEF NextJob, Types, QueueTypes
<1>2. InLoop /\ worker # "exit" /\ worker' # "exit" /\ (m_Quit' <=> m_Quit)
  BY <1>1 DEF InLoop, m_Quit
<1>3. Pending = todo \o m_Jobs /\ Pending' = Tail(todo) \o m_Jobs
  BY <1>1, <1>2, Services, ServicesAfter
<1>4. Pending # <<>> /\ Pending' = Tail(Pending)
  BY <1>1, <1>3, WayOfTail
<1>5. Service \in {"open", "quitting"} /\ UNCHANGED Service
  BY <1>2, Services, ServicesAfter
<1> QED
  BY <1>4, <1>5 DEF Promise!Run

LEMMA WorkerRefines ==
  ASSUME Types, NothingLeftTodo, Worker \/ Underrun
  PROVE  [Promise!Next]_(Promise!vars)
<1> USE DEF Promise!vars, Promise!Next
<1>1. UNCHANGED game /\ (m_Quit' <=> m_Quit)
  BY WorkerIsLocal DEF m_Quit
<1>2. ASSUME UNCHANGED <<todo, m_Jobs>>, InLoop, InLoop'
      PROVE  UNCHANGED <<Pending, Service>>
  <2>1. worker # "exit" /\ worker' # "exit"
    BY <1>2 DEF InLoop
  <2> QED
    BY <1>1, <1>2, <2>1, Services, ServicesAfter
<1>3. CASE RunStarts
  <2>1. worker = "run" /\ worker' \in {"top", "exit"} /\ UNCHANGED <<todo, m_Jobs>>
    BY <1>3 DEF RunStarts, Goto
  <2>2. Service = IF m_Quit THEN "quitting" ELSE "starting"
    BY <2>1, Services
  <2>3. CASE worker' = "exit"
    <3>1. Service' = "closed" /\ Pending' = <<>>
      BY <2>3, ServicesAfter
    <3> QED
      BY <2>2, <3>1 DEF Promise!Close
  <2>4. CASE worker' = "top"
    <3>1. InLoop' /\ worker # "exit" /\ worker' # "exit"
      BY <2>1, <2>4 DEF InLoop
    <3>2. UNCHANGED Pending
      BY <2>1, <3>1, Services, ServicesAfter
    <3>3. CASE m_Quit
      BY <1>1, <3>1, <3>2, <3>3, Services, ServicesAfter
    <3>4. CASE ~m_Quit
      BY <1>1, <2>2, <3>1, <3>2, <3>4, ServicesAfter DEF Promise!Open
    <3> QED
      BY <3>3, <3>4
  <2> QED
    BY <2>1, <2>3, <2>4
<1>4. CASE RunQuits
  <2>1. worker = "top" /\ m_Quit /\ worker' = "exit"
    BY <1>4 DEF RunQuits, Goto
  <2>2. Service = "quitting" /\ Service' = "closed" /\ Pending' = <<>>
    BY <2>1, Services, ServicesAfter
  <2> QED
    BY <2>2 DEF Promise!Close
<1>5. CASE TakeJobs
  <2>1. /\ worker = "top" /\ worker' = "jobs" /\ ~m_Quit
        /\ todo = <<>> /\ todo' = m_Jobs /\ m_Jobs' = <<>> /\ m_Jobs \in Seq(Jobs)
    BY <1>5 DEF TakeJobs, Goto, NothingLeftTodo, AfterJobs, Types, QueueTypes
  <2>2. m_Jobs \o <<>> = m_Jobs /\ <<>> \o m_Jobs = m_Jobs
    BY <2>1, ConcatEmptySeq
  <2>3. InLoop /\ InLoop' /\ worker # "exit" /\ worker' # "exit"
    BY <2>1 DEF InLoop
  <2> QED
    BY <1>1, <2>1, <2>2, <2>3, Services, ServicesAfter
<1>6. ASSUME NEW job, NextJob(job), worker' \in {"jobs", "stop", "pause", "resume",
               "forced_volume", "restart", "load"}
      PROVE  Promise!Run
  <2>1. InLoop'
    BY <1>6 DEF InLoop
  <2> QED
    BY <1>1, <1>6, <2>1, NextJobRuns
<1>7. CASE RunStop \/ RunPause \/ RunResume \/ RunBlock \/ RunUnblock \/ RunStart
  BY <1>6, <1>7 DEF RunStop, RunPause, RunResume, RunBlock, RunUnblock, RunStart, CallStop,
       Call, Goto
<1>8. CASE \/ TakeNoJobs \/ JobsDone \/ Restart \/ Load \/ Begin \/ Started \/ StartFailed
           \/ StopActs \/ PauseActs \/ ResumeActs \/ SetPlaying \/ Update
           \/ UpdateVolumeInLoop \/ UpdateVolumeOfUnblock
  <2>1. UNCHANGED <<todo, m_Jobs>> /\ InLoop /\ InLoop'
    BY <1>8 DEF InLoop, Types, WorkerTypes, Goto, CallStop, Call, TakeNoJobs, JobsDone, Restart,
         Load, Begin, Started, StartFailed, StopActs, PauseActs, ResumeActs, Act, SetPlaying,
         Update, AfterFeeding, UpdateVolumeInLoop, UpdateVolumeOfUnblock, UpdateVolume
  <2> QED
    BY <1>2, <2>1
<1>9. CASE Underrun
  BY <1>1, <1>9 DEF Underrun, Pending, Service
<1> QED
  BY <1>3, <1>4, <1>5, <1>7, <1>8, <1>9 DEF Worker

(* The worker takes the queue only with nothing left of what it took before. *)
LEMMA TodoIsWorkedOff == Spec => []NothingLeftTodo
<1>1. Init => NothingLeftTodo
  BY DEF Init, NothingLeftTodo
<1>2. ASSUME Types, NothingLeftTodo, [Next]_vars  PROVE NothingLeftTodo'
  <2>1. CASE GameStep \/ Worker \/ Underrun
    BY <1>2, <2>1, StepKeepsTodo DEF Types
  <2>2. CASE UNCHANGED vars
    BY <1>2, <2>2 DEF NothingLeftTodo, AfterJobs, InOperation, vars
  <2> QED
    BY <1>2, <2>1, <2>2 DEF Next, Environment, GameStep, Terminated
<1> QED
  BY <1>1, <1>2, TypesHold, PTL DEF Spec

(* Commands are run in the order in which they were given, each of them    *)
(* once, and only the end of the worker discards any.                      *)
THEOREM MusicImplementsJobQueue == Spec => ImplementsJobQueue
<1>1. Init => Promise!Init
  <2> SUFFICES ASSUME Init  PROVE Promise!Init
    OBVIOUS
  <2>1. todo = <<>> /\ m_Jobs = <<>> /\ worker = "run" /\ ~m_Quit
    BY DEF Init, m_Quit
  <2>2. <<>> \o <<>> = <<>>
    BY ConcatEmptySeq, EmptySeq
  <2> QED
    BY <2>1, <2>2, Services DEF Promise!Init
<1>2. ASSUME Types, NothingLeftTodo, [Next]_vars  PROVE [Promise!Next]_(Promise!vars)
  <2>1. CASE UNCHANGED vars
    BY <2>1 DEF vars, Pending, Service, m_Quit, Promise!vars
  <2> QED
    BY <1>2, <2>1, GameStepRefines, WorkerRefines DEF Next, Environment, GameStep, Terminated
<1> QED
  BY <1>1, <1>2, TypesHold, TodoIsWorkedOff, PTL DEF Spec, ImplementsJobQueue, Promise!Spec

-----------------------------------------------------------------------------
(* Quitting.  How many steps are left, place by place.                     *)

LEMMA StepsFromJobsIsBig == QueueTypes => StepsFromJobs \in Nat /\ StepsFromJobs >= 8
<1> SUFFICES ASSUME QueueTypes  PROVE StepsFromJobs \in Nat /\ StepsFromJobs >= 8
  OBVIOUS
<1>1. Len(todo) \in Nat
  BY LenProperties DEF QueueTypes
<1> QED
  BY <1>1 DEF StepsFromJobs, StepsOfAJob

LEMMA StepsAreNatural == Types => StepsLeft \in Nat
<1> SUFFICES ASSUME Types  PROVE StepsLeft \in Nat
  OBVIOUS
<1>1. StepsFromJobs \in Nat
  BY StepsFromJobsIsBig DEF Types
<1> QED
  BY <1>1 DEF StepsLeft, StepsFrom, Types, WorkerTypes

(* A job that is run leaves fewer steps than it found, whatever it does.   *)
LEMMA NextJobApproaches ==
  ASSUME Types, NEW job, NextJob(job)
  PROVE  /\ StepsLeft = StepsFromJobs /\ StepsFromJobs \in Nat /\ StepsFromJobs' \in Nat
         /\ StepsFromJobs = StepsFromJobs' + 10
<1>1. worker = "jobs" /\ todo # <<>> /\ todo \in Seq(Jobs) /\ todo' = Tail(todo)
  BY DEF NextJob, Types, QueueTypes
<1>2. /\ Len(todo) \in Nat /\ Len(todo') \in Nat
      /\ Len(todo) = Len(todo') + 1
  BY <1>1, HeadTailProperties, LenProperties
<1>3. /\ StepsFromJobs = 8 + 10 * Len(todo)
      /\ StepsFromJobs' = 8 + 10 * Len(todo')
  BY DEF StepsFromJobs, StepsOfAJob
<1> QED
  BY <1>1, <1>2, <1>3 DEF StepsLeft, StepsFrom

LEMMA WorkerApproaches ==
  ASSUME Types, Worker, m_Quit
  PROVE  StepsLeft' < StepsLeft
<1> USE DEF Goto, CallStop, Call, StepsLeft, StepsFrom
<1>t. WorkerTypes /\ StepsFromJobs \in Nat /\ StepsFromJobs >= 8
  BY StepsFromJobsIsBig DEF Types
<1>q. ~Queueing
  BY DEF m_Quit, Queueing
<1>r. todo' = todo => StepsFromJobs' = StepsFromJobs
  BY DEF StepsFromJobs
<1>1. CASE RunStarts \/ RunQuits \/ JobsDone
  BY <1>1, <1>t DEF RunStarts, RunQuits, JobsDone
<1>2. CASE TakeJobs \/ TakeNoJobs
  BY <1>2, <1>q DEF TakeJobs, TakeNoJobs
<1>3. CASE RunStop \/ RunPause \/ RunResume
  <2>1. /\ worker' \in {"jobs", "stop", "pause", "resume"}
        /\ worker' # "jobs" => ret' = "jobs"
        /\ \E job \in Jobs : NextJob(job)
    BY <1>3 DEF RunStop, RunPause, RunResume, Jobs
  <2>2. /\ StepsLeft = StepsFromJobs' + 10 /\ StepsFromJobs' \in Nat
    BY <1>t, <2>1, NextJobApproaches
  <2>3. StepsLeft' = StepsFromJobs' \/ StepsLeft' = StepsFromJobs' + 2
    BY <2>1
  <2> HIDE DEF StepsLeft, StepsFrom
  <2> QED
    BY <2>2, <2>3
<1>4. CASE RunBlock \/ RunUnblock \/ RunStart
  <2>1. /\ worker' \in {"jobs", "forced_volume", "restart", "load"}
        /\ \E job \in Jobs : NextJob(job)
    BY <1>4 DEF RunBlock, RunUnblock, RunStart, Jobs
  <2>2. /\ StepsLeft = StepsFromJobs' + 10 /\ StepsFromJobs' \in Nat
    BY <1>t, <2>1, NextJobApproaches
  <2>3. \/ StepsLeft' = StepsFromJobs'     \/ StepsLeft' = StepsFromJobs' + 3
        \/ StepsLeft' = StepsFromJobs' + 6 \/ StepsLeft' = StepsFromJobs' + 9
    BY <2>1
  <2> HIDE DEF StepsLeft, StepsFrom
  <2> QED
    BY <2>2, <2>3
<1>5. CASE Restart \/ Load \/ Begin \/ Started \/ StartFailed
  <2>1. todo' = todo
    BY <1>5 DEF Restart, Load, Begin, Started, StartFailed
  <2>2. StepsFromJobs' = StepsFromJobs
    BY <1>r, <2>1
  <2> QED
    BY <1>5, <1>t, <2>2 DEF Restart, Load, Begin, Started, StartFailed
<1>6. CASE StopActs \/ PauseActs \/ ResumeActs
  <2>1. /\ todo' = todo /\ ret' = ret
        /\ worker \in {"stop", "pause", "resume"} /\ worker' \in {"playing", "not_playing"}
    BY <1>6 DEF StopActs, PauseActs, ResumeActs, Act
  <2>2. StepsFromJobs' = StepsFromJobs
    BY <1>r, <2>1
  <2> QED
    BY <1>t, <2>1, <2>2 DEF WorkerTypes
<1>7. CASE SetPlaying
  <2>1. todo' = todo /\ worker \in {"playing", "not_playing"} /\ worker' = ret
    BY <1>7 DEF SetPlaying
  <2>2. StepsFromJobs' = StepsFromJobs
    BY <1>r, <2>1
  <2> QED
    BY <1>t, <2>1, <2>2 DEF WorkerTypes
<1>8. CASE Update \/ UpdateVolumeInLoop \/ UpdateVolumeOfUnblock
  <2>1. todo' = todo
    BY <1>8 DEF Update, UpdateVolumeInLoop, UpdateVolumeOfUnblock, UpdateVolume
  <2>2. StepsFromJobs' = StepsFromJobs
    BY <1>r, <2>1
  <2> QED
    BY <1>8, <1>t, <2>2
       DEF Update, AfterFeeding, UpdateVolumeInLoop, UpdateVolumeOfUnblock, UpdateVolume
<1> QED
  BY <1>1, <1>2, <1>3, <1>4, <1>5, <1>6, <1>7, <1>8 DEF Worker

(* The destructor waits for a bounded number of steps of the worker, with  *)
(* however many jobs m_Quit catches it: every step is one nearer to the end. *)
THEOREM DestructorWaitsBounded == Spec => QuitApproaches /\ [](StepsLeft \in Nat)
<1>1. ASSUME Types, [Next]_vars
      PROVE  [m_Quit => StepsLeft' < StepsLeft \/ UNCHANGED <<worker, ret, todo>>]_vars
  <2>1. CASE GameStep
    BY <2>1, GameStepIsLocal DEF workerVars
  <2>2. CASE Worker
    BY <1>1, <2>2, WorkerApproaches
  <2>3. CASE Underrun
    BY <2>3 DEF Underrun
  <2>4. CASE UNCHANGED vars
    BY <2>4 DEF vars
  <2> QED
    BY <1>1, <2>1, <2>2, <2>3, <2>4 DEF Next, Environment, GameStep, Terminated
<1> QED
  BY <1>1, TypesHold, StepsAreNatural, PTL DEF Spec, QuitApproaches
=============================================================================
