------------------------------ MODULE JobQueue ------------------------------
(***************************************************************************)
(* What the music player promises to those who give it commands, without   *)
(* the mutex, the two lists of jobs and the loop of the worker: the jobs   *)
(* are run one by one in the order in which they were given, none is run   *)
(* twice, and none is lost but to the end of the worker. The worker ends   *)
(* when it is told to, or at once if it gets no context.                   *)
(*                                                                         *)
(* MusicSystem is shown to implement this specification.                   *)
(***************************************************************************)
EXTENDS Sequences

CONSTANT Jobs

VARIABLES pending,   \* the jobs that have been given and not been run
          service    \* "starting", "open", "quitting" or "closed"

vars == <<pending, service>>

TypeOK ==
  /\ pending \in Seq(Jobs)
  /\ service \in {"starting", "open", "quitting", "closed"}

Init == pending = <<>> /\ service = "starting"

(* Jobs may be given before the worker is up.                              *)
Give(job) ==
  /\ service \in {"starting", "open"}
  /\ pending' = Append(pending, job)
  /\ UNCHANGED service

(* The one that was given first is run.                                    *)
Run ==
  /\ service \in {"open", "quitting"}
  /\ pending # <<>>
  /\ pending' = Tail(pending)
  /\ UNCHANGED service

Open ==
  /\ service = "starting"
  /\ service' = "open"
  /\ UNCHANGED pending

Quit ==
  /\ service \in {"starting", "open"}
  /\ service' = "quitting"
  /\ UNCHANGED pending

(* What has not been run is discarded, and whatever is given from now on.  *)
Close ==
  /\ service \in {"starting", "quitting"}
  /\ service' = "closed"
  /\ pending' = <<>>

Next == (\E job \in Jobs : Give(job)) \/ Run \/ Open \/ Quit \/ Close

Spec == Init /\ [][Next]_vars
=============================================================================
