--------------------------- MODULE MCMusicSystem ---------------------------
(* A bound for MusicSystem: with two jobs in the queue and two being worked *)
(* off, commands can overtake, cancel and repeat one another.               *)
EXTENDS MusicSystem

MCMaxJobs == 2
=============================================================================
