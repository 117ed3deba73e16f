----------------------------- MODULE Possession -----------------------------
(***************************************************************************)
(* What scripted sequences promise to the monsters they make use of,       *)
(* without schedules, thinks and pointers: a monster is in the hands of    *)
(* one script at a time, of one that may take it, and changes hands only   *)
(* by being let go first; a script is removed only with empty hands.       *)
(*                                                                         *)
(* ScriptedSequences is shown to implement this specification.             *)
(***************************************************************************)
CONSTANTS Monsters, Scripts, Cast, None

VARIABLES has,    \* the monster each script has, or None
          over,   \* the scripts that have been removed
          away    \* the monsters that have been removed

vars == <<has, over, away>>

TypeOK ==
  /\ has \in [Scripts -> Monsters \cup {None}]
  /\ over \subseteq Scripts
  /\ away \subseteq Monsters

Init ==
  /\ has = [s \in Scripts |-> None]
  /\ over = {}
  /\ away = {}

Free(m) == m \notin away /\ \A s \in Scripts : has[s] # m

Take(s, m) ==
  /\ s \notin over /\ has[s] = None
  /\ m \in Cast[s] /\ Free(m)
  /\ has' = [has EXCEPT ![s] = m]
  /\ UNCHANGED <<over, away>>

(* A script's end lets one monster go, a cancel those of the whole group.  *)
LetGo(S) ==
  /\ \A s \in S : has[s] # None
  /\ has' = [s \in Scripts |-> IF s \in S THEN None ELSE has[s]]
  /\ UNCHANGED <<over, away>>

Remove(s) ==
  /\ has[s] = None
  /\ over' = over \cup {s}
  /\ UNCHANGED <<has, away>>

(* Whoever had the monster has nobody from now on.                         *)
Lose(m) ==
  /\ has' = [s \in Scripts |-> IF has[s] = m THEN None ELSE has[s]]
  /\ away' = away \cup {m}
  /\ UNCHANGED over

Next ==
  \/ \E S \in SUBSET Scripts : LetGo(S)
  \/ \E s \in Scripts : Remove(s) \/ \E m \in Monsters : Take(s, m)
  \/ \E m \in Monsters : Lose(m)

Spec == Init /\ [][Next]_vars
=============================================================================
