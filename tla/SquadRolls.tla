----------------------------- MODULE SquadRolls -----------------------------
(***************************************************************************)
(* What squads are to the outside, without recruiting, handles and slots:  *)
(* whom each monster follows.  A squad is formed at once, of monsters that *)
(* are in none, under a leader nobody follows, and never grows after that: *)
(* its members leave it, for another one only later.                       *)
(*                                                                         *)
(* Squads is shown to implement this specification.                        *)
(***************************************************************************)
CONSTANTS Monsters,
          Bands,   \* the sets of monsters that may follow one leader
          None

VARIABLE squadOf   \* the leader of each monster's squad, a leader's itself

TypeOK == squadOf \in [Monsters -> Monsters \cup {None}]

Init == squadOf = [m \in Monsters |-> None]

Form(l, R) ==
  /\ l \notin R
  /\ \A m \in R \cup {l} : squadOf[m] = None
  /\ \A m \in Monsters : squadOf[m] # l
  /\ squadOf' = [m \in Monsters |-> IF m \in R \cup {l} THEN l ELSE squadOf[m]]

(* One that dies or is removed, or all of a squad that is disbanded.       *)
Leave(M) ==
  /\ \A m \in M : squadOf[m] # None
  /\ squadOf' = [m \in Monsters |-> IF m \in M THEN None ELSE squadOf[m]]

Next ==
  \/ \E M \in SUBSET Monsters : Leave(M)
  \/ \E l \in Monsters, R \in Bands : Form(l, R)

Spec == Init /\ [][Next]_squadOf
=============================================================================
