------------------------------ MODULE MapCycle ------------------------------
(***************************************************************************)
(* The choice of the next level on a multiplayer server: MapCycleSystem    *)
(* keeps the map cycle of the file that the cvar mapcyclejsonfile names    *)
(* and a position in it, and CHalfLifeMultiplay::ChangeLevel asks it for   *)
(* the next map that admits the number of players on the server.           *)
(*                                                                         *)
(* The cycle is read once and kept across levels: maps may be installed    *)
(* and removed, and players come and go, before it is used.                *)
(***************************************************************************)
EXTENDS Naturals, Sequences

CONSTANTS Maps,        \* the names of maps
          Files,       \* the values of mapcyclejsonfile
          NoFile,      \* the m_PreviousMapCycleFile the server starts with
          MaxClients,  \* gpGlobals->maxClients
          Cycles       \* what the files may hold; <<>>: it cannot be read

(* A MapCycleItem, whose limits are clamped; 0 stands for no limit. *)
Item == [map : Maps, MinPlayers : 0 .. MaxClients, MaxPlayers : 0 .. MaxClients]

ASSUME MapCycleAssumption ==
  /\ NoFile \notin Files
  /\ MaxClients \in Nat \ {0}
  /\ Cycles \subseteq Seq(Item) /\ <<>> \in Cycles

VARIABLES
  mapcyclejsonfile,        \* the cvar
  m_PreviousMapCycleFile,  \* the file that has been loaded
  Items,                   \* m_MapCycle.Items; entry i of the code is Items[i + 1]
  Index,                   \* m_MapCycle.Index
  mapname,                 \* the current level
  installed,               \* the maps for which IS_MAP_VALID holds
  curplayers,              \* what CountPlayers returns
  waited,                  \* history: waited[i] is the number of choices in a
                           \* row for which entry i was suitable and not taken
  last                     \* history: did the last entry taken suit the number
                           \* of players, and did any?

cycleVars == <<m_PreviousMapCycleFile, Items, Index, waited, last>>
vars == <<mapcyclejsonfile, m_PreviousMapCycleFile, Items, Index, mapname,
          installed, curplayers, waited, last>>

Entries(items) == 0 .. Len(items) - 1

TypeOK ==
  /\ mapcyclejsonfile \in Files
  /\ m_PreviousMapCycleFile \in Files \cup {NoFile}
  /\ Items \in Seq(Item)
  /\ Index \in Nat /\ (Items # <<>> => Index < Len(Items))
  /\ mapname \in Maps
  /\ installed \in SUBSET Maps
  /\ curplayers \in 0 .. MaxClients
  /\ waited \in [Entries(Items) -> Nat]
  /\ last \in [suits : BOOLEAN, any : BOOLEAN]

Init ==
  /\ mapcyclejsonfile \in Files
  /\ m_PreviousMapCycleFile = NoFile
  /\ Items = <<>> /\ Index = 0
  /\ installed \in SUBSET Maps /\ mapname \in installed
  /\ curplayers = 0
  /\ waited = [i \in Entries(<<>>) |-> 0]
  /\ last = [suits |-> TRUE, any |-> TRUE]

-----------------------------------------------------------------------------
(* LoadMapCycle and ParseMapCycle: whatever the file holds, only entries   *)
(* whose map is there are kept.                                            *)
Loadable == {items \in Cycles : \A i \in 1 .. Len(items) : items[i].map \in installed}

(* The two tests of GetNextMap's loop. *)
Suits(item, n) ==
  /\ item.MinPlayers # 0 => n >= item.MinPlayers
  /\ item.MaxPlayers # 0 => n <= item.MaxPlayers

Suitable(items, n) == {i \in Entries(items) : Suits(items[i + 1], n)}

Least(S) == CHOOSE i \in S : \A j \in S : i <= j

(* Mutant of NextItem: the second pass of the loop is left out. *)
NextItem_OnePass(items, index, n) ==
  LET S == {i \in Suitable(items, n) : i >= index}
  IN  IF S # {} THEN Least(S) ELSE index

(* MapCycle::GetNextMap: first from index to the end, then from the        *)
(* beginning to index, and index itself if no entry is suitable.           *)
NextItem(items, index, n) ==
  LET after  == {i \in Suitable(items, n) : i >= index}
      before == {i \in Suitable(items, n) : i < index}
  IN  IF after # {} THEN Least(after)
      ELSE IF before # {} THEN Least(before) ELSE index

(* Mutant of Behind: the index stays at the entry that is taken. *)
Behind_Stays(items, i) == i

Behind(items, i) == (i + 1) % Len(items)

(* Mutant of LevelFor: the map is not looked up once more. *)
LevelFor_Unchecked(map) == map

(* If the map has gone since the cycle was loaded, the current level is    *)
(* started again.                                                          *)
LevelFor(map) == IF map \in installed THEN map ELSE mapname

(* The next entry is taken and the index moves behind it. *)
Take(items, index, old) ==
  LET i == NextItem(items, index, curplayers)
      S == Suitable(items, curplayers)
  IN  /\ Index' = Behind(items, i)
      /\ mapname' = LevelFor(items[i + 1].map)
      /\ waited' = [j \in Entries(items) |-> IF j \in S \ {i} THEN old[j] + 1 ELSE 0]
      /\ last' = [suits |-> i \in S, any |-> S # {}]

NotWaited(items) == [i \in Entries(items) |-> 0]

TakeOrRestart(items, index, old) ==
  /\ Items' = items
  /\ IF items # <<>>
     THEN Take(items, index, old)
     ELSE Index' = index /\ waited' = NotWaited(items) /\ UNCHANGED <<mapname, last>>

(* CHalfLifeMultiplay::ChangeLevel with MapCycleSystem::GetMapCycle: the   *)
(* file is loaded only when the cvar names another one.                    *)
ChangeLevel ==
  /\ m_PreviousMapCycleFile' = mapcyclejsonfile
  /\ IF m_PreviousMapCycleFile # mapcyclejsonfile
     THEN \E items \in Loadable : TakeOrRestart(items, 0, NotWaited(items))
     ELSE TakeOrRestart(Items, Index, waited)
  /\ UNCHANGED <<mapcyclejsonfile, installed, curplayers>>

-----------------------------------------------------------------------------
SetCvar(f) ==
  /\ mapcyclejsonfile' = f
  /\ UNCHANGED <<cycleVars, mapname, installed, curplayers>>

InstallMap(m) ==
  /\ installed' = installed \cup {m}
  /\ UNCHANGED <<mapcyclejsonfile, cycleVars, mapname, curplayers>>

(* The map that is being played stays. *)
RemoveMap(m) ==
  /\ m # mapname
  /\ installed' = installed \ {m}
  /\ UNCHANGED <<mapcyclejsonfile, cycleVars, mapname, curplayers>>

PlayersChange(n) ==
  /\ curplayers' = n
  /\ UNCHANGED <<mapcyclejsonfile, cycleVars, mapname, installed>>

Next ==
  \/ ChangeLevel
  \/ \E f \in Files : SetCvar(f)
  \/ \E m \in Maps : InstallMap(m) \/ RemoveMap(m)
  \/ \E n \in 0 .. MaxClients : PlayersChange(n)

Spec == Init /\ [][Next]_vars
-----------------------------------------------------------------------------
(* No entry is passed over for ever: one that admits the players at every  *)
(* level change is taken at the latest when all others have been.          *)
NoEntryStarves == \A i \in Entries(Items) : waited[i] < Len(Items)

(* An entry that does not admit the players is taken only if none does.    *)
SuitableIfAny == last.any => last.suits

(* The server never changes to a map that is not there, also if it was     *)
(* removed after the cycle was loaded.                                     *)
CurrentMapExists == mapname \in installed

(* GetNextMap takes the first suitable entry on the way round the cycle    *)
(* that begins at the index: its two loops are one walk, modulo the        *)
(* length.  Checked for every index and number of players.                 *)
OnTheWayRound(items, index, n) ==
  LET N == Len(items)
      At(k) == (index + k) % N
      hits == {k \in 0 .. N - 1 : At(k) \in Suitable(items, n)}
  IN  IF hits = {} THEN index ELSE At(Least(hits))

LoopsAreOneWalk ==
  \A index \in Entries(Items), n \in 0 .. MaxClients :
    NextItem(Items, index, n) = OnTheWayRound(Items, index, n)
=============================================================================
