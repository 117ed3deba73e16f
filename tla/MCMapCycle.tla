----------------------------- MODULE MCMapCycle -----------------------------
(* Map cycles for MapCycle: one of four entries with a lower, an upper,    *)
(* both and no limits, two of them with the same map; shorter ones, which  *)
(* are what is left of it when a map is missing; and the empty one.        *)
EXTENDS MapCycle

CONSTANTS undertow, snark_pit, boot_camp, cycle1, cycle2

MCMaps  == {undertow, snark_pit, boot_camp}
MCFiles == {cycle1, cycle2}

Entry(m, lo, hi) == [map |-> m, MinPlayers |-> lo, MaxPlayers |-> hi]

MCCycles == {
  <<Entry(undertow, 2, 0), Entry(snark_pit, 1, 2),
    Entry(boot_camp, 3, 0), Entry(undertow, 0, 0)>>,
  <<Entry(undertow, 2, 0), Entry(snark_pit, 1, 2), Entry(boot_camp, 0, 1)>>,
  <<Entry(snark_pit, 1, 2), Entry(boot_camp, 3, 0)>>,
  <<>>}
=============================================================================
