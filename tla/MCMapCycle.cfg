CONSTANTS
  undertow = undertow
  snark_pit = snark_pit
  boot_camp = boot_camp
  cycle1 = cycle1
  cycle2 = cycle2
  NoFile = NoFile
  Maps <- MCMaps
  Files <- MCFiles
  Cycles <- MCCycles
  MaxClients = 3
SPECIFICATION Spec
INVARIANTS
  NoEntryStarves
  SuitableIfAny
  CurrentMapExists
  LoopsAreOneWalk
