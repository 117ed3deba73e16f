CONSTANTS
  barney = barney
  hassault = hassault
  enter = enter
  greet = greet
  None = None
  Monsters = {barney, hassault}
  Scripts = {enter, greet}
  Cast <- MCCast
  WalkTo = {enter, greet}
  Repeatable = {greet}
  Idle = {greet}
  Squad = {hassault}
  Prey = {barney}
  MaxTurns = 2
  MaxRestores = 1
SPECIFICATION Spec
INVARIANTS
  PossessionMutual
  ScriptedHaveCine
  
  DelayCounts
  NobodyWaitsInVain
PROPERTIES
  InConcert
  WalkersPlay
CHECK_DEADLOCK FALSE
