CONSTANTS
  p1 = p1
  p2 = p2
  NoPlayer = NoPlayer
  Players <- MCPlayers
SPECIFICATION FairSpec
INVARIANTS
  CustodyAgreed
  HandsHoldTheirFlag
  CarrierIsLiveEnemy
  FlagStaysInPlay
  PedestalShowsFlag
PROPERTIES
  DroppedFlagLeavesGround
  AbandonedFlagRecovered
  ImplementsCustody
