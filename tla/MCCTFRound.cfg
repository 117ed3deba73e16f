CONSTANTS
  MaxClients = 4
  StatsBatch = 1
  MinChat = 1
  MaxChat = 7
  ChatTimes <- MCChatTimes
SPECIFICATION FairSpec
INVARIANTS
  IntermissionIsBounded
  StatisticsBelongToIntermission
  OnlyLastSlotIsMissed
PROPERTIES
  IntermissionEnds
  LimitEndsRound
