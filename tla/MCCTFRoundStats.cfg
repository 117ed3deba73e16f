CONSTANTS
  MaxClients = 7
  StatsBatch = 5
  MinChat = 5
  MaxChat = 600
  ChatTimes = {50}
SPECIFICATION Spec
INVARIANT EverybodyIsSent
