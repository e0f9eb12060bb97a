SPECIFICATION FairSpec
CONSTANTS
  MaxLen = 4
  RequestLen <- MCLongest
  AnswerLen <- MCShort
  DeliveryLen <- MCShort
  MaxCommands = 4
  MaxRequests = 6
  MaxDeliveries = 3
INVARIANTS Lockstep RoomKnown EndToEnd
PROPERTIES RequestEnds EndsWithServer
CHECK_DEADLOCK FALSE
