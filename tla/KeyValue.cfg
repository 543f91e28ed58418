SPECIFICATION FairSpec
CONSTANTS
  Missing = Missing
  Pong = Pong
  MaxValue = 3
  Buffer = 3
CHECK_DEADLOCK FALSE
PROPERTIES
  ServerCountsUp
  ClientCounts
