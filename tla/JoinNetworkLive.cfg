SPECIFICATION FairSpec
CONSTANTS
  Node <- MCNode
  Gateway = "S1"
  Hop <- MCHop
  All = "all"
  Timeout = 7
  Calm = TRUE
  Losses = 1
  Grace = 3
CHECK_DEADLOCK FALSE
PROPERTY AllJoin
