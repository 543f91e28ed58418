SPECIFICATION FairSpec
CONSTANTS
  Client = {"c1", "c2"}
  Host = {"h1"}
  Pax = "pax"
  All = "all"
  None = "none"
  MaxSent = 3
  MaxReplies = 1
CONSTRAINT ClientOrder
CHECK_DEADLOCK FALSE
INVARIANTS
  OnlyThePrefixIsLost
  RepliesGetOut
PROPERTY PaxosIsFound
