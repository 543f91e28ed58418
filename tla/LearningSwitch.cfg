SPECIFICATION FairSpec
CONSTANTS
  Switch <- MCSwitch
  Host <- MCHost
  Seat <- MCSeat
  Home <- MCHome
  Trunk <- MCTrunk
  FirstSeat <- MCFirstSeat
  AddFlows = TRUE
  All = "all"
  None = "none"
  MaxFrames = 3
  MaxChanges = 1
CONSTRAINT HostOrder
CHECK_DEADLOCK FALSE
INVARIANTS
  AtMostOnce
  NobodyHides
PROPERTY Delivered
