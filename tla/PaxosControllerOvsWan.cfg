SPECIFICATION Spec
CONSTANTS
  Node <- MCNode
  Leader = "S1"
  NodeId <- MCNodeId
  Hop <- MCHop
  Host = {"h1", "h2"}
  Client = {"c1"}
  Wan = "WAN1"
  Packet = {"p"}
  NoPacket = "None"
  None = "none"
  All = "all"
  MaxSeqno = 1
  WanAsks = FALSE
VIEW View
INVARIANTS
  EveryHostInOrder
