SPECIFICATION FairSpec
CONSTANTS
  Node <- MCNode
  Leader = "S1"
  NodeId <- MCNodeId
  Packet <- MCPacket
  NoPacket = "None"
  MaxSeqno = 1
  EarlyClients = FALSE
CONSTRAINT ClientOrder
INVARIANTS
  TypeOK
  HeadNotProcessed
  NoUpdateLost
PROPERTIES
  ImplementsPacketOrder
  LearnedIsForwarded
