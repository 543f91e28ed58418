SPECIFICATION Spec
CONSTANTS
  Node <- MCNode
  Leader = "S1"
  NodeId <- MCNodeId
  Packet <- MCPacket
  NoPacket = "None"
  MaxSeqno = 1
  Slow = "S1"
CONSTRAINTS OneSlow ClientOrder
INVARIANTS
  TypeOK
  InOrderExactlyOnce
  SamePackets
  MajorityAccepted
  HeadNotProcessed
PROPERTIES
  LearnedKept
  ImplementsPacketOrder
