SPECIFICATION FairChainSpec
CONSTANTS
  Node <- MCNode
  Leader = "S1"
  NodeId <- MCNodeId
  Packet <- MCPacket
  NoPacket = "None"
  MaxSeqno = 1
  MacOrder <- MCMacOrder
  Hop <- MCHop
  EarlyClients = FALSE
  LateHosts = {"S3"}
CONSTRAINT ClientOrder
PROPERTIES
  ImplementsExactOrder
  EveryPacketForwarded
