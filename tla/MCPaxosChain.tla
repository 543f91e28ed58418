---------------------------- MODULE MCPaxosChain ----------------------------
(* PaxosChain on the line S1 - S2 - S3 of PaxosTopology. *)
EXTENDS PaxosChain

MCNodeId == [S1 |-> 1, S2 |-> 2, S3 |-> 3]

MCNode == DOMAIN MCNodeId

MCPackets == <<"p1", "p2">>

MCPacket == {MCPackets[i] : i \in DOMAIN MCPackets}

\* Bound: the packets differ, and arrive in this order.
ClientOrder ==
  \A i \in 1..Len(submitted) : i \in DOMAIN MCPackets /\ submitted[i] = MCPackets[i]

MCMacOrder == <<"S1", "S2", "S3">>

MCHop == [S1 |-> [S1 |-> "S1", S2 |-> "S2", S3 |-> "S2"],
          S2 |-> [S1 |-> "S1", S2 |-> "S2", S3 |-> "S3"],
          S3 |-> [S1 |-> "S2", S2 |-> "S2", S3 |-> "S3"]]
=============================================================================
