----------------------------- MODULE MCSlotQueue -----------------------------
(* SlotQueue in each of the three controllers that the repository deploys. *)
EXTENDS SlotQueue

MCNodeId == [S1 |-> 1, S2 |-> 2, S3 |-> 3]

MCNode == DOMAIN MCNodeId

MCPackets == <<"p1", "p2">>

MCPacket == {MCPackets[i] : i \in DOMAIN MCPackets}

\* Bound: the packets differ, and arrive in this order.
ClientOrder ==
  \A i \in 1..Len(log) : i \in DOMAIN MCPackets /\ log[i].v = MCPackets[i]
=============================================================================
