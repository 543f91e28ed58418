------------------------- MODULE MCPaxosController -------------------------
(* The instance of PaxosController that the repository deploys: S1, S2, S3. *)
EXTENDS PaxosController

CONSTANT Slow  \* the one node that may postpone packets and collect slots

\* int(self.name[-1])
MCNodeId == [S1 |-> 1, S2 |-> 2, S3 |-> 3]

MCNode == DOMAIN MCNodeId

MCPackets == <<"p1", "p2">>

MCPacket == {MCPackets[i] : i \in DOMAIN MCPackets}

\* Bound: the packets differ, and arrive in this order.
ClientOrder ==
  \A i \in 1..Len(submitted) : i \in DOMAIN MCPackets /\ submitted[i] = MCPackets[i]

\* Bound: all nodes have joined before the first frame is sent (a frame that a
\* node drops while it joins is a frame lost), the other nodes know their hosts
\* by then, and their background threads never get to collect.
OneSlow ==
  /\ seqno # -1 => \A a \in Node \ {Leader} : stage[a] \in {"pump", "gc"}
  /\ \A a \in Node \ {Slow} :
       /\ stage[a] # "gc"
       /\ stage[a] # "joining" => known[a]
=============================================================================
