----------------------------- MODULE PaxosChain -----------------------------
(***************************************************************************)
(* PaxosController on the network of paxos/topology.py: the switches are   *)
(* linked in a line, S1 - S2 - S3, so that frames between S1 and S3 pass   *)
(* through the learning switch of S2.  A link neither loses nor duplicates *)
(* ("loss": 0) and delivers in the order of sending.                       *)
(***************************************************************************)
EXTENDS PaxosController

CONSTANTS
  MacOrder,     \* the nodes, sorted by MAC address as in ordered_nodes
  Hop,          \* Hop[a][b]: the neighbour of a on the way to b
  EarlyClients, \* do clients send before all switches have joined?
  LateHosts     \* switches whose hosts may be unknown when clients first send

ASSUME MacOrderAssumption ==
  MacOrder \in Seq(Node) /\ {MacOrder[i] : i \in 1..Len(MacOrder)} = Node
ASSUME HopAssumption ==
  /\ Hop \in [Node -> [Node -> Node]]
  /\ \A a, b \in Node : a # b => Hop[a][b] # a
ASSUME ClientsAssumption == EarlyClients \in BOOLEAN /\ LateHosts \subseteq Node

VARIABLE link  \* the frames under way from one switch to a neighbour

chainVars == <<vars, link>>

Link == {<<a, Hop[a][b]>> : a \in Node, b \in Node} \ {<<a, a>> : a \in Node}

Frame == [dst: Node, msg: AcceptMsg \cup LearnMsg]

-----------------------------------------------------------------------------
(* Sending *)

\* The elements of s that are in T, in their order.
Only(s, T) ==
  LET f[i \in 0..Len(s)] ==
        IF i = 0 THEN <<>>
        ELSE IF s[i] \in T THEN Append(f[i - 1], s[i]) ELSE f[i - 1]
  IN  f[Len(s)]

\* One frame with message m to each node but a, in the order of the loop.
ToOthers(a, m) ==
  LET others == Only(MacOrder, Node \ {a})
  IN  [i \in 1..Len(others) |-> [dst |-> others[i], msg |-> m]]

\* The frames that take link e to the next switch.
Taking(e) == {f \in Frame : Hop[e[1]][f.dst] = e[2]}

\* l after switch a has sent the frames fs, each out of the port of its hop.
Push(l, a, fs) ==
  [e \in Link |-> IF e[1] = a THEN l[e] \o Only(fs, Taking(e)) ELSE l[e]]

Pop(e) == [link EXCEPT ![e] = Tail(@)]

-----------------------------------------------------------------------------
(* Actions *)

ChainInit == Init /\ link = [e \in Link |-> <<>>]

AllStarted == \A a \in Node : stage[a] \in {"pump", "gc"}

\* The leader's ACCEPTs, and then the LEARNs of its own on_accept.
ClientSends(v) ==
  /\ EarlyClients \/ AllStarted
  /\ \A a \in Node \ LateHosts : known[a]
  /\ OnClient(v)
  /\ LET n == state[Leader].crnd
         s == NextSeqno
     IN  link' = Push(link, Leader, ToOthers(Leader, Accept(n, s, v)) \o
                                    ToOthers(Leader, Learn(Leader, n, s)))

\* A frame to another node: not for this controller, so its switch forwards it.
Relay(e) ==
  /\ link[e] # <<>> /\ Head(link[e]).dst # e[2]
  /\ link' = Push(Pop(e), e[2], <<Head(link[e])>>)
  /\ UNCHANGED vars

\* on_accept, and the LEARNs it sends.
OnAcceptFrame(e) ==
  LET a == e[2]
      m == Head(link[e]).msg
  IN  /\ ReceiveAccept(a, m)
      /\ link' = Push(Pop(e), a, IF Accepts(state[a], m.n, m.seqno)
                                 THEN ToOthers(a, Learn(a, m.n, m.seqno)) ELSE <<>>)

OnLearnFrame(e) == ReceiveLearn(e[2], Head(link[e]).msg) /\ link' = Pop(e)

\* A frame for this controller: dispatch_paxos, which drops it before the
\* network is joined.
Dispatch(e) ==
  /\ link[e] # <<>> /\ Head(link[e]).dst = e[2]
  /\ IF Joined(e[2]) THEN OnAcceptFrame(e) \/ OnLearnFrame(e)
     ELSE link' = Pop(e) /\ UNCHANGED vars

Deliver(e) == Relay(e) \/ Dispatch(e)

\* What the threads do without sending a frame.
Start(a) ==
  /\ \/ Join(a) \/ StartPump(a)
     \/ a = Leader /\ (MakeLeader \/ PickNext)
  /\ UNCHANGED link

Background(a) == (Pump(a) \/ GarbageCollect(a)) /\ UNCHANGED link

\* Bound: once known, the addresses of a switch's hosts stay known.
LearnHosts(a) == ~known[a] /\ HostsChange(a) /\ UNCHANGED link

ChainNext ==
  \/ \E v \in Packet : ClientSends(v)
  \/ \E e \in Link : Deliver(e)
  \/ \E a \in Node : Start(a) \/ Background(a) \/ LearnHosts(a)

ChainSpec == ChainInit /\ [][ChainNext]_chainVars

\* Something under way moves, start-up proceeds and the pings of the hosts
\* reveal them; the pump thread of each node keeps running (its sleep ends).
\* No link or node needs fairness of its own in the first two: what they do
\* ends.  Nothing makes a client send.
Fairness ==
  /\ WF_chainVars(\E e \in Link : Deliver(e))
  /\ WF_chainVars(\E a \in Node : Start(a) \/ LearnHosts(a))
  /\ \A a \in Node : WF_chainVars(Background(a))

FairChainSpec == ChainSpec /\ Fairness

-----------------------------------------------------------------------------
(* Properties *)

\* On this network the hosts get the packets themselves, in the same order
\* at all switches: PacketOrder with nothing in place of a packet.
Exact == INSTANCE PacketOrder WITH Blank <- {}, log <- submitted, out <- Sent

ImplementsExactOrder == Exact!Spec

\* Every packet that the leader numbered reaches the hosts of every switch.
EveryPacketForwarded ==
  \A s \in Seqno : s <= seqno ~> \A a \in Node : state[a].cseq > s
=============================================================================
