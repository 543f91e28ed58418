-------------------------- MODULE PaxosControllerOvs --------------------------
(***************************************************************************)
(* The PaxosControllerOVS of paxos/controller/paxosctrl_ovs.py on one       *)
(* switch, with the ports and addresses that PaxosController leaves out:    *)
(* which frames it takes for itself and which its learning switch passes    *)
(* on, where it finds the other nodes and its hosts, and when it holds      *)
(* packets back.  paxosctrl.py treats ports and addresses in the same way.  *)
(*                                                                         *)
(* The other nodes, the hosts and the clients are surroundings: they send   *)
(* what the protocol lets them, any number of times and in any order.       *)
(***************************************************************************)
EXTENDS Integers, FiniteSets, Sequences

CONSTANTS
  Node,      \* the switches; also their MAC addresses
  Leader,    \* the switch named S1, which the WAN switch is linked to
  NodeId,    \* the trailing digit of each switch's name
  Hop,       \* Hop[a][b]: the neighbour of a on the way to b
  Host,      \* the hosts of the switch, one per port
  Client,    \* the clients behind the WAN switch
  Wan,       \* the WAN switch
  Packet,    \* what clients send
  NoPacket,  \* a Slot's vval before any ACCEPT
  None,      \* no port
  All,       \* ETHER_BROADCAST, and OFPP_ALL
  MaxSeqno,  \* Bound: the last sequence number
  WanAsks    \* did the WAN switch have to ask where the Paxos network is?

ASSUME NodeAssumption == IsFiniteSet(Node) /\ Leader \in Node
ASSUME NodeIdAssumption == NodeId \in [Node -> Nat \ {0}]
ASSUME HopAssumption ==
  /\ Hop \in [Node -> [Node -> Node]]
  /\ \A a, b \in Node : a # b => Hop[a][b] # a
ASSUME AddressAssumption ==
  /\ IsFiniteSet(Host) /\ Host \cap (Node \cup Client \cup {Wan}) = {}
  /\ Node \cap (Client \cup {Wan}) = {} /\ Wan \notin Client
  /\ {None, All} \cap (Node \cup Host \cup Client \cup {Wan}) = {} /\ None # All
ASSUME PacketAssumption == NoPacket \notin Packet
ASSUME BoundsAssumption == MaxSeqno \in Nat /\ WanAsks \in BOOLEAN

VARIABLES
  me,           \* the switch
  stage,        \* how far its start-up and pump threads are
  N,            \* state.N, the nodes it knows
  paxos_ports,  \* the port it has recorded for each node
  wan_port,     \* the port of the last CLIENT
  macports,     \* its learning switch's map from addresses to ports
  macip,        \* the addresses whose IP address its learning switch knows
  state,        \* the rest of its PaxosState
  submitted,    \* history: the packets the leader has numbered
  inbox,        \* history: what it has forwarded to each address
  out           \* the frames that left it in the last step, with their ports

tables == <<paxos_ports, wan_port, macports, macip>>
vars == <<me, stage, N, tables, state, submitted, inbox, out>>

-----------------------------------------------------------------------------
(* Ports and frames *)

Seqno == 0..MaxSeqno

Mac == Node \cup Host \cup Client \cup {Wan}

\* A port is named for what is at its other end.  The switch interface, which
\* the code leaves out of all counts, is left out here.
Port == Host \cup {Hop[me][b] : b \in Node \ {me}}
             \cup (IF me = Leader THEN {Wan} ELSE {})

\* mac is the embedded address; All asks everybody to announce themselves.
Join(src, dst, mac) == [type |-> "JOIN", src |-> src, dst |-> dst, mac |-> mac]
Accept(dst, n, s, v) ==
  [type |-> "ACCEPT", src |-> Leader, dst |-> dst, n |-> n, seqno |-> s, v |-> v]
Learn(src, dst, n, s) ==
  [type |-> "LEARN", src |-> src, dst |-> dst, n |-> n, seqno |-> s]
ClientFrame(src, dst, v) == [type |-> "CLIENT", src |-> src, dst |-> dst, v |-> v]
Plain(type, src, dst) == [type |-> type, src |-> src, dst |-> dst]

\* Frame f, that came in by port in, leaves by port p, but not where it came
\* from; what the controller makes itself has come from nowhere.
PutOut(f, p, in) ==
  {[port |-> q, frame |-> f] : q \in (IF p = All THEN Port ELSE {p}) \ {in}}

\* rewrite_destinations: a new frame without a type, with the packet in it.
RewriteDestinations(mac, v) == [type |-> "none", dst |-> mac, v |-> v]

-----------------------------------------------------------------------------
(* The learning switch below the controller *)

LearnPort(m, mac, p) == IF m[mac] = None THEN [m EXCEPT ![mac] = p] ELSE m

\* _handle_PacketIn of BaselineController without flows, from the tables m;
\* sent is what the Paxos handler has put out before.
Switch(f, in, m, sent) ==
  /\ macports' = LearnPort(m, f.src, in)
  /\ macip' = macip \cup (IF f.type = "ip" THEN {f.src} ELSE {})
  /\ out' = sent \cup
            PutOut(f, IF f.dst # All /\ macports'[f.dst] # None
                      THEN macports'[f.dst] ELSE All, in)

\* Wrong: what is not for this switch goes to everybody.
LookupPortAll(mac) == All

LookupPort(mac) == IF macports[mac] # None THEN macports[mac] ELSE All

-----------------------------------------------------------------------------
(* Hosts *)

PaxosPorts == {paxos_ports[b] : b \in Node} \ {None}

IsWanPort(p) == p \notin PaxosPorts

MacsOn(p) == {m \in Mac : macports[m] = p}

\* The addresses that are alone on a port that leads to no node.
Hosts ==
  {m \in Mac : /\ macports[m] \in Port \ PaxosPorts
               /\ MacsOn(macports[m]) = {m}
               /\ m \in macip}

\* Wrong: some host is enough.
HostAddressesKnownSome(wan) == Hosts # {}

\* host_addresses_known, when the WAN port is wan.
HostAddressesKnown(wan) ==
  Cardinality(Hosts) =
    Cardinality(Port) - Cardinality(PaxosPorts) - (IF wan = None THEN 0 ELSE 1)

-----------------------------------------------------------------------------
(* Slots *)

Slot == [vrnd: Nat, vval: Packet \cup {NoPacket}, learns: SUBSET Node, hrnd: Nat]

NewSlot == [vrnd |-> 0, vval |-> NoPacket, learns |-> {}, hrnd |-> 0]

Learned(slot) == Cardinality(slot.learns) >= 1 + (Cardinality(Node) \div 2)

GetSlot(p, s) == [p EXCEPT !.keys = @ \cup {s}]

Ready(p, s) == s \in p.keys /\ Learned(p.slots[s])

\* process_message: the packet of slot s goes to each host.
SendToHosts(p, s) ==
  UNION {PutOut(RewriteDestinations(m, p.slots[s].vval), macports[m], None) : m \in Hosts}

\* The queue, in p, has been walked up to k.
QueueEnd(p, k, known) ==
  /\ k >= p.cseq
  /\ \A s \in p.cseq..k - 1 : Ready(p, s)
  /\ IF known THEN k \in Seqno => ~Ready(p, k) ELSE k = p.cseq

\* process_queue(n) when the state has become p, with process_message for each
\* slot it passes.
ProcessQueue(p, n, wan, sent) ==
  \E k \in 0..MaxSeqno + 1 :
    /\ QueueEnd(p, k, HostAddressesKnown(wan))
    /\ state' = [p EXCEPT !.cseq = k,
                          !.processed = @ \cup {<<n, s>> : s \in p.cseq..k - 1}]
    /\ inbox' = [m \in Mac |->
                   inbox[m] \o IF m \in Hosts
                               THEN [i \in 1..k - p.cseq |-> p.cseq + i - 1]
                               ELSE <<>>]
    /\ out' = sent \cup UNION {SendToHosts(p, s) : s \in p.cseq..k - 1}

\* garbage_collect(crnd).
Evict(p) ==
  LET done == {s \in Seqno : <<p.crnd, s>> \in p.processed}
  IN  [p EXCEPT !.keys = @ \ done,
                !.slots = [s \in Seqno |-> IF s \in done THEN NewSlot ELSE @[s]]]

SetState(p, sent) == state' = p /\ out' = sent /\ UNCHANGED inbox

-----------------------------------------------------------------------------
(* The message handlers *)

\* Whether on_learn gets past its early returns.
CountsLearn(slot, src, n) ==
  /\ ~Learned(slot)
  /\ n >= slot.hrnd
  /\ n = slot.hrnd => src \notin slot.learns

AddLearn(slot, src, n) ==
  [slot EXCEPT !.hrnd = n,
               !.learns = (IF n > slot.hrnd THEN {} ELSE @) \cup {src}]

OnLearn(p, src, n, s, wan, sent) ==
  LET q == GetSlot(p, s)
  IN  IF CountsLearn(q.slots[s], src, n)
      THEN ProcessQueue([q EXCEPT !.slots[s] = AddLearn(@, src, n)], n, wan, sent)
      ELSE SetState(q, sent)

SendLearns(n, s) ==
  UNION {PutOut(Learn(me, b, n, s), LookupPort(b), None) : b \in N \ {me}}

SendAccepts(n, s, v) ==
  UNION {PutOut(Accept(b, n, s, v), LookupPort(b), None) : b \in N \ {me}}

\* The LEARN of the controller to itself is a direct call, after the others.
OnAccept(p, n, s, v, wan, sent) ==
  LET q == GetSlot(p, s)
  IN  IF n >= p.crnd /\ n # q.slots[s].vrnd
      THEN OnLearn([q EXCEPT !.crnd = n, !.slots[s].vrnd = n, !.slots[s].vval = v],
                   me, n, s, wan, sent \cup SendLearns(n, s))
      ELSE SetState(q, sent)

\* Wrong: every node numbers packets.
OnClientAnywhere(v, in) ==
  LET n == state.crnd
      s == Len(submitted)
  IN  IF stage \in {"leading", "pump", "gc"}
      THEN /\ s \in Seqno
           /\ wan_port' = in
           /\ submitted' = Append(submitted, v)
           /\ OnAccept(state, n, s, v, in, SendAccepts(n, s, v))
      ELSE /\ UNCHANGED <<wan_port, submitted>>
           /\ SetState(state, {})

\* on_client: only the leader numbers packets, and only once it has its Leader.
OnClient(v, in) ==
  LET n == state.crnd
      s == Len(submitted)
  IN  IF me = Leader /\ stage \in {"leading", "pump", "gc"}
      THEN /\ s \in Seqno
           /\ wan_port' = in
           /\ submitted' = Append(submitted, v)
           /\ OnAccept(state, n, s, v, in, SendAccepts(n, s, v))
      ELSE /\ UNCHANGED <<wan_port, submitted>>
           /\ SetState(state, {})

\* Wrong: the port of a node is not recorded.
OnJoinNoPort(f, in) ==
  IF f.mac \notin N \cup {All}
  THEN /\ N' = N \cup {f.mac} /\ UNCHANGED paxos_ports
       /\ Switch(f, in, LearnPort(macports, f.mac, in),
                 PutOut(Join(me, f.mac, me), in, None))
  ELSE /\ UNCHANGED <<N, paxos_ports>>
       /\ Switch(f, in, macports,
                 IF f.mac = All THEN PutOut(Join(me, All, me), All, None) ELSE {})

\* on_join.  It does not halt the event, so that the switch handles the JOIN,
\* too.  The sender and the embedded address are the same.
OnJoin(f, in) ==
  IF f.mac \notin N \cup {All}
  THEN /\ N' = N \cup {f.mac}
       /\ paxos_ports' = [paxos_ports EXCEPT ![f.mac] = in]
       /\ Switch(f, in, LearnPort(macports, f.mac, in),
                 PutOut(Join(me, f.mac, me), in, None))
  ELSE /\ UNCHANGED <<N, paxos_ports>>
       /\ Switch(f, in, macports,
                 IF f.mac = All THEN PutOut(Join(me, All, me), All, None) ELSE {})

\* handle_paxos: the Paxos messages that are dispatched.
Dispatches(f, in) ==
  /\ f.type \in {"JOIN", "ACCEPT", "LEARN", "CLIENT"}
  /\ IsWanPort(in) \/ f.type = "JOIN" \/ f.dst \in {me, All}

\* dispatch_paxos: the handlers that halt the event.
Handle(f, in) ==
  \/ f.type = "CLIENT" /\ OnClient(f.v, in)
  \/ /\ f.type = "ACCEPT"
     /\ IF f.dst \in {me, All}
        THEN OnAccept(state, f.n, f.seqno, f.v, wan_port, {}) ELSE SetState(state, {})
     /\ UNCHANGED <<wan_port, submitted>>
  \/ /\ f.type = "LEARN"
     /\ IF f.dst = me
        THEN OnLearn(state, f.src, f.n, f.seqno, wan_port, {}) ELSE SetState(state, {})
     /\ UNCHANGED <<wan_port, submitted>>

\* An upcall: handle_paxos, and if it does not halt the event, the switch.
\* Until the network is joined only JOINs are dispatched.
PacketIn(f, in) ==
  /\ CASE f.type = "JOIN" ->
            /\ OnJoin(f, in)
            /\ UNCHANGED <<wan_port, state, submitted, inbox>>
       [] f.type # "JOIN" /\ Dispatches(f, in) /\ stage # "joining" ->
            /\ Handle(f, in)
            /\ UNCHANGED <<N, paxos_ports, macports, macip>>
       [] OTHER ->
            /\ Switch(f, in, macports, {})
            /\ UNCHANGED <<N, paxos_ports, wan_port, state, submitted, inbox>>
  /\ UNCHANGED <<me, stage>>

-----------------------------------------------------------------------------
(* The threads *)

Init ==
  /\ me \in Node
  /\ stage = "joining" /\ N = {}
  /\ paxos_ports = [b \in Node |-> None] /\ wan_port = None
  /\ macports = [m \in Mac |-> None] /\ macip = {}
  /\ state = [crnd |-> NodeId[me], keys |-> {}, slots |-> [s \in Seqno |-> NewSlot],
              cseq |-> 0, processed |-> {}]
  /\ submitted = <<>>
  /\ inbox = [m \in Mac |-> <<>>] /\ out = {}

\* join_block's first round: a JOIN with the node's own address.
Announce ==
  /\ me \notin N
  /\ N' = N \cup {me}
  /\ out' = PutOut(Join(me, All, me), All, None)
  /\ UNCHANGED <<me, stage, tables, state, submitted, inbox>>

\* wait_join asks again for announcements.
AskAgain ==
  /\ stage = "joining"
  /\ out' = PutOut(Join(me, All, All), All, None)
  /\ UNCHANGED <<me, stage, N, tables, state, submitted, inbox>>

\* join_block has seen all the nodes.
Joined ==
  /\ stage = "joining" /\ Cardinality(N) = Cardinality(Node)
  /\ stage' = "joined" /\ out' = {}
  /\ UNCHANGED <<me, N, tables, state, submitted, inbox>>

\* next_round: the leader gets its Leader, and then picks its round.
MakeLeader ==
  /\ stage = "joined" /\ me = Leader
  /\ stage' = "leading" /\ out' = {}
  /\ UNCHANGED <<me, N, tables, state, submitted, inbox>>

StartPump ==
  /\ stage = IF me = Leader THEN "leading" ELSE "joined"
  /\ stage' = "pump" /\ out' = {}
  /\ state' = IF me = Leader THEN [state EXCEPT !.crnd = @ + Cardinality(N)] ELSE state
  /\ UNCHANGED <<me, N, tables, submitted, inbox>>

\* Wrong: the background thread only collects.
PumpNothing ==
  /\ stage = "pump" /\ stage' = "gc"
  /\ SetState(state, {})
  /\ UNCHANGED <<me, N, tables, submitted>>

Pump ==
  /\ stage = "pump" /\ stage' = "gc"
  /\ ProcessQueue(state, state.crnd, wan_port, {})
  /\ UNCHANGED <<me, N, tables, submitted>>

GarbageCollect ==
  /\ stage = "gc" /\ stage' = "pump"
  /\ SetState(Evict(state), {})
  /\ UNCHANGED <<me, N, tables, submitted>>

-----------------------------------------------------------------------------
(* The surroundings *)

Others == Node \ {me}

\* Those to whom a frame that b sent goes by way of this switch.
Beyond(b) == {c \in Node \ {b} : c = me \/ Hop[me][c] # Hop[me][b]}

\* The rounds that the leader may number packets in.
Rounds == {NodeId[Leader], NodeId[Leader] + Cardinality(Node)}

ReceiveJoin(b) ==
  \E dst \in Beyond(b) \cup {All} : \E mac \in {b} \cup ({All} \cap {dst}) :
    PacketIn(Join(b, dst, mac), Hop[me][b])

\* ask_for_paxos_announce of the WAN switch.
ReceiveAsk ==
  WanAsks /\ me = Leader /\ PacketIn(Join(Wan, All, All), Wan)

ReceiveAccept ==
  /\ me # Leader
  /\ \E dst \in Beyond(Leader), n \in Rounds, s \in 0..Len(submitted) - 1 :
       PacketIn(Accept(dst, n, s, submitted[s + 1]), Hop[me][Leader])

\* A node accepts in no round below the one it begins with.
ReceiveLearn(b) ==
  \E dst \in Beyond(b), n \in Rounds, s \in 0..Len(submitted) - 1 :
    n >= NodeId[b] /\ PacketIn(Learn(b, dst, n, s), Hop[me][b])

\* Where the frames of clients come in.
ClientPort == IF me = Leader THEN Wan ELSE Hop[me][Leader]

\* A client's frame gets through when the WAN switch knows the Paxos network;
\* had it to ask before, its question has come first.
WanIsUp == WanAsks /\ me = Leader => macports[Wan] # None

\* A wrapped packet; it goes on to other switches only when the leader has not
\* joined.
ReceiveClient(c) ==
  /\ WanIsUp
  /\ \E dst \in Host \cup {All}, v \in Packet :
       PacketIn(ClientFrame(c, dst, v), ClientPort)

\* A ping of a client, and the question for an address before it.
ClientPings(c) ==
  /\ WanIsUp
  /\ \/ PacketIn(Plain("arp", c, All), ClientPort)
     \/ \E h \in Host : PacketIn(Plain("ip", c, h), ClientPort)

HostAsks(h) == PacketIn(Plain("arp", h, All), h)

HostPings(h) == \E c \in Client : PacketIn(Plain("ip", h, c), h)

\* The leader, where it is another node, numbers a packet.
LeaderNumbers ==
  /\ me # Leader /\ Len(submitted) \in Seqno
  /\ \E v \in Packet : submitted' = Append(submitted, v)
  /\ out' = {}
  /\ UNCHANGED <<me, stage, N, tables, state, inbox>>

Start == Announce \/ Joined \/ MakeLeader \/ StartPump

Background == Pump \/ GarbageCollect

Next ==
  \/ Start \/ AskAgain \/ Background
  \/ \E b \in Others : ReceiveJoin(b) \/ ReceiveLearn(b)
  \/ ReceiveAsk \/ ReceiveAccept \/ LeaderNumbers
  \/ \E c \in Client : ReceiveClient(c) \/ ClientPings(c)
  \/ \E h \in Host : HostAsks(h) \/ HostPings(h)

Spec == Init /\ [][Next]_vars

\* Start-up proceeds and the background thread it ends in keeps looping, and a
\* pingall has every host send an IP packet.
FairSpec ==
  /\ Spec
  /\ WF_vars(Start \/ Background)
  /\ WF_vars(\E h \in Host : h \notin macip /\ HostPings(h))

-----------------------------------------------------------------------------
(* Properties *)

\* Every variable holds a value of the kind the code gives it.
TypeOK ==
  /\ me \in Node /\ N \subseteq Node
  /\ stage \in {"joining", "joined", "leading", "pump", "gc"}
  /\ paxos_ports \in [Node -> Node \cup {None}] /\ wan_port \in {Wan, None}
  /\ macports \in [Mac -> Node \cup Host \cup {Wan, None}] /\ macip \subseteq Mac
  /\ state \in [crnd: Nat, keys: SUBSET Seqno, slots: [Seqno -> Slot],
                cseq: 0..MaxSeqno + 1, processed: SUBSET (Nat \X Seqno)]
  /\ submitted \in Seq(Packet)
  /\ inbox \in [Mac -> Seq(Seqno)]
  /\ \A e \in out : e.port \in Port

\* The comment in process_message: a packet goes to all hosts, or is postponed.
\* So each host gets all the packets that count as processed, in order and
\* once, and nobody else gets any.
EveryHostInOrder ==
  \A m \in Mac :
    inbox[m] = [i \in 1..(IF m \in Host THEN state.cseq ELSE 0) |-> i - 1]

\* Once the network is joined, ACCEPTs and LEARNs leave only by the port that
\* leads to their node: no host and no client gets to see them (lookup_port,
\* and the comment on learn_port in on_join).
PaxosFindsItsWay ==
  [][stage # "joining" =>
       \A e \in out' : e.frame.type \in {"ACCEPT", "LEARN"} =>
                         e.port = Hop[me][e.frame.dst]]_vars

\* From then on this switch passes on what is for the node beyond it, in the
\* right direction, and does not take it for itself (handle_paxos, is_wan_port).
TransitPassesOn ==
  stage # "joining" =>
    \A b \in Others : \A c \in Beyond(b) \ {me} :
      /\ ~Dispatches(Learn(b, c, NodeId[Leader], 0), Hop[me][b])
      /\ LookupPort(c) = Hop[me][c]

\* A packet that is postponed is forwarded once pings have revealed the hosts
\* (the comment in process_message, background_proc_queue).
PostponedIsForwarded ==
  \A s \in Seqno : (state.cseq = s /\ Ready(state, s)) ~> (state.cseq > s)
=============================================================================
