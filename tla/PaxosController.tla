--------------------------- MODULE PaxosController ---------------------------
(***************************************************************************)
(* The PaxosController of paxos/controller/paxosctrl.py: one controller    *)
(* per OpenFlow switch, running phase two of multi-Paxos so that every     *)
(* switch forwards the packets of the WAN clients to its hosts in the same *)
(* order.  The hardcoded leader numbers a packet and sends it in an ACCEPT,*)
(* acceptors answer with LEARN to everybody, and a learner forwards the    *)
(* slots that a majority has accepted, in sequence and without gaps.       *)
(*                                                                         *)
(* An action is one critical section of one thread: an upcall handled by   *)
(* the POX thread, a step of the thread that joined the network, or a turn *)
(* of the background thread that pumps the queue.  The network may lose,   *)
(* duplicate and reorder frames: msgs holds every frame ever sent, and a   *)
(* frame may be received any number of times, or never.                    *)
(***************************************************************************)
EXTENDS Integers, FiniteSets, Sequences

CONSTANTS
  Node,       \* the switches, one controller each
  Leader,     \* the switch named S1
  NodeId,     \* the trailing digit of each switch's name
  Packet,     \* what clients send
  NoPacket,   \* a Slot's vval before any ACCEPT (Python's None)
  MaxSeqno    \* the last sequence number that assert_u32 lets through

ASSUME NodeAssumption == IsFiniteSet(Node) /\ Leader \in Node
ASSUME NodeIdAssumption == NodeId \in [Node -> Nat \ {0}]
ASSUME PacketAssumption == NoPacket \notin Packet
ASSUME MaxSeqnoAssumption == MaxSeqno \in Nat

VARIABLES
  stage,      \* how far each controller's start-up and pump threads are
  seqno,      \* the leader's Leader.seqno, -1 for None
  state,      \* each controller's PaxosState
  known,      \* what host_addresses_known() returns at each controller
  msgs,       \* the PAXOS frames that were sent
  submitted,  \* history: the CLIENT packets, in the order they were numbered
  hosts       \* history: what each controller forwarded to its hosts

vars == <<stage, seqno, state, known, msgs, submitted, hosts>>

-----------------------------------------------------------------------------
(* Data *)

Seqno == 0..MaxSeqno

\* vrnd and hrnd are 0 before the first message; a round number never is.
Slot == [vrnd: Nat, vval: Packet \cup {NoPacket}, learns: SUBSET Node, hrnd: Nat]

NewSlot == [vrnd |-> 0, vval |-> NoPacket, learns |-> {}, hrnd |-> 0]

\* keys are the keys of the dictionary self.slots; at any other number, slots
\* holds the slot that get_slot would make.
PaxosState == [crnd: Nat, keys: SUBSET Seqno, slots: [Seqno -> Slot],
               cseq: 0..MaxSeqno + 1, processed: SUBSET (Nat \X Seqno)]

AcceptMsg == [type: {"ACCEPT"}, n: Nat, seqno: Seqno, v: Packet]

\* on_accept sends the same LEARN to every node: one frame, many receivers.
LearnMsg == [type: {"LEARN"}, src: Node, n: Nat, seqno: Seqno]

Accept(n, s, v) == [type |-> "ACCEPT", n |-> n, seqno |-> s, v |-> v]
Learn(a, n, s) == [type |-> "LEARN", src |-> a, n |-> n, seqno |-> s]

(***************************************************************************)
(* The stages of a controller.  "joining": the network is not joined, and  *)
(* dispatch_paxos drops every message but JOIN.  "joined": self.joined is  *)
(* set, next_round has not run.  "leading": the leader has its Leader()    *)
(* but has not picked its round.  "pump" and "gc": next_round is over, and *)
(* the background thread is about to process the queue or to collect.      *)
(***************************************************************************)
Stage == {"joining", "joined", "leading", "pump", "gc"}

Joined(a) == stage[a] # "joining"

-----------------------------------------------------------------------------
(* Slots *)

\* Wrong: half of the nodes is taken for a majority.
LearnedByHalf(slot) == Cardinality(slot.learns) >= Cardinality(Node) \div 2

Learned(slot) == Cardinality(slot.learns) >= 1 + (Cardinality(Node) \div 2)

GetSlot(p, s) == [p EXCEPT !.keys = @ \cup {s}]

\* The slots that Slots.queue yields while the consumer keeps taking them.
Ready(p, s) == s \in p.keys /\ Learned(p.slots[s])

\* Slots.queue started in p stops in front of k.
QueueEnd(a, p, k) ==
  /\ k >= p.cseq
  /\ \A s \in p.cseq..k - 1 : Ready(p, s)
  /\ IF known[a] THEN k \in Seqno => ~Ready(p, k) ELSE k = p.cseq

\* process_message for the slots from..k-1: one frame to the hosts for each.
Forwarded(p, k) ==
  [i \in 1..k - p.cseq |-> [seqno |-> p.cseq + i - 1,
                            v |-> p.slots[p.cseq + i - 1].vval]]

\* Wrong: a slot that process_message could not send counts as processed.
ProcessQueueDrops(a, p, n) ==
  \E k \in {s \in 0..MaxSeqno + 1 : s >= p.cseq /\ \A i \in p.cseq..s - 1 : Ready(p, i)} :
    /\ state' = [state EXCEPT ![a] = [p EXCEPT !.cseq = k]]
    /\ hosts' = [hosts EXCEPT ![a] = @ \o IF known[a] THEN Forwarded(p, k) ELSE <<>>]

\* Wrong: the head of the queue is not advanced.
ProcessQueueRepeats(a, p, n) ==
  \E k \in 0..MaxSeqno + 1 :
    /\ QueueEnd(a, p, k)
    /\ state' = [state EXCEPT ![a] =
                   [p EXCEPT !.processed = @ \cup {<<n, s>> : s \in p.cseq..k - 1}]]
    /\ hosts' = [hosts EXCEPT ![a] = @ \o Forwarded(p, k)]

\* Wrong: a slot is marked before process_message has said that it was sent.
ProcessQueueMarksEarly(a, p, n) ==
  \E k \in 0..MaxSeqno + 1 :
    /\ QueueEnd(a, p, k)
    /\ state' = [state EXCEPT ![a] =
                   [p EXCEPT !.cseq = k,
                             !.processed = @ \cup {<<n, s>> : s \in p.keys \cap (p.cseq..k)}]]
    /\ hosts' = [hosts EXCEPT ![a] = @ \o Forwarded(p, k)]

\* process_queue(n) by the controller a whose state has become p.
ProcessQueue(a, p, n) ==
  \E k \in 0..MaxSeqno + 1 :
    /\ QueueEnd(a, p, k)
    /\ state' = [state EXCEPT ![a] =
                   [p EXCEPT !.cseq = k,
                             !.processed = @ \cup {<<n, s>> : s \in p.cseq..k - 1}]]
    /\ hosts' = [hosts EXCEPT ![a] = @ \o Forwarded(p, k)]

\* Wrong: what was learned is evicted, processed or not.
EvictLearned(p) ==
  LET done == {s \in Seqno : Ready(p, s)}
  IN  [p EXCEPT !.keys = @ \ done,
                !.slots = [s \in Seqno |-> IF s \in done THEN NewSlot ELSE @[s]]]

\* garbage_collect(crnd): the slots processed in the round the node is in.
Evict(p) ==
  LET done == {s \in Seqno : <<p.crnd, s>> \in p.processed}
  IN  [p EXCEPT !.keys = @ \ done,
                !.slots = [s \in Seqno |-> IF s \in done THEN NewSlot ELSE @[s]]]

SetState(a, p) == state' = [state EXCEPT ![a] = p] /\ UNCHANGED hosts

-----------------------------------------------------------------------------
(* The message handlers, as they act on the state p of controller a *)

\* Whether on_learn gets past its three early returns.
CountsLearn(slot, src, n) ==
  /\ ~Learned(slot)
  /\ n >= slot.hrnd
  /\ n = slot.hrnd => src \notin slot.learns

AddLearn(slot, src, n) ==
  [slot EXCEPT !.hrnd = n,
               !.learns = (IF n > slot.hrnd THEN {} ELSE @) \cup {src}]

OnLearn(a, p, src, n, s) ==
  LET q == GetSlot(p, s)
  IN  IF CountsLearn(q.slots[s], src, n)
      THEN ProcessQueue(a, [q EXCEPT !.slots[s] = AddLearn(@, src, n)], n)
      ELSE SetState(a, q)

\* The condition of on_accept.
Accepts(p, n, s) == n >= p.crnd /\ n # p.slots[s].vrnd

Store(p, n, s, v) ==
  [GetSlot(p, s) EXCEPT !.crnd = n, !.slots[s].vrnd = n, !.slots[s].vval = v]

\* The LEARN of the controller to itself is a direct call, after the others.
\* sent is what the handler that called this one has put on the network.
OnAccept(a, p, n, s, v, sent) ==
  IF Accepts(p, n, s)
  THEN /\ msgs' = msgs \cup sent \cup {Learn(a, n, s)}
       /\ OnLearn(a, Store(p, n, s, v), a, n, s)
  ELSE /\ msgs' = msgs \cup sent
       /\ SetState(a, GetSlot(p, s))

-----------------------------------------------------------------------------
(* Actions *)

Init ==
  /\ stage = [a \in Node |-> "joining"]
  /\ seqno = -1
  /\ state = [a \in Node |-> [crnd |-> NodeId[a], keys |-> {},
                              slots |-> [s \in Seqno |-> NewSlot],
                              cseq |-> 0, processed |-> {}]]
  /\ known = [a \in Node |-> FALSE]
  /\ msgs = {}
  /\ submitted = <<>>
  /\ hosts = [a \in Node |-> <<>>]

\* join_block has seen all the nodes it waits for.
Join(a) ==
  /\ stage[a] = "joining"
  /\ stage' = [stage EXCEPT ![a] = "joined"]
  /\ UNCHANGED <<seqno, state, known, msgs, submitted, hosts>>

\* next_round on a node that does not lead only starts the pump thread.
StartPump(a) ==
  /\ stage[a] = "joined" /\ a # Leader
  /\ stage' = [stage EXCEPT ![a] = "pump"]
  /\ UNCHANGED <<seqno, state, known, msgs, submitted, hosts>>

\* next_round on the leader, first half: from here on CLIENTs are numbered.
MakeLeader ==
  /\ stage[Leader] = "joined"
  /\ stage' = [stage EXCEPT ![Leader] = "leading"]
  /\ UNCHANGED <<seqno, state, known, msgs, submitted, hosts>>

\* Wrong: the rounds count down.
PickPrevious ==
  /\ stage[Leader] = "leading"
  /\ stage' = [stage EXCEPT ![Leader] = "pump"]
  /\ state' = [state EXCEPT ![Leader].crnd = @ - Cardinality(Node)]
  /\ UNCHANGED <<seqno, known, msgs, submitted, hosts>>

\* next_round on the leader, second half: pickNext and the pump thread.
PickNext ==
  /\ stage[Leader] = "leading"
  /\ stage' = [stage EXCEPT ![Leader] = "pump"]
  /\ state' = [state EXCEPT ![Leader].crnd = @ + Cardinality(Node)]
  /\ UNCHANGED <<seqno, known, msgs, submitted, hosts>>

\* Wrong: once set, the sequence number stays.
ReusedSeqno == IF seqno = -1 THEN 0 ELSE seqno

\* The sequence number of the next packet.
NextSeqno == seqno + 1

\* Before MakeLeader the handler fails on self.leader, and the CLIENT is lost;
\* past MaxSeqno it fails in pack_accept, with nothing sent.
OnClient(v) ==
  LET s == NextSeqno
      p == state[Leader]
  IN  /\ stage[Leader] \in {"leading", "pump", "gc"}
      /\ s \in Seqno
      /\ seqno' = s
      /\ submitted' = Append(submitted, v)
      /\ OnAccept(Leader, p, p.crnd, s, v, {Accept(p.crnd, s, v)})
      /\ UNCHANGED <<stage, known>>

\* An ACCEPT of the leader arrives at another node.
ReceiveAccept(a, m) ==
  /\ Joined(a) /\ a # Leader
  /\ m.type = "ACCEPT"
  /\ OnAccept(a, state[a], m.n, m.seqno, m.v, {})
  /\ UNCHANGED <<stage, seqno, known, submitted>>

\* A LEARN of another node arrives.
ReceiveLearn(a, m) ==
  /\ Joined(a)
  /\ m.type = "LEARN" /\ m.src # a
  /\ OnLearn(a, state[a], m.src, m.n, m.seqno)
  /\ UNCHANGED <<stage, seqno, known, msgs, submitted>>

\* Wrong: the background thread only collects.
PumpNothing(a) ==
  /\ stage[a] = "pump"
  /\ stage' = [stage EXCEPT ![a] = "gc"]
  /\ UNCHANGED <<seqno, state, known, msgs, submitted, hosts>>

\* The background thread processes the queue ...
Pump(a) ==
  /\ stage[a] = "pump"
  /\ stage' = [stage EXCEPT ![a] = "gc"]
  /\ ProcessQueue(a, state[a], state[a].crnd)
  /\ UNCHANGED <<seqno, known, msgs, submitted>>

\* ... and then, having let go of the lock, evicts slots.
GarbageCollect(a) ==
  /\ stage[a] = "gc"
  /\ stage' = [stage EXCEPT ![a] = "pump"]
  /\ SetState(a, Evict(state[a]))
  /\ UNCHANGED <<seqno, known, msgs, submitted>>

\* The learning switch has learned the addresses of all hosts, or a second
\* address appeared on a host's port and the count is off again.
HostsChange(a) ==
  /\ known' = [known EXCEPT ![a] = ~@]
  /\ UNCHANGED <<stage, seqno, state, msgs, submitted, hosts>>

Next ==
  \/ MakeLeader \/ PickNext
  \/ \E v \in Packet : OnClient(v)
  \/ \E a \in Node :
       \/ Join(a) \/ StartPump(a)
       \/ \E m \in msgs : ReceiveAccept(a, m) \/ ReceiveLearn(a, m)
       \/ Pump(a) \/ GarbageCollect(a)
       \/ HostsChange(a)

Spec == Init /\ [][Next]_vars

-----------------------------------------------------------------------------
(* Properties *)

\* Every variable holds a value of the kind the code gives it.
TypeOK ==
  /\ stage \in [Node -> Stage]
  /\ seqno \in -1..MaxSeqno
  /\ state \in [Node -> PaxosState]
  /\ known \in [Node -> BOOLEAN]
  /\ msgs \subseteq AcceptMsg \cup LearnMsg
  /\ submitted \in Seq(Packet)
  /\ hosts \in [Node -> Seq([seqno: Seqno, v: Packet \cup {NoPacket}])]

\* What on_accept has made known: node a accepted slot s in round n.
Accepted(a, n, s) == Learn(a, n, s) \in msgs

\* A node forwards the slots 0, 1, 2, ... and each exactly once, whatever is
\* retransmitted, postponed or recreated after a collection (process_queue).
InOrderExactlyOnce ==
  \A a \in Node :
    /\ Len(hosts[a]) = state[a].cseq
    /\ \A i \in 1..Len(hosts[a]) : hosts[a][i].seqno = i - 1

\* The hosts of two switches never see different packets at the same place,
\* and what they see is what the client that got this number had sent.
SamePackets ==
  \A a \in Node : \A i \in 1..Len(hosts[a]) :
    hosts[a][i].v # NoPacket =>
      i <= Len(submitted) /\ hosts[a][i].v = submitted[i]

\* A node forwards a slot only when, in one round, a majority of the nodes
\* have accepted it (required_learns): a minority may fail without losing it.
MajorityAccepted ==
  \A a \in Node : \A i \in 1..Len(hosts[a]) :
    \E n \in {m.n : m \in msgs} :
      2 * Cardinality({b \in Node : Accepted(b, n, i - 1)}) > Cardinality(Node)

\* The assertions in queue and process_queue never fail: the number at the
\* head of the queue was not processed in any round.
HeadNotProcessed ==
  \A a \in Node : \A e \in state[a].processed : e[2] < state[a].cseq

\* A slot that was learned but not forwarded survives every collection, so a
\* postponed packet is not forgotten (garbage_collect).
LearnedKept ==
  [][\A a \in Node : \A s \in Seqno :
       Ready(state[a], s) /\ state'[a].cseq <= s => Ready(state'[a], s)]_vars

\* The packets each switch has sent to its hosts.
Sent == [a \in Node |-> [i \in 1..Len(hosts[a]) |-> hosts[a][i].v]]

Order == INSTANCE PacketOrder WITH Blank <- {NoPacket}, log <- submitted, out <- Sent

\* The switches implement PacketOrder, except that a switch may send its hosts
\* an empty frame in place of a packet it was never told.
ImplementsPacketOrder == Order!Spec
=============================================================================
