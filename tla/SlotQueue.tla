------------------------------ MODULE SlotQueue ------------------------------
(***************************************************************************)
(* The threads of one PaxosController (paxos/controller/paxosctrl.py) and   *)
(* the slots they share: the POX thread handles a packet or a LEARN, the    *)
(* thread that joined the network picks the leader's round, and the         *)
(* background thread pumps the queue and collects.  queue_mutex guards the  *)
(* dictionary of slots and the head of the queue, but neither the fields of *)
(* a slot nor the round.  PaxosController takes each handler as one step;   *)
(* here a step ends where another thread can see or change something.       *)
(*                                                                         *)
(* A Slot is an object: a handler that got it from the dictionary keeps it  *)
(* while the collector may take it out.                                     *)
(***************************************************************************)
EXTENDS Integers, FiniteSets, Sequences

CONSTANTS
  Node,         \* the switches, one controller each
  Leader,       \* the switch named S1
  NodeId,       \* the trailing digit of each switch's name
  Packet,       \* what clients send
  NoPacket,     \* a Slot's vval before any ACCEPT (Python's None)
  MaxSeqno,     \* Bound: the last sequence number
  EarlyClients  \* do clients send before all switches have joined?

ASSUME NodeAssumption == IsFiniteSet(Node) /\ Leader \in Node
ASSUME NodeIdAssumption == NodeId \in [Node -> Nat \ {0}]
ASSUME PacketAssumption == NoPacket \notin Packet
ASSUME BoundsAssumption == MaxSeqno \in Nat /\ EarlyClients \in BOOLEAN

VARIABLES
  me,         \* the node whose controller this is
  known,      \* what host_addresses_known() returns
  crnd,       \* the current round
  starter,    \* how far the thread that joined the network is
  sum,        \* its local result of crnd + len(N)
  slots,      \* the dictionary: which object is at a key, or Free
  objs,       \* the Slot objects
  cseq,       \* the head of the queue
  processed,  \* the set of (round, sequence number)
  mutex,      \* the thread that holds queue_mutex, or Unlocked
  pc,         \* where each thread is
  round,      \* the argument n of its process_queue or garbage_collect
  job,        \* what the POX thread handles
  ref,        \* the slot object that its handler holds
  log,        \* history: the packets the leader has numbered, with their rounds
  told,       \* history: how many of their ACCEPTs have come in here
  heard,      \* history: the LEARNs of others that were taken
  hosts       \* history: what was forwarded to the hosts

shared == <<known, crnd, slots, objs, cseq, processed, mutex>>
threads == <<starter, sum, pc, round, job, ref>>
vars == <<me, shared, threads, log, told, heard, hosts>>

-----------------------------------------------------------------------------
(* Data *)

Seqno == 0..MaxSeqno

Thread == {"pox", "pump"}

Free == 0

Unlocked == "unlocked"

\* One object per key, and one that only the handler still holds.
Obj == 1..MaxSeqno + 2

Slot == [vrnd: Nat, vval: Packet \cup {NoPacket}, learns: SUBSET Node, hrnd: Nat]

NewSlot == [vrnd |-> 0, vval |-> NoPacket, learns |-> {}, hrnd |-> 0]

\* Wrong: half of the nodes, rounded down.
LearnedByHalf(slot) == Cardinality(slot.learns) >= Cardinality(Node) \div 2

Learned(slot) == Cardinality(slot.learns) >= 1 + (Cardinality(Node) \div 2)

\* The round that pickNext gives the leader.
NextRound == NodeId[Leader] + Cardinality(Node)

\* The round of the ACCEPTs that reach a follower.
Rounds == IF EarlyClients THEN {NodeId[Leader], NextRound} ELSE {NextRound}

Goto(t, l) == pc' = [pc EXCEPT ![t] = l]

-----------------------------------------------------------------------------
Init ==
  /\ me \in Node
  /\ known = FALSE
  /\ crnd = NodeId[me]
  /\ starter = "joined" /\ sum = 0
  /\ slots = [s \in Seqno |-> Free]
  /\ objs = [i \in Obj |-> NewSlot]
  /\ cseq = 0 /\ processed = {} /\ mutex = Unlocked
  /\ pc = [t \in Thread |-> IF t = "pox" THEN "idle" ELSE "off"]
  /\ round = [t \in Thread |-> 0]
  /\ job = [src |-> me, n |-> 0, s |-> 0, v |-> NoPacket]
  /\ ref = Free
  /\ log = <<>> /\ told = 0 /\ heard = {} /\ hosts = <<>>

-----------------------------------------------------------------------------
(* The thread that joined the network: next_round *)

MakeLeader ==
  /\ me = Leader /\ starter = "joined"
  /\ starter' = "leading"
  /\ UNCHANGED <<me, shared, sum, pc, round, job, ref, log, told, heard, hosts>>

\* Wrong: the rounds count down.
PickPreviousReads ==
  /\ starter = "leading"
  /\ starter' = "picked" /\ sum' = crnd - Cardinality(Node)
  /\ UNCHANGED <<me, shared, pc, round, job, ref, log, told, heard, hosts>>

\* self.crnd += len(self.N) reads, and then writes.
PickNextReads ==
  /\ starter = "leading"
  /\ starter' = "picked" /\ sum' = crnd + Cardinality(Node)
  /\ UNCHANGED <<me, shared, pc, round, job, ref, log, told, heard, hosts>>

PickNextWrites ==
  /\ starter = "picked"
  /\ starter' = "start" /\ crnd' = sum
  /\ UNCHANGED <<me, known, slots, objs, cseq, processed, mutex>>
  /\ UNCHANGED <<sum, pc, round, job, ref, log, told, heard, hosts>>

StartPump ==
  /\ starter = IF me = Leader THEN "start" ELSE "joined"
  /\ starter' = "done" /\ Goto("pump", "sleep")
  /\ UNCHANGED <<me, shared, sum, round, job, ref, log, told, heard, hosts>>

Start == MakeLeader \/ PickNextReads \/ PickNextWrites \/ StartPump

-----------------------------------------------------------------------------
(* The POX thread *)

\* A CLIENT at the leader, which it numbers in its round.  Its ACCEPTs to the
\* others, and then its own, go out in the same loop.
TakeClient(v) ==
  /\ me = Leader /\ starter # "joined"
  /\ pc["pox"] = "idle" /\ Len(log) \in Seqno
  /\ EarlyClients \/ starter = "done"
  /\ job' = [src |-> me, n |-> crnd, s |-> Len(log), v |-> v]
  /\ log' = Append(log, [n |-> crnd, v |-> v]) /\ told' = told + 1
  /\ Goto("pox", "get_accept")
  /\ UNCHANGED <<me, shared, starter, sum, round, ref, heard, hosts>>

\* The same seen from another node: the leader numbers a packet, in whatever
\* round it is, and the ACCEPTs are on their way.
Number(v) ==
  /\ me # Leader /\ Len(log) \in Seqno
  /\ EarlyClients \/ starter = "done"
  /\ \E n \in Rounds : log' = Append(log, [n |-> n, v |-> v])
  /\ UNCHANGED <<me, shared, threads, told, heard, hosts>>

\* The leader's next ACCEPT comes in; they stay in order.
TakeAccept ==
  /\ pc["pox"] = "idle" /\ told < Len(log)
  /\ LET a == log[told + 1]
     IN  job' = [src |-> me, n |-> a.n, s |-> told, v |-> a.v]
  /\ told' = told + 1
  /\ Goto("pox", "get_accept")
  /\ UNCHANGED <<me, shared, starter, sum, round, ref, log, heard, hosts>>

\* A LEARN of b for a packet that b has accepted.  The leader sends its own
\* after its ACCEPTs and the same way; another node's may come before the
\* ACCEPT does: S2 sends its LEARN to S3 before it relays the ACCEPT to S3.
\* Any follower may see this here, whatever its place on the line.
TakeLearn(b, s) ==
  /\ pc["pox"] = "idle" /\ b # me
  /\ s < Len(log) /\ <<b, s>> \notin heard
  /\ b = Leader => s < told
  /\ log[s + 1].n >= NodeId[b]
  /\ job' = [src |-> b, n |-> log[s + 1].n, s |-> s, v |-> NoPacket]
  /\ heard' = heard \cup {<<b, s>>}
  /\ Goto("pox", "get_learn")
  /\ UNCHANGED <<me, shared, starter, sum, round, ref, log, told, hosts>>

\* get_slot, inside the lock; a new slot is put into the dictionary.
GetSlot ==
  LET new == CHOOSE i \in Obj : \A s \in Seqno : slots[s] # i
  IN  IF slots[job.s] # Free
      THEN ref' = slots[job.s] /\ UNCHANGED <<slots, objs>>
      ELSE /\ ref' = new
           /\ slots' = [slots EXCEPT ![job.s] = new]
           /\ objs' = [objs EXCEPT ![new] = NewSlot]

GetForAccept ==
  /\ pc["pox"] = "get_accept" /\ mutex = Unlocked
  /\ GetSlot
  /\ Goto("pox", "compare")
  /\ UNCHANGED <<me, known, crnd, cseq, processed, mutex>>
  /\ UNCHANGED <<starter, sum, round, job, log, told, heard, hosts>>

\* The condition of on_accept.
Compare ==
  /\ pc["pox"] = "compare"
  /\ Goto("pox", IF job.n >= crnd /\ job.n # objs[ref].vrnd THEN "enter" ELSE "idle")
  /\ UNCHANGED <<me, shared, starter, sum, round, job, ref, log, told, heard, hosts>>

EnterRound ==
  /\ pc["pox"] = "enter"
  /\ crnd' = job.n
  /\ Goto("pox", "store")
  /\ UNCHANGED <<me, known, slots, objs, cseq, processed, mutex>>
  /\ UNCHANGED <<starter, sum, round, job, ref, log, told, heard, hosts>>

\* vrnd and vval; no other thread reads vrnd.
Store ==
  /\ pc["pox"] = "store"
  /\ objs' = [objs EXCEPT ![ref].vrnd = job.n, ![ref].vval = job.v]
  /\ Goto("pox", "get_learn")
  /\ UNCHANGED <<me, known, crnd, slots, cseq, processed, mutex>>
  /\ UNCHANGED <<starter, sum, round, job, ref, log, told, heard, hosts>>

GetForLearn ==
  /\ pc["pox"] = "get_learn" /\ mutex = Unlocked
  /\ GetSlot
  /\ Goto("pox", "count")
  /\ UNCHANGED <<me, known, crnd, cseq, processed, mutex>>
  /\ UNCHANGED <<starter, sum, round, job, log, told, heard, hosts>>

\* Whether on_learn gets past its three early returns.
CountsLearn(slot) ==
  /\ ~Learned(slot)
  /\ job.n >= slot.hrnd
  /\ job.n = slot.hrnd => job.src \notin slot.learns

\* The writes of on_learn; a slot that is being reset was not learned, so that
\* no other thread can tell when.
Count ==
  /\ pc["pox"] = "count"
  /\ IF CountsLearn(objs[ref])
     THEN /\ objs' = [objs EXCEPT
                        ![ref].learns = (IF job.n > objs[ref].hrnd THEN {} ELSE @)
                                        \cup {job.src},
                        ![ref].hrnd = job.n]
          /\ round' = [round EXCEPT !["pox"] = job.n]
          /\ Goto("pox", "acquire")
     ELSE Goto("pox", "idle") /\ UNCHANGED <<objs, round>>
  /\ UNCHANGED <<me, known, crnd, slots, cseq, processed, mutex>>
  /\ UNCHANGED <<starter, sum, job, ref, log, told, heard, hosts>>

Handle == GetForAccept \/ Compare \/ EnterRound \/ Store \/ GetForLearn \/ Count

-----------------------------------------------------------------------------
(* process_queue, in either thread *)

AfterQueue(t) == IF t = "pox" THEN "idle" ELSE "read"

\* The generator takes the lock when its first slot is asked for.
Acquire(t) ==
  /\ pc[t] = "acquire" /\ mutex = Unlocked
  /\ mutex' = t
  /\ Goto(t, "head")
  /\ UNCHANGED <<me, known, crnd, slots, objs, cseq, processed>>
  /\ UNCHANGED <<starter, sum, round, job, ref, log, told, heard, hosts>>

\* The generator ends, or is closed because its consumer breaks off.
Release(t) ==
  /\ mutex' = Unlocked
  /\ Goto(t, AfterQueue(t))

\* The generator looks at the slot at the head.
LookAtHead(t) ==
  /\ pc[t] = "head"
  /\ IF cseq \in Seqno /\ slots[cseq] # Free /\ Learned(objs[slots[cseq]])
     THEN Goto(t, "send") /\ UNCHANGED mutex
     ELSE Release(t)
  /\ UNCHANGED <<me, known, crnd, slots, objs, cseq, processed>>
  /\ UNCHANGED <<starter, sum, round, job, ref, log, told, heard, hosts>>

\* Wrong: a slot is marked before process_message has said that it was sent.
SendMarksEarly(t) ==
  /\ pc[t] = "send"
  /\ processed' = processed \cup {<<round[t], cseq>>}
  /\ IF known
     THEN /\ hosts' = Append(hosts, objs[slots[cseq]].vval)
          /\ cseq' = cseq + 1
          /\ Goto(t, "head") /\ UNCHANGED mutex
     ELSE Release(t) /\ UNCHANGED <<hosts, cseq>>
  /\ UNCHANGED <<me, known, crnd, slots, objs>>
  /\ UNCHANGED <<starter, sum, round, job, ref, log, told, heard>>

\* Wrong: breaking off in the middle of the queue keeps the lock.
SendKeepsLock(t) ==
  /\ pc[t] = "send"
  /\ IF known
     THEN /\ hosts' = Append(hosts, objs[slots[cseq]].vval)
          /\ processed' = processed \cup {<<round[t], cseq>>}
          /\ cseq' = cseq + 1
          /\ Goto(t, "head")
     ELSE Goto(t, AfterQueue(t)) /\ UNCHANGED <<hosts, processed, cseq>>
  /\ UNCHANGED <<me, known, crnd, slots, objs, mutex>>
  /\ UNCHANGED <<starter, sum, round, job, ref, log, told, heard>>

\* process_message, set_processed, and back in the generator the next number.
Send(t) ==
  /\ pc[t] = "send"
  /\ IF known
     THEN /\ hosts' = Append(hosts, objs[slots[cseq]].vval)
          /\ processed' = processed \cup {<<round[t], cseq>>}
          /\ cseq' = cseq + 1
          /\ Goto(t, "head") /\ UNCHANGED mutex
     ELSE Release(t) /\ UNCHANGED <<hosts, processed, cseq>>
  /\ UNCHANGED <<me, known, crnd, slots, objs>>
  /\ UNCHANGED <<starter, sum, round, job, ref, log, told, heard>>

ProcessQueue(t) == Acquire(t) \/ LookAtHead(t) \/ Send(t)

-----------------------------------------------------------------------------
(* The background thread: background_proc_queue *)

\* It reads the round for process_queue ...
Wake ==
  /\ pc["pump"] = "sleep"
  /\ round' = [round EXCEPT !["pump"] = crnd]
  /\ Goto("pump", "acquire")
  /\ UNCHANGED <<me, shared, starter, sum, job, ref, log, told, heard, hosts>>

\* ... and again for garbage_collect.
ReadRound ==
  /\ pc["pump"] = "read"
  /\ round' = [round EXCEPT !["pump"] = crnd]
  /\ Goto("pump", "collect")
  /\ UNCHANGED <<me, shared, starter, sum, job, ref, log, told, heard, hosts>>

\* Wrong: slots are collected once they are learned.
DoneSlots == {s \in Seqno : slots[s] # Free /\ Learned(objs[slots[s]])}

\* The slots that garbage_collect evicts.
Finished == {s \in Seqno : <<round["pump"], s>> \in processed}

GarbageCollect ==
  /\ pc["pump"] = "collect" /\ mutex = Unlocked
  /\ slots' = [s \in Seqno |-> IF s \in Finished THEN Free ELSE slots[s]]
  /\ Goto("pump", "sleep")
  /\ UNCHANGED <<me, known, crnd, objs, cseq, processed, mutex>>
  /\ UNCHANGED <<starter, sum, round, job, ref, log, told, heard, hosts>>

-----------------------------------------------------------------------------
(* The learning switch has seen all hosts. *)
LearnHosts ==
  /\ ~known /\ known' = TRUE
  /\ UNCHANGED <<me, crnd, slots, objs, cseq, processed, mutex>>
  /\ UNCHANGED <<threads, log, told, heard, hosts>>

Pox == Handle \/ ProcessQueue("pox")

Pump == Wake \/ ProcessQueue("pump") \/ ReadRound \/ GarbageCollect

Next ==
  \/ Start \/ Pox \/ Pump \/ LearnHosts
  \/ TakeAccept
  \/ \E v \in Packet : TakeClient(v) \/ Number(v)
  \/ \E b \in Node, s \in Seqno : TakeLearn(b, s)

Spec == Init /\ [][Next]_vars

\* Each thread gets its turns, and pings reveal the hosts.  Nothing makes a
\* client send, or a LEARN arrive.
FairSpec ==
  Spec /\ WF_vars(Start) /\ WF_vars(Pox) /\ WF_vars(Pump) /\ WF_vars(LearnHosts)

-----------------------------------------------------------------------------
(* Properties *)

\* Where a thread can be.
Label == {"off", "idle", "get_accept", "compare", "enter", "store", "get_learn",
          "count", "acquire", "head", "send", "sleep", "read", "collect"}

\* Every variable holds a value of the kind the code gives it.
TypeOK ==
  /\ me \in Node /\ known \in BOOLEAN /\ crnd \in Nat /\ sum \in Nat
  /\ starter \in {"joined", "leading", "picked", "start", "done"}
  /\ slots \in [Seqno -> Obj \cup {Free}] /\ objs \in [Obj -> Slot]
  /\ cseq \in 0..MaxSeqno + 1 /\ processed \subseteq Nat \X Seqno
  /\ mutex \in Thread \cup {Unlocked}
  /\ pc \in [Thread -> Label]
  /\ round \in [Thread -> Nat] /\ ref \in Obj \cup {Free}
  /\ job \in [src: Node, n: Nat, s: Seqno, v: Packet \cup {NoPacket}]
  /\ log \in Seq([n: Nat, v: Packet]) /\ Len(log) <= MaxSeqno + 1
  /\ told \in 0..Len(log) /\ heard \subseteq Node \X Seqno
  /\ hosts \in Seq(Packet \cup {NoPacket})

\* The assertions of queue and process_queue hold in both threads: the slot at
\* the head was not processed in the round the thread walks the queue in.
HeadNotProcessed ==
  \A t \in Thread :
    pc[t] \in {"head", "send"} /\ cseq \in Seqno => <<round[t], cseq>> \notin processed

\* A handler that writes to a slot which is no longer in the dictionary
\* (get_slot has let go of the lock) writes to one that was forwarded: no
\* packet and no LEARN that still matters is lost.
NoUpdateLost ==
  pc["pox"] \in {"compare", "enter", "store", "count"} /\ slots[job.s] # ref
    => job.s < cseq

\* The packets of log, without their rounds.
Packets == [i \in 1..Len(log) |-> log[i].v]

Order == INSTANCE PacketOrder
         WITH Blank <- {}, log <- Packets,
              out <- [a \in Node |-> IF a = me THEN hosts ELSE <<>>]

\* Whatever the threads do, the hosts get the packets in order, each once, and
\* never an empty frame: process_queue in two threads, the fields of the slots
\* changing while they are walked (on_accept, on_learn).
ImplementsPacketOrder == Order!Spec

\* No thread keeps the lock, and what was learned is forwarded in its turn,
\* by the thread that learned it or by the pump (background_proc_queue).
LearnedIsForwarded ==
  \A s \in Seqno :
    (cseq = s /\ slots[s] # Free /\ Learned(objs[slots[s]])) ~> (cseq > s)

\* The comment in __init__: "set the next round number so that it's bigger
\* than the other ones".  Once next_round has set it, it stays.
RoundStays == me = Leader /\ starter = "done" => crnd >= NextRound
=============================================================================
