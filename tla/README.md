# Paxos in OpenFlow switches: a TLA+ verification project

This directory specifies, model-checks and in part proves the program of this
repository: Paxos run by the controllers of OpenFlow switches, so that services
behind the switches receive client packets in one order without knowing of it.
Source paths below are relative to the repository (`src/`).

## 1. The system

### Parts

| Part | Source | State it keeps | Operations |
|---|---|---|---|
| PaxosController, one per switch S1, S2, S3 | `paxos/controller/paxosctrl.py` 34-219, 450-1089 | slots (vrnd, vval, learns, hrnd), current round `crnd`, head of the queue `current_seqno`, processed set, known nodes `N`, `joined`; at S1 the sequence number | on_join, on_client, on_accept, on_learn, process_queue, garbage_collect, next_round, join_network, async_wait_joined |
| WANController, the WAN switch | same file, 221-447 | `paxos_port`, `wan_macports` | packet-in: learn, drop and ask, wrap, forward |
| BaselineController, the learning switch below both | `paxos/controller/baseline.py` | `macports`, `macip`; the switch's flow table | packet-in: learn, flood, forward, install flows; connection down |
| Messages and limits | `paxos/message.py`, `asserts.py`, `limits.py` | none | pack and unpack |
| Topology | `paxos/topology.py` | none | the line S1 - S2 - S3, WAN1 at S1, three hosts per switch |
| Flow-table variant | `paxos/controller/paxosctrl_ovs.py`, `open-vswitch/` | as PaxosController, with the ports and addresses that both variants keep: `paxos_ports`, `wan_port`, the learning switch's tables | as PaxosController; packets leave as new frames |
| insane-paxos nodes | `python/insane-paxos/node.py`, `paxos.py` | rnd, vrnd, vval, crnd, promises, v, values | trust, trust-value, prepare, promise, accept, learn |
| insane-paxos program | `python/insane-paxos/start.py`, `paxos.py`, `communication.py` | the parent's place in `start`, `send_value`, `stop`; a process and a socket per node | ping, ping-reply, time-out, trust-value, shutdown, join, interrupts |
| Key-value store | `python/key-value-store/` | server: db; client: its number and the call it is in | ping, get, put with time-outs |
| Sketches | `paxos/controller/default.py`, `controller.py`, `python/simplified-paxos-controller`, `python/pox-controllers` | a MAC table at most | hub or switch, logging |
| Scripts | `paxos/boot-mininet.py`, `python/goxos`, `python/vm`, `python/util`, `tools`, `tests`, `thesis` | none | measurements, text |

### How they interact

All controllers live in one POX process and run in its thread; each PaxosController
has more threads: two that end when the network is joined (one of them can shut
POX down, and runs `next_round`) and one that from then on processes the queue and collects
old slots every five to ten seconds. The controllers do not call each other: they exchange raw
Ethernet frames (JOIN, ACCEPT, LEARN, CLIENT), sent as packet-outs on their own
switch, and frames for another node pass through the learning switch of the node between.
A client's packet comes in at WAN1, is wrapped in CLIENT and goes to S1, the
hardcoded leader; S1 numbers it and sends ACCEPTs; whoever accepts sends LEARN to all;
whoever counts LEARNs of a majority forwards the stored packet to its hosts, in
sequence. Phase one of Paxos, leader change and retransmission do not exist here
(insane-paxos has phase one).

### What is hard, and what makes each part right

* **PaxosController**: frames lost, repeated or out of order; LEARNs before the
  ACCEPT; packets postponed in the middle of the queue because host addresses
  are unknown; collection racing late frames; start-up racing clients. Right
  means: slots 0, 1, 2, ... once each, the same packet everywhere, each accepted
  by a majority, nothing learned is forgotten, and everything numbered is forwarded in the end.
* **Its threads**: `queue_mutex` guards the dictionary of slots and the head of the queue, but not the
  fields of a slot, nor `crnd`; a handler holds on to a slot that is being collected. Right means that all
  this is not noticed in what the hosts get.
* **Its ports and addresses**: which port leads to a node, to a host, to the WAN switch is
  learned from frames that arrive in any order. Right means: a packet leaves when all hosts are known,
  for all of them and nobody else, and Paxos frames take the one way to their node.
* **Joining**: crossing JOINs, lost JOINs, switches that come up late, a time-out that stops
  everybody. Right means: acquaintance is mutual, and all join.
* **WANController**: order of learning the Paxos port, WAN addresses and wrapping.
  Right means: after the first JOIN nothing bypasses ordering and nothing is lost.
* **BaselineController**: upcalls race the flows they lead to. Right means: nobody gets a frame
  twice, everybody gets what is addressed to them, no flow blinds a controller.
* **insane-paxos**: competing proposers over UDP. Right means agreement. The program around it: nodes that bind
  late, pings sent again, answers that come late, a shutdown that is sent once. Right means that
  `start` returns just when all nodes loop, the value is learned, and `stop` returns.
* **Key-value store**: repeated requests and late answers without identity. Right
  means the counter never goes back, and the client gets on.

`PROJECT.json` lists every hazard at its line.

## 2. Modules

| Module | Models | Composes |
|---|---|---|
| `PaxosController` | slots, handlers, pump and collection of all three controllers over a network that loses, repeats and reorders | |
| `PacketOrder` | abstract: one log, and each switch sends its hosts a prefix | |
| `PaxosControllerProofs` | theorems about `PaxosController` and `PaxosChain` | `PaxosChain`, `PacketOrder` |
| `PaxosChain` | the controllers on the topology's line: FIFO links, relaying at S2, start-up, late host addresses | `PaxosController`, `PacketOrder` |
| `SlotQueue` | one controller of `PaxosController`, in steps of its three threads | `PacketOrder` |
| `SlotQueueProofs` | theorems about `SlotQueue` | `SlotQueue`, `PacketOrder` |
| `PaxosControllerOvs` | one `PaxosControllerOVS` with its ports, addresses and learning switch, and what its surroundings may send | |
| `PaxosControllerOvsProofs` | theorems about `PaxosControllerOvs` | `PaxosControllerOvs` |
| `JoinNetwork` | JOIN, requests to announce, time-outs | |
| `JoinNetworkProofs` | theorems about `JoinNetwork` | `JoinNetwork` |
| `WANController` | the WAN switch with clients, hosts and the gateway S1 | |
| `WANControllerProofs` | theorems about `WANController` | `WANController` |
| `LearningSwitch` | switches with flow tables, their controller, hosts | |
| `LearningSwitchProofs` | theorems about `LearningSwitch` | `LearningSwitch` |
| `InsanePaxos` | Node of insane-paxos, both phases | |
| `InsanePaxosProofs` | theorems about `InsanePaxos` and `StartPaxos` | `StartPaxos`, `Consensus` |
| `StartPaxos` | the parent process, the nodes' processes and sockets, signals | extends `InsanePaxos`, whose handlers it calls |
| `Consensus` | abstract: one value is chosen, for good | refined by `InsanePaxos` |
| `KeyValue` | client and server of the key-value store | |
| `KeyValueProofs` | theorems about `KeyValue` | `KeyValue` |
| `MC...` | constants and bounds for TLC | |

### Correspondence with the code

*PaxosController.* `state[a]` is the node's `PaxosState`; its `keys` are the keys
of the dictionary `slots`, because `get_slot` makes slots and collection deletes
them. Each handler is an operator on one controller's state (`OnAccept`,
`OnLearn`, `ProcessQueue`) so that `on_client` can be the composition it is in
the code: ACCEPTs to the others, then a direct call of `on_accept`, which calls
`on_learn`, which calls `process_queue`. `stage` says where the controller's threads are; the stages
`leading` and `gc` are the two places where another thread can get between
steps of `next_round` and of the background loop. `known` stands for
`host_addresses_known`, which the learning switch changes behind the controller's back, in
both directions. `msgs` holds all frames ever sent; receiving does not
remove them, so loss, duplication and reordering need no actions of their own.
The assertion on 32-bit numbers in `pack_accept` is the guard `s \in Seqno`:
numbers do not wrap, the leader's handler fails. `hosts` and `submitted` are histories.

*PaxosChain* adds `link`, one FIFO per direction of a cable. A handler's frames
are appended in the order in which the code sends them (nodes by MAC address; `Taking` are those that go out by one link), frames for somebody
else are relayed, and a node that has not joined drops what it gets.
`EarlyClients` lets clients send before that.

*SlotQueue.* A step of `PaxosController` is split wherever another thread can see or change something. `pc[t]` is
where a thread is, `round[t]` the argument of its `process_queue` or `garbage_collect`, `ref` the slot object
that the POX thread's handler holds. The generator `queue` takes the lock when its first
slot is asked for and releases it when it ends or its consumer breaks off (CPython closes it then): `Acquire`, `LookAtHead`, `Send`.
`slots` maps keys to objects (`Free` when there is none), so that collection can take away an object
that `ref` still names. `self.crnd += len(self.N)` is two steps. `log` is what the leader has numbered, `told` how many
of these ACCEPTs have come in. They come in order, and the leader's LEARN comes behind its ACCEPT, because both go the same way. Another node's LEARN may
come before the ACCEPT: at S3 that of S2 always does, which S2 sends from `on_accept`, before its switch has relayed the ACCEPT. So `get_slot` in `on_learn`
may make the slot, and votes be counted in it, when its packet is not there yet; every follower may meet this in the model. The sending of LEARNs and ACCEPTs is left out: it has no effect on this controller but the calls to itself, which are there.

*PaxosControllerOvs.* `PacketIn` is the two listeners in the order of their priorities: `handle_paxos`
and, unless that returned `EventHalt`, `BaselineController`'s handler (`Switch`), here without `add_flows`. A
port is named for what is at its other end, so that the topology is `Hop`. `Hosts` and `HostAddressesKnown` are the code's counts over ports; `MacsOn` may hold
more than one address when a node's JOIN is not the first that is heard from its port. The surroundings send every frame that
their part of the protocol allows, as often as they like, also frames in transit
between the other two switches (`Beyond`). `WanAsks` says whether the WAN switch ever had to ask for
announcements, which decides whether S1's switch knows its address. `inbox` is a history of slot numbers per address, and `out` the
frames of the last step; no action reads either, and the run's `VIEW` leaves `out` out of what makes two states
different. Compared with `paxosctrl.py`, this variant takes LEARNs only for its own address, stores the raw payload, and
builds a new frame without a type for the hosts (`RewriteDestinations`); IP addresses
are not rewritten, because the new frame is never parsed.

*JoinNetwork.* A frame carries the embedded address, or the broadcast address for a request to
announce. Handlers of JOIN do not halt the event, so the learning switch below
forwards the JOIN too (`Forward`); a frame for the switch's own address is flooded,
because no controller ever learns its own. That is why S1 and S3 meet when S2 comes up last: S2's
flood of S1's answer reaches S3. `timer` is `timeout` in `async_wait_joined`, and
the threads take turns in each second. `TreeAssumption` says that the links form a tree, which topology.py
sees to ("If we add links to all switches, we get loops, which we don't want"): a frame goes everywhere, and nowhere twice.

*WANController.* `upcalls` is the connection to POX, in order. `Dispatch` is the
cascade of `_handle_PacketIn` in its order: learn, wrap, forward to a known
client, broadcast, rest to the Paxos port. A wrapped frame is a new packet-out without an input
port; a forwarded one keeps the input port and never leaves by it.

*LearningSwitch.* The controller answers an upcall with packet-outs and
flow_mods on an ordered connection; frames that match a flow do not wait for
it. `casts` are the switches with the flow for broadcasts that the constructor installs; it times out like the others, but
is added again by a restart only (`ExpireBroadcast`). `Behind` are the switches on one side of
a link; `TreeAssumption` says that what is behind two links of a switch is apart, as in `topology.py`.

*InsanePaxos.* One action per handler. `Enough` is the code's integer division, `Pick`
the last element of the sorted promises, and `Misaddressed` lets a TRUST-VALUE that names another
node arrive, which the code reads before looking at the name.

*StartPaxos.* It extends `InsanePaxos`, so the variables of the nodes and their handlers are the same (in the run, with one
round); a message that a handler sends goes into the `inbox` of each receiver whose process is `looping`, and is gone for the others: local sockets lose
nothing once they are bound. `Take` removes the message also when no handler heeds it. `replies` is the
parent's socket, in order, so that a second answer of one node is in front of the first of the next; it is dropped when `start` is over, because nobody reads it any more. A ping that would be the third
under way for one node is lost (`Pings`). `Interrupt` ends all processes, as Ctrl-C does, or the parent's waiting only.

*KeyValue.* `waiting` splits `sendrecv`; `Receive` takes whatever comes, as the code does.
Requests stay in order because the network between client and server is the one specified above.

Operators marked `Wrong:` are faulty variants of a definition, used to see
that the properties notice them.

## 3. Runs

| Run | Shows | Bounds |
|---|---|---|
| `controller` | `InOrderExactlyOnce`, `SamePackets`, `MajorityAccepted`, `HeadNotProcessed`, `LearnedKept`; the controllers implement `PacketOrder` with empty frames allowed | 3 nodes, 2 packets; one node (S1) postpones and collects; all have joined before the first packet |
| `slots` | the hosts get the packets in order whatever the threads do, the assertions hold, no update of a slot that matters is lost, what is learned is forwarded; no frame is empty, although LEARNs may come before their ACCEPT | each of the 3 controllers, 2 packets, clients that wait for start-up |
| `ovs` | every host gets every packet in order, Paxos frames find their way, what is postponed is forwarded | each of the 3 switches, 2 hosts, 1 client, 2 packets of one kind, the WAN switch asks first |
| `hosts_counted` | violation: a packet is forwarded without one of the hosts | the same, the WAN switch has not asked |
| `chain` | on the real topology `PacketOrder` is implemented exactly, without empty frames, and every numbered packet is forwarded by all | 2 packets, clients that wait for start-up, S3 learns its hosts late |
| `join` | acquaintance is mutual when nothing is under way | 3 switches, any interleaving of starts and deliveries, no loss |
| `join_live` | all join, and nobody runs into the time-out | 7 seconds, one JOIN lost, JOINs delivered in a fixed order |
| `wan` | only what precedes the first JOIN is lost; order, wrapping, replies; the Paxos network is found | 2 clients, 1 host, 3 frames and 1 reply |
| `switch` | at most once, no host is hidden by a flow, delivery to everybody | 2 switches, 3 hosts, 3 frames, one of: a flow (of two addresses, or for broadcasts) expires, a host moves, POX restarts |
| `insane` | `Consensus` is implemented (agreement), `OneValuePerRound`, `AcceptAfterMajority`; a lone leader gets the learner to learn | 3 nodes, 2 values, rounds 1 and 2, one node that records |
| `start` | no node is without a socket when `start` returns, and it returns; the value is learned; `stop` returns | 3 nodes, of which the leader or another one may fail, or all together, 2 pings under way per node, signals to the parent alone only when all nodes are up |
| `kv` | the counter never goes back, and the client gets on | counts to 3, 3 datagrams per direction |

Why these bounds are enough for the question asked: two packets make a gap, an
order and a repetition possible; three nodes are what the repository deploys, and a majority
of them is a proper subset; one slow node (the leader, whose own slots are the ones that fill first) meets every combination of postponed,
collected and late with the others; two rounds with two proposers are the least
that makes a later proposer find an earlier vote; three frames let an upcalled frame, the flows
it causes and a frame that races them coexist. What is true beyond
the bounds is said by the theorems of section 5, where there are any.
`CHECK_DEADLOCK FALSE` appears where clients stop sending or POX has been shut down.

The time-out of `join_live` is 7 seconds and not the 10 of the code: the thread asks again whenever its number
is a multiple of three, so 7 leaves one request fewer, which makes the property harder to satisfy.

What the runs do not say, so that nothing is read into them:

* `SamePackets` and the refinement of `controller` allow empty frames; those are ruled out by `chain` and `slots` (and `ExactOrder`
  and `Refinement` of section 5) only.
* `controller` and `insane` have three nodes, so what even numbers of nodes would do is left to the theorems `Majority` and
  `Majorities` (the latter needs an odd number). In `insane` each proposer has one round; later rounds are
  covered by `Majorities`, `RoundsAgree` and `Implements`.
* `join_live` starts the switches calmly; JOINs that cross are in `join` only.
* In `wan`, `RepliesGetOut` is about single clients that are known: it says nothing about broadcasts, or about replies to clients nobody has heard.
* In `switch`, `NobodyHides` is about hosts that have not been heard, not about those that have moved, and `Delivered` says
  that frames arrive, not in which order.

### What the violations say

`hosts_counted` is quoted in `PROJECT.json` with the sentences of the code that it contradicts.
`host_addresses_known` does not skip the WAN port, but takes it off what it expects. If one client is known at S1 with its
IP address, and nothing else has been learned on that port, the count is one too high: with all hosts but one
the packet is forwarded, and the missing host never gets it (the run); with all
hosts it is postponed, until a second client is seen and the port has two addresses. The `ovs`
run shows that the code is right when the WAN switch's own address has come first; the same lines are in `paxosctrl.py`.

The models also show, without a run of their own: nodes store nothing on LEARN, so a node that dropped an ACCEPT while it was joining
forwards an empty frame (`ImplementsExactOrder` of `PaxosChain` with `EarlyClients = TRUE`), although the thesis says that "all nodes store the packet upon
receiving an accept"; nothing is retransmitted, so a slot that is not learned blocks the queue for good (`EveryPacketForwarded`
with `EarlyClients = TRUE`); `on_accept` may put the leader's round back to the one before `pickNext`,
after which the other nodes refuse all its ACCEPTs (`RoundStays` of `SlotQueue` with
`EarlyClients = TRUE`); with an even number of insane-paxos nodes half of them is taken for a
majority (`AcceptAfterMajority` with `N = 2`; agreement survives it, because what is chosen needs a true majority of
votes); when the parent alone is interrupted while nodes start, its shutdown is lost and its join waits
forever (`StopJoins` with `EarlyInterrupt = TRUE`), since the early return of `loop` for a node that was "signaled to stop BEFORE even
starting the loop" cannot happen; UDP broadcasts of hosts go back into the Paxos network
(`to_paxos_addr` is tested before the port); ports are learned once, so that a host that moves is looked for
at its old place; a TRUST-VALUE is stored before its addressee is looked at, so that a misaddressed
one can put two values into one round (`Misaddressed = TRUE`); answers of the key-value server have no
identity, so that a repeated call leaves an answer behind which the next get takes for its own.

## 4. Fairness

* `PaxosChain`: a frame that is under way moves (the emulated links are
  lossless), the start-up threads run to their end, pings reveal hosts, and each background thread keeps looping. Weak
  fairness is enough; nothing makes a client send.
* `SlotQueue`: each thread gets its turns, and pings reveal the hosts; nothing makes a packet or a LEARN come.
* `PaxosControllerOvs`: start-up proceeds and the background thread keeps looping; each host sends an IP packet in
  the end (the comment in `process_message` counts on a pingall). Nothing else of the surroundings is owed.
* `JoinNetwork`: threads run and frames arrive; `Second` has strong fairness, because time passes
  although JOINs may be under way again and again.
* `WANController`: POX serves its upcalls, and the link to the gateway delivers. `LearningSwitch`: something
  is forwarded as long as there is anything to forward; no switch or controller has fairness of its own.
* `InsanePaxos`: each process keeps receiving and no message is lost for good.
* `StartPaxos`: the processes are scheduled; interrupts and failures are not owed.
* `KeyValue`: the client's loop runs; strong fairness on `Receive` and on answered requests says that a
  datagram which is repeated forever gets through, the assumption its "Try until we get a reply" makes.

## 5. Proofs

`PaxosControllerProofs` proves, for every number of nodes, packets and sequence
numbers, from the assumptions named in `PaxosController` only:

| Theorem | Statement |
|---|---|
| `TypeCorrect` | `Spec => []TypeOK` |
| `Ordered` | `Spec => []InOrderExactlyOnce` |
| `Agreement` | `Spec => []SamePackets` |
| `Assertions` | `Spec => []HeadNotProcessed` |
| `Majority` | `Spec => []MajorityAccepted` |
| `KeptUntilForwarded` | `Spec => LearnedKept` |
| `Refinement` | `Spec => ImplementsPacketOrder` |

None of these properties is inductive. `SamePackets` speaks of forwarded
packets only; a step that forwards takes them from slots, and these from ACCEPTs.
`IInv` therefore ties the chain together: every ACCEPT carries the packet that `submitted` has at its number; a slot's
value, if any, is that of such an ACCEPT; the LEARNs a slot has counted were sent, all in the slot's
`hrnd`, so that a learned slot has a majority of LEARNs in `msgs`; processed numbers lie
below the head; and the length of `hosts` is the head. The proof goes over the handlers in the order in
which they call each other: `ProcessQueueOK`, `OnLearnOK`, `StoreOK`,
`OnAcceptOK`, each saying that the handler takes a good state to a good state,
and then one lemma per action. `KeptUntilForwarded` and `Refinement` take
`IInv` as an invariant and look at single steps: the head advances over
ready slots only, and collection removes only what lies below it, so that each step appends to `hosts`
packets of `submitted` in order.

The same module proves of the line of switches, again for every number of packets and sequence numbers:

| Theorem | Statement |
|---|---|
| `ChainRuns` | `ChainSpec => Spec` |
| `ExactOrder` | `ASSUME Orderly, Few PROVE ChainSpec => ImplementsExactOrder` |

`ChainRuns` takes every theorem about the controllers over to the real topology, whether clients wait or not. Each frame on a link
was sent (`SentOnly`), so delivering it is a step of `PaxosController`; and what `on_client` does in one call is one step of
the model because the leader always accepts its own ACCEPT (`LeaderOK`).

`ExactOrder` is what `Refinement` leaves open: no switch ever forwards a frame that is empty because it has not got the packet. `Orderly` says that clients
wait for start-up and that no node starts in a round above the leader's first; `Few` that there are at most four switches. The invariant `ChainInv`
says of each node (`ToldOK`) that it has every numbered packet that it has not forwarded, or the ACCEPT with it is on
its way. Nothing ensures this but the order of the links: the leader sends its LEARN right behind its ACCEPT, relaying keeps them so, and
so a node that has not got a packet has not got the leader's vote for it, nor has it voted itself (`AcceptsFirst`, `Onward`). It then counts at most
all nodes but two, which of up to four is no majority (`Few`). `Hop` may be any way of going from node to node; the proof
uses that a switch relays frames for one other in the order in which they come. The bound is needed: in a line of five TLC finds an empty frame at the far end, because each of
the three switches in between votes before it relays the ACCEPT that goes on to the end. The repository
deploys three. Which frames take which link, and in which order (`ordered_nodes`), is a recursive function (`Only`); what it selects is
proved by the least number that would be a counterexample (`LeastNatural`, `Induction`, `OnlyFacts`).

`SlotQueueProofs` proves of the threads of one controller, for every number of nodes, packets and
slots, from the assumptions named in `SlotQueue`:

| Theorem | Statement |
|---|---|
| `TypeCorrect` | `Spec => []TypeOK` |
| `Assertions` | `Spec => []HeadNotProcessed` |
| `NothingLost` | `Spec => []NoUpdateLost` |
| `Refinement` | `ASSUME OrderlyStart, Few PROVE Spec => ImplementsPacketOrder` |

The invariant is `IInv`: whoever walks the queue has the lock (`Exclusive`); the slot that is being sent stays at the head
and learned although the POX thread may write to it meanwhile (`HeadLearned`, because a learned slot never gets fewer votes);
only numbers below the head were processed (`ProcessedBelow`), which gives the assertions and makes collection
harmless; no object is at two keys (`OneKey`); and the object a handler holds is at its key or was taken from
there after it had been sent (`RefKept`, which is `NoUpdateLost` and more). It needs neither assumption on when
clients start, so these three theorems also hold with `EarlyClients = TRUE`. The refinement does need one, and TLC shows why:
`OrderlyStart` says that clients wait for start-up and that the leader's round is not below the first round of
another node. `Few` says again that there are at most four nodes, because votes may come before the ACCEPT; with five TLC finds an empty frame here too.
`OrderInv` then says that the ACCEPT that is being handled is not refused (`RoundsOK`, `StoringOK`); that a slot whose ACCEPT
has not come in, or is only being stored, has no votes but of `Early` nodes (`Empty`), which are neither the leader nor the node itself, and
of up to four nodes are no majority (`EarlyVotes`), so that the slot cannot be passed; and that every other slot between the head and the end
of what has come in exists and holds the packet of the log (`SlotsOK`). What is sent is therefore the next packet of the log.

`InsanePaxosProofs` proves agreement of single-decree Paxos as insane-paxos has it, for every number of nodes, values and rounds:

| Theorem | Statement |
|---|---|
| `TypeCorrect` | `Spec => []TypeOK` |
| `Majorities` | `ASSUME N % 2 = 1 PROVE Spec => []AcceptAfterMajority` |
| `RoundsAgree` | `ASSUME Addressed PROVE Spec => []OneValuePerRound` |
| `Implements` | `ASSUME Addressed PROVE Spec => ImplementsConsensus` |
| `StartTypeCorrect` | `StartSpec => []StartTypeOK` |
| `StartWaitsForAll` | `StartSpec => []StartedMeansLooping` |
| `StartRuns` | `StartSpec => Spec` |
| `StartRoundsAgree` | `StartSpec => []OneValuePerRound` |
| `StartImplements` | `StartSpec => ImplementsConsensus` |

`PInv` needs no assumption but those of the model: nodes use rounds of their own only (`RoundsOwned`, what `pickNext`
is for); what an acceptor says of its vote, to itself and in promises, is true and stays true (`VotesKept`, `PromisesKept`);
it promises once per round, and proposers count promises that were sent. `IInv` adds what a TRUST-VALUE for another node
would break (`Addressed` says that there is none; `OneValuePerRound` fails without it): one value per round, votes for what was
proposed only, and `AcceptsSafe`: whatever is proposed in a round, nothing else was or will be chosen below. The
code's threshold is `N // 2`, which for an even number of nodes is half of them, and yet agreement is proved for
every N: what is chosen has the votes of a true majority, and that many and `Enough` nodes have one in common.
Only `AcceptAfterMajority` needs an odd number.

The last five are about the program that starts the nodes. `StartInv` adds to `IInv` what is in the sockets (`InboxOK`: messages that were
sent, and TRUST-VALUEs that name the node they wait for, because `send_value` names the node that it sends to), and what the parent relies on
(`ParentOK`): an answer in its socket is from a node that is up (`AnswersFromUp`), and all nodes before the one that it pings are up
(`PingedInOrder`), since a process that has bound its socket does not go back. So the agreement of the program needs no assumption on TRUST-VALUEs, whatever
nodes end and whoever is interrupted. `Handle` says with ENABLED when a message is not heeded; the proofs need only that such
a step leaves the node alone.

`KeyValueProofs` proves `CountsUp`, `Spec => ServerCountsUp`: the counter never goes back. A put may be repeated and
be delivered late, so the number it carries must be compared with those of all other puts under way:
`PutsGoUp` says that they go up, from what the server has to one more than the client has.

`LearningSwitchProofs` proves `KnowBeforeFlow`, `Spec => []NobodyHides`: between the answer to an upcall
and the flow there is the connection to the switch, so the invariant speaks of the commands under way as well (`CommandsKnown`).
It also proves `NothingTwice`, `Spec => []AtMostOnce`, for every tree of switches (`TreeAssumption`). The invariant `Once` counts no frames. A copy that
is under way, on a link, in an upcall or in a command, stands for the places that it can still get to (`Far`), whatever the
flows along the way say or will say. Copies of one frame stand for disjoint sets (`Apart`), and no copy stands for a place that has had the frame
(`Avoids`). A step keeps this because what a switch puts out by different ports goes to different branches of the tree (`FarApart`), each of
them among what the copy stood for when it came in (`FarCovers`). Flows may be installed, time out or be old, and controllers may be restarted, without
any of it mattering; a host moves only while nothing is under way, a bound of the model that the theorem shares; the proof shows that what the controller has learned is no part of the argument. The tree is: with a ring of three
switches TLC finds a frame that comes twice, which is what the comment at `topology.py:173` warns of.

`WANControllerProofs` proves `PrefixLost` and `AnswersGetOut` (`OnlyThePrefixIsLost`, `RepliesGetOut`). `Waiting` says
that the clients' frames in `upcalls` are all those that come after the oldest of them, in order; `OutFirst` that what is
on the link to the Paxos network was sent before; `Sides` that no address of a host is ever learned on the WAN side
(with `Numbered`, this makes a frame known by its number). A frame is lost only by a step that puts it nowhere, and then no frame before it is out.

`PaxosControllerOvsProofs` proves of one switch among its neighbours, for every number of nodes, hosts, clients and packets and every tree `Hop`:

| Theorem | Statement |
|---|---|
| `TypeCorrect` | `Spec => []TypeOK` |
| `AllHostsInOrder` | `ASSUME WanAsks PROVE Spec => []EveryHostInOrder` |
| `NoStrayFrames` | `Spec => PaxosFindsItsWay` |
| `Transit` | `Spec => []TransitPassesOn` |

`Sides` says that an address is learned, if at all, at the port where the frames of its owner come in, and that a node that has announced itself is
found there, whatever of its frames comes first. `Addresses` says that only hosts and clients have sent IP packets, and that the WAN
switch's own address is on the clients' port if any client is, provided the WAN switch asks first: then the count of
`host_addresses_known` is right and a packet that is forwarded goes to every host. `hosts_counted` shows that
the assumption is needed.

`JoinNetworkProofs` proves `TypeCorrect` and `Mutual`, `Spec => []MutualKnowledge`, for every tree of switches. `MutualKnowledge` speaks of the moments
when nothing is under way only. `Answered` says what holds in between: if a knows b, then b knows a, or a frame is on its
way towards b that will tell it. Such a frame arrives because all switches on its way are up, which is what
`FramesOK` and `KnownOK` are about. Type correctness needs `InTime`, nobody's timer reaching zero while POX runs, and found that
`TimeoutAssumption` had to exclude a time-out of 1, with which a thread would count below zero; the code's is 10.

Assumptions on constants are stated with the constants, and TLC evaluates them on each run. The theorems that need more say so
themselves (`ASSUME ... PROVE`).

Only model-checked: all liveness, because the prover has no rule for fairness and ENABLED. The safety properties and refinements that the passing runs
check are all theorems as well, each under the assumptions named here.

## 6. Not modelled

* Of the flow-table variant: `add_flows`, which it hands to its learning switch (`LearningSwitch` has those flows, under the
  baseline controller); the patched Open vSwitch of `open-vswitch/`, a submodule that is not part of the repository; and its
  `WANController`, the other file's apart from one line: it sends a client's packet on without wrapping it in CLIENT.
* The byte layout of messages; planned as pure operators. The assertion on the width of numbers is in `PaxosController`.
* Address rewriting before packets leave for the hosts in `paxosctrl.py` (`rewrite_destinations`): it changes
  where a frame goes, and no property here depends on it. `PaxosControllerOvs` has that of its file.
* The fourth node that shuts POX down; the topology has three.
* The sketches and scripts of the inventory: no protocol, or an unfinished one.

## 7. Plan

In this order:

1. Composition of `WANController` with `PaxosChain`, so that ordering is stated from client to host.
2. `PaxosMessage`: pack and unpack as inverse functions on fields, with their asserts.
