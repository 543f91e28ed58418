------------------------------ MODULE StartPaxos ------------------------------
(***************************************************************************)
(* The program python/insane-paxos/start.py: a parent starts a process for  *)
(* each node, pings each until it answers, sends the value to the leader,   *)
(* waits, and at the end shuts the nodes down and joins their processes.    *)
(* What a node does with the messages of Paxos is InsanePaxos; here each of *)
(* them reaches only the nodes that have bound their sockets by then.  The  *)
(* sockets are local: nothing is lost on the way to one that is bound, and  *)
(* nothing is repeated.  In which order a node takes what waits in its      *)
(* socket is left open.                                                     *)
(***************************************************************************)
EXTENDS InsanePaxos, Sequences

CONSTANTS
  Failures,       \* Bound: the sets of nodes that may end together by themselves
  Pings,          \* Bound: how many pings of one node are under way
  EarlyInterrupt  \* may the parent alone be interrupted while nodes start?

ASSUME FailuresAssumption == Failures \subseteq SUBSET (1..N)
ASSUME PingsAssumption == Pings \in Nat \ {0}
ASSUME EarlyInterruptAssumption == EarlyInterrupt \in BOOLEAN

VARIABLES
  process,  \* where each node's process is
  pings,    \* how many pings wait in its socket
  inbox,    \* the other messages there
  replies,  \* the cookies of the answers in the parent's socket, while it reads
  client,   \* where the parent is
  target    \* the node that it pings

startVars == <<vars, process, pings, inbox, replies, client, target>>

-----------------------------------------------------------------------------
(* Data *)

Leader == 1

\* A node has no socket, is in its receive loop, or is no more.
Process == {"starting", "looping", "ended"}

\* ping and await are in start(), up is after it, waiting in send_value(),
\* stopping and joining in stop().
Client == {"ping", "await", "up", "waiting", "stopping", "joining", "done"}

Starting == client \in {"ping", "await"}

TrustValueMsg == [type: {"trust-value"}, c: Node, value: Value]

ShutdownMsg == [type: {"shutdown"}]

\* Those to whom a node sends m.
Receivers(m) ==
  CASE m.type = "promise" -> {m.dst}
    [] m.type = "learn" -> Learner
    [] OTHER -> Node

\* box after the messages in M were sent: who has no socket gets nothing.
Sent(box, M) ==
  [i \in Node |->
     IF process[i] = "looping" THEN box[i] \cup {m \in M : i \in Receivers(m)} ELSE box[i]]

\* Each node has a cookie of its own; a ping that is sent again has the same.
UnderWay(i) == pings[i] + Cardinality({k \in DOMAIN replies : replies[k] = i})

StartInit ==
  /\ Init
  /\ process = [i \in Node |-> "starting"]
  /\ pings = [i \in Node |-> 0]
  /\ inbox = [i \in Node |-> {}]
  /\ replies = <<>>
  /\ client = "ping"
  /\ target = 1

-----------------------------------------------------------------------------
(* The processes of the nodes *)

\* setup() binds the socket and enters loop().
Setup(i) ==
  /\ process[i] = "starting"
  /\ process' = [process EXCEPT ![i] = "looping"]
  /\ UNCHANGED <<vars, pings, inbox, replies, client, target>>

\* The address is in use (setup), or an exception or a signal ends the loop.
Ends(S) ==
  /\ \E i \in S : process[i] # "ended"
  /\ process' = [i \in Node |-> IF i \in S THEN "ended" ELSE process[i]]
  /\ UNCHANGED <<vars, pings, inbox, replies, client, target>>

\* After start() nobody reads the answers.
OnPing(i) ==
  /\ process[i] = "looping" /\ pings[i] > 0
  /\ pings' = [pings EXCEPT ![i] = @ - 1]
  /\ replies' = IF Starting THEN Append(replies, i) ELSE replies
  /\ UNCHANGED <<vars, process, inbox, client, target>>

\* The flag that ends the loop is read before the next message is.
OnShutdown(i) ==
  /\ process[i] = "looping" /\ ShutdownMsg \cap inbox[i] # {}
  /\ process' = [process EXCEPT ![i] = "ended"]
  /\ inbox' = [inbox EXCEPT ![i] = @ \ ShutdownMsg]
  /\ UNCHANGED <<vars, pings, replies, client, target>>

\* A handler of InsanePaxos, or the message is ignored.
Handle(i, m) ==
  IF m.type = "trust-value" THEN TrustValue(i, m.c, m.value)
  ELSE IF ENABLED Receive(i, m) THEN Receive(i, m) ELSE UNCHANGED vars

Take(i, m) ==
  /\ process[i] = "looping" /\ m \in inbox[i] \ ShutdownMsg
  /\ Handle(i, m)
  /\ inbox' = Sent([inbox EXCEPT ![i] = @ \ {m}], msgs' \ msgs)
  /\ UNCHANGED <<process, pings, replies, client, target>>

Loop(i) == OnPing(i) \/ OnShutdown(i) \/ \E m \in inbox[i] : Take(i, m)

-----------------------------------------------------------------------------
(* The parent *)

\* One turn of the loop in start().
Ping ==
  /\ client = "ping"
  /\ client' = "await"
  /\ pings' = [pings EXCEPT ![target] =
                 IF process[target] = "looping" /\ UnderWay(target) < Pings THEN @ + 1 ELSE @]
  /\ UNCHANGED <<vars, process, inbox, replies, target>>

\* Wrong: the cookie is not looked at.
TakeAnyReply ==
  /\ client = "await" /\ replies # <<>>
  /\ replies' = Tail(replies)
  /\ client' = IF target < N THEN "ping" ELSE "up"
  /\ target' = IF target < N THEN target + 1 ELSE target
  /\ UNCHANGED <<vars, process, pings, inbox>>

\* Wrong: one node too many.
TakeReplyPast ==
  /\ client = "await" /\ replies # <<>>
  /\ replies' = Tail(replies)
  /\ client' = IF Head(replies) = target /\ target > N THEN "up" ELSE "ping"
  /\ target' = IF Head(replies) = target THEN target + 1 ELSE target
  /\ UNCHANGED <<vars, process, pings, inbox>>

\* An answer to an earlier ping does not count, and the node is pinged again.
TakeReply ==
  /\ client = "await" /\ replies # <<>>
  /\ replies' = IF Head(replies) = target /\ target = N THEN <<>> ELSE Tail(replies)
  /\ client' = IF Head(replies) = target /\ target = N THEN "up" ELSE "ping"
  /\ target' = IF Head(replies) = target /\ target < N THEN target + 1 ELSE target
  /\ UNCHANGED <<vars, process, pings, inbox>>

\* Wrong: the parent's socket has no time-out.
NeverTimesOut == FALSE /\ UNCHANGED startVars

\* socket.timeout after a second, also when the node is only slow.
TimesOut ==
  /\ client = "await" /\ replies = <<>>
  /\ client' = "ping"
  /\ UNCHANGED <<vars, process, pings, inbox, replies, target>>

\* Wrong: the leader is not the one that the message names.
SendValueToLast ==
  /\ client = "up"
  /\ \E x \in Value :
       inbox' = [inbox EXCEPT ![Leader] =
                   @ \cup {m \in TrustValueMsg : m.c = N /\ m.value = x}]
  /\ client' = "waiting"
  /\ UNCHANGED <<vars, process, pings, replies, target>>

\* send_value()
SendValue ==
  /\ client = "up"
  /\ \E x \in Value :
       inbox' = [inbox EXCEPT ![Leader] =
                   IF process[Leader] = "looping"
                   THEN @ \cup {[type |-> "trust-value", c |-> Leader, value |-> x]} ELSE @]
  /\ client' = "waiting"
  /\ UNCHANGED <<vars, process, pings, replies, target>>

AllEnded == \A i \in Node : process[i] = "ended"

\* wait_finish() in send_value() returns.
Finish ==
  /\ client = "waiting" /\ AllEnded
  /\ client' = "stopping"
  /\ UNCHANGED <<vars, process, pings, inbox, replies, target>>

\* KeyboardInterrupt.  Ctrl-C goes to all processes and ends each node; a
\* signal may also be sent to the parent alone.
Interrupt ==
  /\ client \in {"ping", "await", "up", "waiting"}
  /\ client' = "stopping"
  /\ \/ process' = [i \in Node |-> "ended"]
     \/ /\ EarlyInterrupt \/ \A i \in Node : process[i] # "starting"
        /\ UNCHANGED process
  /\ replies' = <<>>
  /\ UNCHANGED <<vars, pings, inbox, target>>

\* Wrong: the node that start() pinged last is left out.
StopOthers ==
  /\ client = "stopping"
  /\ inbox' = [i \in Node |->
                 IF i = target THEN inbox[i] ELSE Sent(inbox, ShutdownMsg)[i]]
  /\ client' = "joining"
  /\ UNCHANGED <<vars, process, pings, replies, target>>

\* stop() tells each node once, and does not wait for an answer.
Stop ==
  /\ client = "stopping"
  /\ inbox' = Sent(inbox, ShutdownMsg)
  /\ client' = "joining"
  /\ UNCHANGED <<vars, process, pings, replies, target>>

Joined ==
  /\ client = "joining" /\ AllEnded
  /\ client' = "done"
  /\ UNCHANGED <<vars, process, pings, inbox, replies, target>>

Parent == Ping \/ TakeReply \/ TimesOut \/ SendValue \/ Finish \/ Stop \/ Joined

StartNext ==
  \/ Parent \/ Interrupt
  \/ \E i \in Node : Setup(i) \/ Loop(i)
  \/ \E S \in Failures : Ends(S)

StartSpec == StartInit /\ [][StartNext]_startVars

\* All processes are scheduled.  Nobody need interrupt, and no node need fail.
FairStartSpec ==
  /\ StartSpec
  /\ WF_startVars(Parent)
  /\ \A i \in Node : WF_startVars(Setup(i)) /\ WF_startVars(Loop(i))

-----------------------------------------------------------------------------
(* Properties *)

\* Every variable holds a value of the kind the code gives it.
StartTypeOK ==
  /\ TypeOK
  /\ process \in [Node -> Process]
  /\ pings \in [Node -> 0..Pings]
  /\ \A i \in Node : inbox[i] \subseteq msgs \cup TrustValueMsg \cup ShutdownMsg
  /\ replies \in Seq(Node)
  /\ client \in Client
  /\ target \in Node

\* "waits until all agents are in the receive loop": whatever late answers to
\* repeated pings are about when start() returns, no node is without a socket.
StartedMeansLooping ==
  client \in {"up", "waiting"} => \A i \in Node : process[i] # "starting"

\* start() returns unless it is interrupted or a node has ended, although pings
\* of nodes that are not up are lost and answers may be too late.
StartReturns ==
  Starting ~> ~Starting \/ \E i \in Node : process[i] = "ended"

\* What the parent sends is learned unless someone interrupts: each message of
\* both phases is sent once, so none may meet a node that is not up yet.
ValueLearned ==
  client = "waiting" ~> \/ \A i \in Learner : values[i] # {}
                        \/ client # "waiting"
                        \/ \E i \in Node : process[i] = "ended"

\* "Tell all agents to stop and join the processes": stop() returns.
StopJoins == client = "stopping" ~> client = "done"
=============================================================================
