----------------------------- MODULE JoinNetwork -----------------------------
(***************************************************************************)
(* How the PaxosControllers find each other (paxos/controller/paxosctrl.py: *)
(* join_network, async_wait_joined, on_join, send_join).  A controller that *)
(* comes up announces itself with a JOIN; whoever did not know it answers   *)
(* with a JOIN; and a controller that still misses some asks all to announce*)
(* themselves again, every three seconds.  After ten seconds it gives up    *)
(* and shuts POX down, and with it all the controllers.                     *)
(*                                                                         *)
(* The switches form a tree; JOINs pass through the learning switches of    *)
(* other nodes, and a switch without a controller drops what reaches it.    *)
(***************************************************************************)
EXTENDS Integers, FiniteSets, Sequences

CONSTANTS
  Node,     \* the switches that run a PaxosController
  Gateway,  \* the one of them that the WAN switch is linked to
  Hop,      \* Hop[a][b]: the neighbour of a on the way to b
  All,      \* ETHER_BROADCAST
  Timeout,  \* of async_wait_joined, in seconds: 10
  Calm,     \* Bound: is every JOIN delivered before another thread acts?
  Losses,   \* Bound: how many JOINs the network loses
  Grace     \* Bound: no timer passes this before the last switch is up and
            \* the last loss has happened

ASSUME NodeAssumption == IsFiniteSet(Node) /\ Gateway \in Node /\ All \notin Node
ASSUME HopAssumption ==
  /\ Hop \in [Node -> [Node -> Node]]
  /\ \A a, b \in Node : a # b => Hop[a][b] # a

\* a and b are neighbours.
Linked(a, b) == a # b /\ Hop[a][b] = b

\* The links make a tree: each of them divides the other switches between its ends, and
\* has both its ends in one direction from each of them.
ASSUME TreeAssumption ==
  /\ \A a, b \in Node : a # b => Linked(a, Hop[a][b])
  /\ \A a, b \in Node : Linked(a, b) =>
       /\ Linked(b, a)
       /\ \A c \in Node \ {a, b} :
            Hop[c][a] = Hop[c][b] /\ (Hop[a][c] = b <=> Hop[b][c] # a)

ASSUME TimeoutAssumption == Timeout \in Nat /\ Timeout > 1 /\ Timeout % 3 = 1
ASSUME BoundsAssumption == Calm \in BOOLEAN /\ Losses \in Nat /\ Grace \in Nat

VARIABLES
  up,      \* the switches that are connected to POX
  known,   \* each controller's state.N, the nodes it knows, itself included
  joined,  \* its joined flag
  timer,   \* the timeout of its wait_join thread, in seconds
  due,     \* the threads that have not had their turn in this second
  asked,   \* has the WAN switch asked for an announcement?
  quit,    \* has core.quit been called?
  lost,    \* how many JOINs were lost
  link     \* the JOINs under way from one switch to a neighbour, in order

vars == <<up, known, joined, timer, due, asked, quit, lost, link>>

-----------------------------------------------------------------------------
(* Sending *)

Link == {e \in Node \X Node : Linked(e[1], e[2])}

\* mac is the embedded address: All asks everybody to announce themselves.
Join == [dst: Node \cup {All}, mac: Node \cup {All}]

Hello(a, dst) == [dst |-> dst, mac |-> a]
Ask == [dst |-> All, mac |-> All]

\* l after switch a has sent f to those of its neighbours that are in S.
Send(l, a, f, S) ==
  [e \in Link |-> IF e[1] = a /\ e[2] \in S THEN Append(l[e], f) ELSE l[e]]

\* The learning switch of x passes on a frame from y: to all when it is for
\* everybody or for x itself, whose address it never learns, and never back.
Forward(l, x, y, f) ==
  Send(l, x, f, (IF f.dst \in {All, x} THEN Node ELSE {Hop[x][f.dst]}) \ {y})

Quiet == \A e \in Link : link[e] = <<>>

-----------------------------------------------------------------------------
(* Actions *)

Needed == Cardinality(Node)  \* the 3 that join_network passes to join_block

\* Links and join_block are much faster than a second.
Settled ==
  Quiet /\ \A a \in up : a \in known[a] /\ (joined[a] \/ known[a] # Node)

Waiting(a) == a \in up /\ ~joined[a]

Init ==
  /\ up = {}
  /\ known = [a \in Node |-> {}]
  /\ joined = [a \in Node |-> FALSE]
  /\ timer = [a \in Node |-> Timeout]
  /\ due = {}
  /\ asked = FALSE
  /\ quit = FALSE
  /\ lost = 0
  /\ link = [e \in Link |-> <<>>]

\* ConnectionUp: the controller is made, and its wait_join thread begins to
\* wait, from a number that is no multiple of three.
Start(a) ==
  /\ ~quit /\ a \notin up
  /\ Calm => Settled
  /\ up' = up \cup {a}
  /\ timer' = [timer EXCEPT ![a] = Timeout - 1]
  /\ UNCHANGED <<known, joined, due, asked, quit, lost, link>>

\* join_block's first round: on_join(event=None) with the node's own address.
Announce(a) ==
  /\ ~quit /\ a \in up /\ a \notin known[a]
  /\ known' = [known EXCEPT ![a] = @ \cup {a}]
  /\ link' = Send(link, a, Hello(a, All), Node)
  /\ UNCHANGED <<up, joined, timer, due, asked, quit, lost>>

\* A later round of join_block, every quarter of a second.
Poll(a) ==
  /\ ~quit /\ Waiting(a) /\ a \in known[a]
  /\ Cardinality(known[a]) = Needed
  /\ joined' = [joined EXCEPT ![a] = TRUE]
  /\ UNCHANGED <<up, known, timer, due, asked, quit, lost, link>>

\* Wrong: a JOIN is not answered.
OnJoinSilent(x, y, f, rest) ==
  /\ known' = IF f.mac = All THEN known ELSE [known EXCEPT ![x] = @ \cup {f.mac}]
  /\ link' = Forward(IF f.mac = All THEN Send(rest, x, Hello(x, All), Node) ELSE rest,
                     x, y, f)

\* Wrong: the address in a request to announce is taken for that of a node.
OnJoinAnyone(x, y, f, rest) ==
  IF f.mac \notin known[x]
  THEN /\ known' = [known EXCEPT ![x] = @ \cup {f.mac}]
       /\ link' = Forward(Send(rest, x, Hello(x, f.mac), {y}), x, y, f)
  ELSE /\ UNCHANGED known
       /\ link' = Forward(rest, x, y, f)

\* on_join at x for a frame f from y, and then the learning switch; rest is
\* under way besides f.  The answer leaves by the port that f came from.
OnJoin(x, y, f, rest) ==
  CASE f.mac = All ->
         /\ link' = Forward(Send(rest, x, Hello(x, All), Node), x, y, f)
         /\ UNCHANGED known
    [] f.mac \notin known[x] \cup {All} ->
         /\ link' = Forward(Send(rest, x, Hello(x, f.mac), {y}), x, y, f)
         /\ known' = [known EXCEPT ![x] = @ \cup {f.mac}]
    [] OTHER ->
         /\ link' = Forward(rest, x, y, f)
         /\ UNCHANGED known

\* Bound: with Calm, the links take turns in a fixed order.
FirstLink == CHOOSE e \in Link : link[e] # <<>>

Deliver(e) ==
  /\ ~quit /\ link[e] # <<>>
  /\ Calm => e = FirstLink
  /\ LET rest == [link EXCEPT ![e] = Tail(@)]
     IN  IF e[2] \in up
         THEN OnJoin(e[2], e[1], Head(link[e]), rest)
         ELSE link' = rest /\ UNCHANGED known
  /\ UNCHANGED <<up, joined, timer, due, asked, quit, lost>>

\* In time to lose something: each that waits has a request left to make.
Early == \A a \in Node : Waiting(a) => timer[a] > Grace

\* A JOIN is lost; nothing acknowledges it.
Lose(e) ==
  /\ ~quit /\ link[e] # <<>> /\ lost < Losses /\ Early
  /\ Calm => e = FirstLink
  /\ lost' = lost + 1
  /\ link' = [link EXCEPT ![e] = Tail(@)]
  /\ UNCHANGED <<up, known, joined, timer, due, asked, quit>>

\* The WAN switch asks for an announcement (ask_for_paxos_announce) when a
\* client sends and no JOIN has reached it.  The answer of the gateway does.
\* Bound: it asks when nothing else is under way.
WanAsks ==
  /\ ~quit /\ ~asked /\ Quiet /\ Gateway \in up
  /\ asked' = TRUE
  /\ OnJoin(Gateway, All, Ask, link)
  /\ UNCHANGED <<up, joined, timer, due, quit, lost>>

\* Wrong: nobody asks again.
AskAgainNever(a) == link

\* Every third second a thread that waits asks again.
AskAgain(a) == IF timer[a] % 3 = 0 THEN Send(link, a, Ask, Node) ELSE link

\* Does a's thread find that its time is up?
GivesUp(a) == timer[a] - 1 <= 0

\* One turn of a's wait_join thread.
Turn(a) ==
  /\ ~quit /\ a \in due
  /\ Calm => Settled
  /\ due' = due \ {a}
  /\ IF joined[a]
     THEN UNCHANGED <<timer, quit, link>>
     ELSE /\ timer' = [timer EXCEPT ![a] = @ - 1]
          /\ quit' = GivesUp(a)
          /\ link' = AskAgain(a)
  /\ UNCHANGED <<up, known, joined, asked, lost>>

\* The next second: all threads that wait are due.
Second ==
  /\ ~quit /\ due = {} /\ Settled
  /\ \E a \in Node : Waiting(a)
  /\ up # Node => Early
  /\ due' = {a \in Node : Waiting(a)}
  /\ UNCHANGED <<up, known, joined, timer, asked, quit, lost, link>>

Next ==
  \/ \E a \in Node : Start(a) \/ Announce(a) \/ Poll(a) \/ Turn(a)
  \/ \E e \in Link : Deliver(e) \/ Lose(e)
  \/ WanAsks
  \/ Second

Spec == Init /\ [][Next]_vars

\* Frames arrive, the threads run and time passes.  The WAN need not ask.
Fairness ==
  /\ \A a \in Node : WF_vars(Announce(a)) /\ WF_vars(Poll(a)) /\ WF_vars(Turn(a))
  /\ WF_vars(\E e \in Link : Deliver(e))
  /\ SF_vars(Second)

FairSpec == Spec /\ Fairness

-----------------------------------------------------------------------------
(* Properties *)

\* Every variable holds a value of the kind the code gives it.
TypeOK ==
  /\ up \subseteq Node
  /\ known \in [Node -> SUBSET Node]
  /\ joined \in [Node -> BOOLEAN]
  /\ timer \in [Node -> 0..Timeout]
  /\ due \subseteq up
  /\ asked \in BOOLEAN
  /\ quit \in BOOLEAN
  /\ lost \in 0..Losses
  /\ link \in [Link -> Seq(Join)]

\* When no JOIN is under way or was lost, a node knows those who know it (on_join): the
\* leader never sends ACCEPTs to a node that cannot send LEARNs back.
MutualKnowledge ==
  (Quiet /\ lost = 0) => \A a, b \in up : b \in known[a] => a \in known[b]

\* "This will continue until a node knows about at least two other nodes": if all
\* switches come up while each that waits has a request left to make, they all
\* join, and none runs into the time-out that shuts POX down (async_wait_joined).
AllJoin == up = Node ~> \A a \in Node : joined[a]
=============================================================================
