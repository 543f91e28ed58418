---------------------------- MODULE LearningSwitch ----------------------------
(***************************************************************************)
(* The learning switch of paxos/controller/baseline.py, which is also the   *)
(* layer below the Paxos controllers: switches that ask their controller    *)
(* what to do with a frame (an upcall), and a controller that learns where  *)
(* the hosts are and moves known conversations into the flow tables.        *)
(*                                                                         *)
(* A switch and its controller talk over one ordered connection in either   *)
(* direction, but a frame that a flow matches never sees the controller.    *)
(***************************************************************************)
EXTENDS Integers, FiniteSets, Sequences

CONSTANTS
  Switch,     \* the switches; they form a tree
  Host,       \* the hosts, by MAC address
  Seat,       \* the access ports
  Home,       \* Home[p]: the switch that access port p belongs to
  Trunk,      \* the pairs of switches that are linked, in both directions
  FirstSeat,  \* where each host is plugged in at first
  AddFlows,   \* the add_flows argument: are flows installed?
  All,        \* the broadcast address, and OFPP_ALL
  None,       \* no port
  MaxFrames,  \* Bound: frames the hosts send
  MaxChanges  \* Bound: changes of the surroundings

ASSUME TopologyAssumption ==
  /\ Home \in [Seat -> Switch]
  /\ Trunk \subseteq Switch \X Switch
  /\ \A e \in Trunk : <<e[2], e[1]>> \in Trunk /\ e[1] # e[2]
  /\ FirstSeat \in [Host -> Seat]
  /\ Switch \cap Seat = {} /\ None \notin Switch \cup Seat
  /\ All \notin Switch \cup Seat \cup Host

ASSUME BoundsAssumption ==
  AddFlows \in BOOLEAN /\ MaxFrames \in Nat /\ MaxChanges \in Nat

\* The switches that are to be reached from s by way of its neighbour t.
Behind(s, t) ==
  {x \in Switch : \A U \in SUBSET (Switch \ {s}) :
     t \in U /\ (\A e \in Trunk : e[1] \in U /\ e[2] # s => e[2] \in U) => x \in U}

ASSUME TreeAssumption ==
  \A e, g \in Trunk :
    e[1] = g[1] /\ e[2] # g[2] => Behind(e[1], e[2]) \cap Behind(g[1], g[2]) = {}

\* A port is named for what is at its other end.
Port == Switch \cup Seat
Ports(s) == {p \in Seat : Home[p] = s} \cup {t \in Switch : <<s, t>> \in Trunk}
Pair == Host \X Host
Frame == [src: Host, dst: Host \cup {All}, id: 1..MaxFrames]

VARIABLES
  seat,      \* where each host is plugged in
  macports,  \* each controller's map from addresses to ports
  flows,     \* each switch's flow table: the output port of a pair of addresses
  casts,     \* the switches that have the flow for broadcasts
  upcalls,   \* frames on their way to the controller, with their port
  commands,  \* flow_mods and packet_outs on their way to the switch
  wire,      \* frames on their way to a port of a switch
  inbox,     \* the frames each host has taken
  sent,      \* the frames the hosts sent
  changes    \* what has changed in the surroundings

vars == <<seat, macports, flows, casts, upcalls, commands, wire, inbox, sent, changes>>

-----------------------------------------------------------------------------
(* Switches *)

\* Wrong: a flood includes the input port.
OutPortsAll(s, in, out) == IF out = All THEN Ports(s) ELSE {out}

\* The ports a frame leaves by: never the one it came in by.
OutPorts(s, in, out) == (IF out = All THEN Ports(s) ELSE {out}) \ {in}

\* w after switch s, which got f by port in, has put it out by port out.
Wires(w, s, in, out, f) ==
  [e \in DOMAIN w |->
     IF e[2] = s /\ e[1] \in OutPorts(s, in, out) THEN Append(w[e], f) ELSE w[e]]

\* The inboxes then; a host drops what is not addressed to it.
Inboxes(s, in, out, f) ==
  [h \in Host |->
     IF seat[h] \in OutPorts(s, in, out) /\ f.dst \in {h, All}
     THEN Append(inbox[h], f) ELSE inbox[h]]

Unknown == [h \in Host |-> None]

\* The constructor adds a flow for broadcasts.
AtStart == IF AddFlows THEN Switch ELSE {}

Init ==
  /\ seat = FirstSeat
  /\ macports = [s \in Switch |-> Unknown]
  /\ flows = [s \in Switch |-> [e \in Pair |-> None]]
  /\ casts = AtStart
  /\ upcalls = [s \in Switch |-> <<>>]
  /\ commands = [s \in Switch |-> <<>>]
  /\ wire = [e \in {w \in Switch \X Port : w[2] \in Ports(w[1])} |-> <<>>]
  /\ inbox = [h \in Host |-> <<>>]
  /\ sent = <<>> /\ changes = <<>>

\* A host sends a frame to another, or to all.
Send(h, d) ==
  /\ Len(sent) < MaxFrames /\ d # h
  /\ sent' = Append(sent, [src |-> h, dst |-> d, id |-> Len(sent) + 1])
  /\ wire' = [wire EXCEPT ![<<Home[seat[h]], seat[h]>>] =
                Append(@, [src |-> h, dst |-> d, id |-> Len(sent) + 1])]
  /\ UNCHANGED <<seat, macports, flows, casts, upcalls, commands, inbox, changes>>

\* Where the flow table sends f.
Match(s, f) ==
  CASE f.dst = All -> IF s \in casts THEN All ELSE None
    [] OTHER -> flows[s][<<f.src, f.dst>>]

\* A frame comes in at port p of s: a flow matches, or the controller is asked.
Arrive(s, p) ==
  /\ <<s, p>> \in DOMAIN wire /\ wire[<<s, p>>] # <<>>
  /\ LET f == Head(wire[<<s, p>>])
         rest == [wire EXCEPT ![<<s, p>>] = Tail(@)]
     IN  IF Match(s, f) = None
         THEN /\ wire' = rest
              /\ upcalls' = [upcalls EXCEPT ![s] = Append(@, [frame |-> f, in |-> p])]
              /\ UNCHANGED inbox
         ELSE /\ wire' = Wires(rest, s, p, Match(s, f), f)
              /\ inbox' = Inboxes(s, p, Match(s, f), f)
              /\ UNCHANGED upcalls
  /\ UNCHANGED <<seat, macports, flows, casts, commands, sent, changes>>

-----------------------------------------------------------------------------
(* The controller *)

FlowMod(a, b, out) == [flow |-> <<a, b>>, out |-> out]
PacketOut(u, out) == [frame |-> u.frame, in |-> u.in, out |-> out]

\* learn_port: the first port an address is seen on stays its port.
LearnPort(m, a, p) == IF m[a] = None THEN [m EXCEPT ![a] = p] ELSE m

\* Both flows, and the frame itself this one time.
BothFlows(m, u) ==
  <<FlowMod(u.frame.src, u.frame.dst, m[u.frame.dst]),
    FlowMod(u.frame.dst, u.frame.src, m[u.frame.src]),
    PacketOut(u, m[u.frame.dst])>>

Knows(m, a) == a # All /\ m[a] # None

\* Wrong: the frame that made the flows is not forwarded.
AnswerFlowsOnly(m, u) ==
  IF Knows(m, u.frame.dst) THEN SubSeq(BothFlows(m, u), 1, 2) ELSE <<PacketOut(u, All)>>

\* Wrong: a flow back to the sender, as soon as its port is known.
AnswerTooEarly(m, u) ==
  CASE Knows(m, u.frame.dst) -> BothFlows(m, u)
    [] u.frame.dst = All -> <<PacketOut(u, All)>>
    [] OTHER -> <<FlowMod(u.frame.dst, u.frame.src, m[u.frame.src]), PacketOut(u, All)>>

\* What the controller that knows m tells its switch about upcall u.
Answer(m, u) ==
  CASE ~Knows(m, u.frame.dst) -> <<PacketOut(u, All)>>
    [] Knows(m, u.frame.dst) /\ ~AddFlows -> <<PacketOut(u, m[u.frame.dst])>>
    [] OTHER -> BothFlows(m, u)

\* _handle_PacketIn.
PacketIn(s) ==
  /\ upcalls[s] # <<>>
  /\ LET u == Head(upcalls[s])
     IN  /\ macports' = [macports EXCEPT ![s] = LearnPort(@, u.frame.src, u.in)]
         /\ commands' = [commands EXCEPT ![s] = @ \o Answer(macports'[s], u)]
  /\ upcalls' = [upcalls EXCEPT ![s] = Tail(@)]
  /\ UNCHANGED <<seat, flows, casts, wire, inbox, sent, changes>>

\* The switch obeys; a flow_mod replaces the flow of the same pair.
Execute(s) ==
  /\ commands[s] # <<>>
  /\ LET c == Head(commands[s])
     IN  IF "flow" \in DOMAIN c
         THEN /\ flows' = [flows EXCEPT ![s][c.flow] = c.out]
              /\ UNCHANGED <<wire, inbox>>
         ELSE /\ wire' = Wires(wire, s, c.in, c.out, c.frame)
              /\ inbox' = Inboxes(s, c.in, c.out, c.frame)
              /\ UNCHANGED flows
  /\ commands' = [commands EXCEPT ![s] = Tail(@)]
  /\ UNCHANGED <<seat, macports, casts, upcalls, sent, changes>>

-----------------------------------------------------------------------------
(* The surroundings *)

\* A change of the given kind.
Happens(kind) == Len(changes) < MaxChanges /\ changes' = Append(changes, kind)

Changed(kind) == \E i \in DOMAIN changes : changes[i] = kind

\* A flow has been idle, or in the table, for an hour.
Expire(s, e) ==
  /\ flows[s][e] # None
  /\ Happens("expire")
  /\ flows' = [flows EXCEPT ![s][e] = None]
  /\ UNCHANGED <<seat, macports, casts, upcalls, commands, wire, inbox, sent>>

\* The same for the flow for broadcasts, which the controller does not add again.
ExpireBroadcast(s) ==
  /\ s \in casts
  /\ Happens("expire")
  /\ casts' = casts \ {s}
  /\ UNCHANGED <<seat, macports, flows, upcalls, commands, wire, inbox, sent>>

\* A connection goes down, POX with it (connectionDown), and POX is started
\* again.  The order to clear the flow table may not reach the switches.
Restart ==
  /\ Happens("restart")
  /\ \E S \in SUBSET Switch :
       flows' = [s \in Switch |-> IF s \in S THEN [e \in Pair |-> None] ELSE flows[s]]
  /\ casts' = AtStart
  /\ macports' = [s \in Switch |-> Unknown]
  /\ upcalls' = [s \in Switch |-> <<>>]
  /\ commands' = [s \in Switch |-> <<>>]
  /\ UNCHANGED <<seat, wire, inbox, sent>>

Quiet == /\ \A e \in DOMAIN wire : wire[e] = <<>>
         /\ \A s \in Switch : upcalls[s] = <<>> /\ commands[s] = <<>>

\* A host is plugged in elsewhere.  Bound: when nothing is under way.
Move(h, p) ==
  /\ Quiet /\ Happens("move")
  /\ \A g \in Host : seat[g] # p
  /\ seat' = [seat EXCEPT ![h] = p]
  /\ UNCHANGED <<macports, flows, casts, upcalls, commands, wire, inbox, sent>>

\* Links deliver, controllers serve their upcalls, switches obey.
Forwarding ==
  \/ \E s \in Switch, p \in Port : Arrive(s, p)
  \/ \E s \in Switch : PacketIn(s) \/ Execute(s)

Next ==
  \/ \E h \in Host, d \in Host \cup {All} : Send(h, d)
  \/ Forwarding
  \/ \E s \in Switch, e \in Pair : Expire(s, e)
  \/ \E s \in Switch : ExpireBroadcast(s)
  \/ Restart
  \/ \E h \in Host, p \in Seat : Move(h, p)

Spec == Init /\ [][Next]_vars

\* Forwarding goes on while there is anything to forward, in whatever order.
FairSpec == Spec /\ WF_vars(Forwarding)

-----------------------------------------------------------------------------
(* Properties *)

\* Floods at one switch and flows at another never duplicate a frame, whatever
\* the timing of upcalls, time-outs, restarts and moves (OFPP_ALL, add_forward_flow).
AtMostOnce ==
  \A h \in Host : \A i, j \in DOMAIN inbox[h] :
    i # j => inbox[h][i].id # inbox[h][j].id

\* "Only add flows when we know BOTH ports": no flow lets the frames of a host
\* bypass a controller that does not know that host's port (_handle_PacketIn).
\* A controller that has been started again knows nothing of the old flows.
NobodyHides ==
  ~Changed("restart") =>
    \A s \in Switch, a, b \in Host :
      flows[s][<<a, b>>] # None => macports[s][a] # None /\ macports[s][b] # None

\* Every frame gets to all the hosts it is for, first floods, races of flow_mods
\* with later frames and expired flows notwithstanding.
AllDelivered ==
  \A i \in DOMAIN sent : \A h \in Host :
    sent[i].dst = h \/ (sent[i].dst = All /\ sent[i].src # h)
      => \E k \in DOMAIN inbox[h] : inbox[h][k] = sent[i]

Delivered == <>[](Changed("move") \/ Changed("restart") \/ (Quiet /\ AllDelivered))
=============================================================================
