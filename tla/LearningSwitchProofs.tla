------------------------- MODULE LearningSwitchProofs -------------------------
(* Proofs about LearningSwitch, for any switches, links, hosts and number of  *)
(* frames.                                                                   *)
EXTENDS LearningSwitch, SequenceTheorems, TLAPS

-----------------------------------------------------------------------------
(* The inductive invariant *)

Upcall == [frame: Frame, in: Port]
Command == [flow: Pair, out: Port] \cup [frame: Frame, in: Port, out: Port \cup {All}]
Ends == {w \in Switch \X Port : w[2] \in Ports(w[1])}

Types ==
  /\ seat \in [Host -> Seat]
  /\ macports \in [Switch -> [Host -> Port \cup {None}]]
  /\ flows \in [Switch -> [Pair -> Port \cup {None}]]
  /\ upcalls \in [Switch -> Seq(Upcall)]
  /\ commands \in [Switch -> Seq(Command)]
  /\ wire \in [Ends -> Seq(Frame)]
  /\ sent \in Seq(Frame)
  /\ changes \in Seq({"expire", "restart", "move"})

\* The controller that knows m knows both ends of the flow that c installs, if any.
KnowsBoth(m, c) ==
  "flow" \in DOMAIN c => m[c.flow[1]] # None /\ m[c.flow[2]] # None

\* Flows are installed only when the ports of both hosts are known.
CommandsKnown ==
  ~Changed("restart") =>
    \A s \in Switch : \A i \in 1..Len(commands[s]) : KnowsBoth(macports[s], commands[s][i])

IInv == Types /\ CommandsKnown /\ NobodyHides

-----------------------------------------------------------------------------
(* Frames and commands *)

\* The ends of the wires.
LEMMA EndsFacts ==
  /\ \A s \in Switch, p \in Port : p \in Ports(s) => <<s, p>> \in Ends
  /\ \A w \in Ends : w[1] \in Switch /\ w[2] \in Port
BY DEF Ends

\* None is no port.
LEMMA NoneIsNoPort == None \notin Port
BY TopologyAssumption DEF Port

\* The oldest entry of a queue, and those behind it.
LEMMA First ==
  ASSUME NEW S, NEW q \in Seq(S), q # <<>>
  PROVE  /\ Head(q) \in S /\ Head(q) = q[1] /\ Tail(q) \in Seq(S)
         /\ Len(q) \in Nat /\ Len(q) > 0 /\ Len(Tail(q)) = Len(q) - 1
         /\ \A i \in 1..Len(Tail(q)) : i + 1 \in 1..Len(q) /\ Tail(q)[i] = q[i + 1]
<1>1. Len(q) \in Nat /\ Len(q) > 0
  BY EmptySeq
<1>2. /\ Tail(q) \in Seq(S) /\ Len(Tail(q)) = Len(q) - 1
      /\ \A i \in 1..Len(Tail(q)) : Tail(q)[i] = q[i + 1]
  BY HeadTailProperties
<1>3. Head(q) = q[1] /\ Head(q) \in S
  BY HeadTailProperties
<1> QED BY <1>1, <1>2, <1>3

\* A switch puts out frames only.
LEMMA WiresType ==
  ASSUME NEW w \in [Ends -> Seq(Frame)], NEW s, NEW in, NEW out, NEW f \in Frame
  PROVE  Wires(w, s, in, out, f) \in [Ends -> Seq(Frame)]
<1>1. \A e \in Ends : w[e] \in Seq(Frame) /\ Append(w[e], f) \in Seq(Frame)
  BY AppendProperties
<1> QED BY <1>1 DEF Wires

\* What is learned stays, and the sender is known then.
LEMMA LearnFacts ==
  ASSUME NEW m \in [Host -> Port \cup {None}], NEW a \in Host, NEW p \in Port
  PROVE  /\ LearnPort(m, a, p) \in [Host -> Port \cup {None}]
         /\ LearnPort(m, a, p)[a] # None
         /\ \A b \in Host : m[b] # None => LearnPort(m, a, p)[b] = m[b]
BY NoneIsNoPort DEF LearnPort

\* What the controller answers are commands, and the flows among them are between hosts
\* that it knows.
LEMMA AnswerFacts ==
  ASSUME NEW m \in [Host -> Port \cup {None}], NEW u \in Upcall, m[u.frame.src] # None
  PROVE  /\ Answer(m, u) \in Seq(Command)
         /\ \A i \in 1..Len(Answer(m, u)) : KnowsBoth(m, Answer(m, u)[i])
<1>1. /\ u.frame \in Frame /\ u.in \in Port
      /\ u.frame.src \in Host /\ u.frame.dst \in Host \cup {All}
  BY DEF Upcall, Frame
<1>2. ASSUME NEW out \in Port \cup {All}
      PROVE  /\ PacketOut(u, out) \in Command
             /\ KnowsBoth(m, PacketOut(u, out))
  BY <1>1 DEF PacketOut, Command, KnowsBoth
<1>3. CASE ~Knows(m, u.frame.dst) \/ ~AddFlows
  <2>1. PICK out \in Port \cup {All} : Answer(m, u) = <<PacketOut(u, out)>>
    BY <1>1, <1>3 DEF Answer, Knows
  <2> QED BY <1>2, <2>1
<1>4. CASE Knows(m, u.frame.dst) /\ AddFlows
  <2>1. /\ u.frame.dst \in Host /\ m[u.frame.dst] # None
        /\ m[u.frame.dst] \in Port /\ m[u.frame.src] \in Port
    BY <1>1, <1>4 DEF Knows
  <2>2. ASSUME NEW a \in Host, NEW b \in Host, NEW out \in Port, m[a] # None, m[b] # None
        PROVE  FlowMod(a, b, out) \in Command /\ KnowsBoth(m, FlowMod(a, b, out))
    BY <2>2 DEF FlowMod, Command, Pair, KnowsBoth
  <2>3. /\ Answer(m, u) = <<FlowMod(u.frame.src, u.frame.dst, m[u.frame.dst]),
                            FlowMod(u.frame.dst, u.frame.src, m[u.frame.src]),
                            PacketOut(u, m[u.frame.dst])>>
    BY <1>4, <2>1 DEF Answer, BothFlows, Knows
  <2> QED BY <1>1, <1>2, <2>1, <2>2, <2>3
<1> QED BY <1>3, <1>4

\* Known flows added to known flows.
LEMMA ConcatKnown ==
  ASSUME NEW m, NEW p \in Seq(Command), NEW q \in Seq(Command),
         \A i \in 1..Len(p) : KnowsBoth(m, p[i]), \A i \in 1..Len(q) : KnowsBoth(m, q[i]),
         NEW k \in 1..Len(p \o q)
  PROVE  KnowsBoth(m, (p \o q)[k])
<1>1. /\ Len(p \o q) = Len(p) + Len(q) /\ Len(p) \in Nat /\ Len(q) \in Nat
      /\ \A i \in 1..(Len(p) + Len(q)) :
           (p \o q)[i] = IF i <= Len(p) THEN p[i] ELSE q[i - Len(p)]
  BY ConcatProperties, LenProperties
<1>2. CASE k <= Len(p)
  BY <1>1, <1>2
<1>3. CASE ~(k <= Len(p))
  <2>1. k - Len(p) \in 1..Len(q)
    BY <1>1, <1>3
  <2> QED BY <1>1, <1>3, <2>1
<1> QED BY <1>2, <1>3

\* Changes are never forgotten.
LEMMA ChangedStays ==
  ASSUME Types, NEW kind \in {"expire", "restart", "move"}, Happens(kind)
  PROVE  /\ changes' \in Seq({"expire", "restart", "move"})
         /\ Changed(kind)'
         /\ \A k : Changed(k) => Changed(k)'
<1>1. /\ changes' \in Seq({"expire", "restart", "move"})
      /\ Len(changes') = Len(changes) + 1 /\ Len(changes) \in Nat
      /\ changes'[Len(changes) + 1] = kind
      /\ \A i \in 1..Len(changes) : changes'[i] = changes[i]
  BY AppendProperties DEF Types, Happens
<1>2. DOMAIN changes = 1..Len(changes) /\ DOMAIN changes' = 1..Len(changes')
  BY <1>1, LenProperties DEF Types
<1>3. Len(changes) + 1 \in DOMAIN changes'
  BY <1>1, <1>2
<1>4. \A i \in DOMAIN changes : i \in DOMAIN changes' /\ changes'[i] = changes[i]
  BY <1>1, <1>2
<1> QED BY <1>1, <1>3, <1>4 DEF Changed

-----------------------------------------------------------------------------
(* Each step keeps the types *)

\* A host's frame.
LEMMA SendType ==
  ASSUME Types, NEW h \in Host, NEW d \in Host \cup {All}, Send(h, d)
  PROVE  Types'
<1> DEFINE f == [src |-> h, dst |-> d, id |-> Len(sent) + 1]
<1>1. Len(sent) \in Nat /\ Len(sent) < MaxFrames /\ MaxFrames \in Nat
  BY BoundsAssumption DEF Types, Send
<1>2. f \in Frame
  BY <1>1 DEF Frame
<1>3. seat[h] \in Seat /\ seat[h] \in Port /\ Home[seat[h]] \in Switch
  BY TopologyAssumption DEF Types, Port
<1>4. <<Home[seat[h]], seat[h]>> \in Ends
  BY <1>3 DEF Ends, Ports
<1> HIDE DEF f
<1>5. sent' = Append(sent, f)
  BY DEF Send, f
<1>6. wire' = [wire EXCEPT ![<<Home[seat[h]], seat[h]>>] = Append(@, f)]
  BY DEF Send, f
<1>7. sent' \in Seq(Frame)
  BY <1>2, <1>5, AppendProperties DEF Types
<1>8. wire[<<Home[seat[h]], seat[h]>>] \in Seq(Frame)
  BY <1>4 DEF Types
<1>9. Append(wire[<<Home[seat[h]], seat[h]>>], f) \in Seq(Frame)
  BY <1>2, <1>8, AppendProperties
<1>10. wire' \in [Ends -> Seq(Frame)]
  BY <1>6, <1>9 DEF Types
<1>11. UNCHANGED <<seat, macports, flows, upcalls, commands, changes>>
  BY DEF Send
<1> QED BY <1>7, <1>10, <1>11 DEF Types

\* A frame that comes in.
LEMMA ArriveType ==
  ASSUME Types, NEW s \in Switch, NEW p \in Port, Arrive(s, p)
  PROVE  Types'
<1> DEFINE f == Head(wire[<<s, p>>])
           rest == [wire EXCEPT ![<<s, p>>] = Tail(@)]
<1>1. <<s, p>> \in Ends /\ wire[<<s, p>>] # <<>> /\ wire[<<s, p>>] \in Seq(Frame)
  BY DEF Arrive, Types
<1>2. f \in Frame /\ Tail(wire[<<s, p>>]) \in Seq(Frame)
  BY <1>1, First
<1>3. rest \in [Ends -> Seq(Frame)]
  BY <1>2 DEF Types
<1> HIDE DEF f, rest
<1>4. UNCHANGED <<seat, macports, flows, commands, sent, changes>>
  BY DEF Arrive
<1>5. CASE Match(s, f) = None
  <2>1. /\ wire' = rest
        /\ upcalls' = [upcalls EXCEPT ![s] = Append(@, [frame |-> f, in |-> p])]
    BY <1>5 DEF Arrive, f, rest
  <2>2. [frame |-> f, in |-> p] \in Upcall /\ upcalls[s] \in Seq(Upcall)
    BY <1>2 DEF Upcall, Types
  <2>3. Append(upcalls[s], [frame |-> f, in |-> p]) \in Seq(Upcall)
    BY <2>2, AppendProperties
  <2>4. upcalls' \in [Switch -> Seq(Upcall)]
    BY <2>1, <2>3 DEF Types
  <2> QED BY <1>3, <1>4, <2>1, <2>4 DEF Types
<1>6. CASE Match(s, f) # None
  <2>1. wire' = Wires(rest, s, p, Match(s, f), f) /\ upcalls' = upcalls
    BY <1>6 DEF Arrive, f, rest
  <2>2. wire' \in [Ends -> Seq(Frame)]
    BY <1>2, <1>3, <2>1, WiresType
  <2> QED BY <1>4, <2>1, <2>2 DEF Types
<1> QED BY <1>5, <1>6

\* What PacketIn makes of the state: the controller learns, then answers.
LEMMA PacketInFacts ==
  ASSUME Types, NEW s \in Switch, PacketIn(s)
  PROVE  \E u \in Upcall, m \in [Host -> Port \cup {None}] :
           /\ \A a \in Host : macports[s][a] # None => m[a] = macports[s][a]
           /\ macports' = [macports EXCEPT ![s] = m]
           /\ commands' = [commands EXCEPT ![s] = @ \o Answer(m, u)]
           /\ Answer(m, u) \in Seq(Command)
           /\ \A i \in 1..Len(Answer(m, u)) : KnowsBoth(m, Answer(m, u)[i])
           /\ upcalls' = [upcalls EXCEPT ![s] = Tail(@)]
           /\ Tail(upcalls[s]) \in Seq(Upcall)
<1> DEFINE u == Head(upcalls[s])
           m == LearnPort(macports[s], u.frame.src, u.in)
<1>1. upcalls[s] # <<>> /\ upcalls[s] \in Seq(Upcall)
  BY DEF PacketIn, Types
<1>2. u \in Upcall /\ Tail(upcalls[s]) \in Seq(Upcall)
  BY <1>1, First
<1>3. u.frame.src \in Host /\ u.in \in Port
  BY <1>2 DEF Upcall, Frame
<1>4. macports[s] \in [Host -> Port \cup {None}]
  BY DEF Types
<1>5. /\ m \in [Host -> Port \cup {None}] /\ m[u.frame.src] # None
      /\ \A a \in Host : macports[s][a] # None => m[a] = macports[s][a]
  BY <1>3, <1>4, LearnFacts
<1>6. /\ macports' = [macports EXCEPT ![s] = m]
      /\ commands' = [commands EXCEPT ![s] = @ \o Answer(macports'[s], u)]
      /\ upcalls' = [upcalls EXCEPT ![s] = Tail(@)]
  BY DEF PacketIn
<1>7. macports'[s] = m
  BY <1>6 DEF Types
<1>8. /\ Answer(m, u) \in Seq(Command)
      /\ \A i \in 1..Len(Answer(m, u)) : KnowsBoth(m, Answer(m, u)[i])
  BY <1>2, <1>5, AnswerFacts
<1> HIDE DEF u, m
<1> QED BY <1>2, <1>5, <1>6, <1>7, <1>8

\* An upcall that is answered.
LEMMA PacketInType ==
  ASSUME Types, NEW s \in Switch, PacketIn(s)
  PROVE  Types'
<1>1. PICK u \in Upcall, m \in [Host -> Port \cup {None}] :
        /\ macports' = [macports EXCEPT ![s] = m]
        /\ commands' = [commands EXCEPT ![s] = @ \o Answer(m, u)]
        /\ Answer(m, u) \in Seq(Command)
        /\ upcalls' = [upcalls EXCEPT ![s] = Tail(@)]
        /\ Tail(upcalls[s]) \in Seq(Upcall)
  BY PacketInFacts
<1>2. commands[s] \o Answer(m, u) \in Seq(Command)
  BY <1>1, ConcatProperties DEF Types
<1>3. /\ macports' \in [Switch -> [Host -> Port \cup {None}]]
      /\ commands' \in [Switch -> Seq(Command)]
      /\ upcalls' \in [Switch -> Seq(Upcall)]
  BY <1>1, <1>2 DEF Types
<1>4. UNCHANGED <<seat, flows, wire, sent, changes>>
  BY DEF PacketIn
<1> QED BY <1>3, <1>4 DEF Types

\* A command that is obeyed.
LEMMA ExecuteType ==
  ASSUME Types, NEW s \in Switch, Execute(s)
  PROVE  Types'
<1> DEFINE c == Head(commands[s])
<1>1. c \in Command /\ Tail(commands[s]) \in Seq(Command)
  BY First DEF Execute, Types
<1> HIDE DEF c
<1>2. commands' = [commands EXCEPT ![s] = Tail(@)]
  BY DEF Execute
<1>3. commands' \in [Switch -> Seq(Command)]
  BY <1>1, <1>2 DEF Types
<1>4. UNCHANGED <<seat, macports, upcalls, sent, changes>>
  BY DEF Execute
<1>5. CASE "flow" \in DOMAIN c
  <2>1. flows' = [flows EXCEPT ![s][c.flow] = c.out] /\ wire' = wire
    BY <1>5 DEF Execute, c
  <2>2. c.flow \in Pair /\ c.out \in Port
    BY <1>1, <1>5 DEF Command
  <2>3. flows' \in [Switch -> [Pair -> Port \cup {None}]]
    BY <2>1, <2>2 DEF Types
  <2> QED BY <1>3, <1>4, <2>1, <2>3 DEF Types
<1>6. CASE "flow" \notin DOMAIN c
  <2>1. wire' = Wires(wire, s, c.in, c.out, c.frame) /\ flows' = flows
    BY <1>6 DEF Execute, c
  <2>2. c.frame \in Frame
    BY <1>1, <1>6 DEF Command
  <2>3. wire' \in [Ends -> Seq(Frame)]
    BY <2>1, <2>2, WiresType DEF Types
  <2> QED BY <1>3, <1>4, <2>1, <2>3 DEF Types
<1> QED BY <1>5, <1>6

\* A flow that is gone, a controller that is started again, a host that moves.
LEMMA SurroundingsType ==
  ASSUME Types
  PROVE  /\ \A s \in Switch, e \in Pair : Expire(s, e) => Types'
         /\ \A s \in Switch : ExpireBroadcast(s) => Types'
         /\ Restart => Types'
         /\ \A h \in Host, p \in Seat : Move(h, p) => Types'
<1>1. ASSUME NEW s \in Switch, NEW e \in Pair, Expire(s, e)
      PROVE  Types'
  <2>1. changes' \in Seq({"expire", "restart", "move"})
    BY <1>1, ChangedStays DEF Expire
  <2>2. flows' \in [Switch -> [Pair -> Port \cup {None}]]
    BY <1>1 DEF Expire, Types
  <2> QED BY <1>1, <2>1, <2>2 DEF Expire, Types
<1>2. ASSUME Restart
      PROVE  Types'
  <2>1. changes' \in Seq({"expire", "restart", "move"})
    BY <1>2, ChangedStays DEF Restart
  <2>2. PICK S \in SUBSET Switch :
          flows' = [s \in Switch |-> IF s \in S THEN [e \in Pair |-> None] ELSE flows[s]]
    BY <1>2 DEF Restart
  <2>3. flows' \in [Switch -> [Pair -> Port \cup {None}]]
    BY <2>2 DEF Types
  <2>4. macports' \in [Switch -> [Host -> Port \cup {None}]]
    BY <1>2 DEF Restart, Unknown
  <2>5. <<>> \in Seq(Upcall) /\ <<>> \in Seq(Command)
    BY EmptySeq
  <2>6. upcalls' \in [Switch -> Seq(Upcall)] /\ commands' \in [Switch -> Seq(Command)]
    BY <1>2, <2>5 DEF Restart
  <2> QED BY <1>2, <2>1, <2>3, <2>4, <2>6 DEF Restart, Types
<1>3. ASSUME NEW h \in Host, NEW p \in Seat, Move(h, p)
      PROVE  Types'
  <2>1. changes' \in Seq({"expire", "restart", "move"})
    BY <1>3, ChangedStays DEF Move
  <2>2. seat' \in [Host -> Seat]
    BY <1>3 DEF Move, Types
  <2> QED BY <1>3, <2>1, <2>2 DEF Move, Types
<1>4. ASSUME NEW s \in Switch, ExpireBroadcast(s)
      PROVE  Types'
  <2>1. changes' \in Seq({"expire", "restart", "move"})
    BY <1>4, ChangedStays DEF ExpireBroadcast
  <2> QED BY <1>4, <2>1 DEF ExpireBroadcast, Types
<1> QED BY <1>1, <1>2, <1>3, <1>4

-----------------------------------------------------------------------------
(* Each step keeps the invariant *)

\* The invariant holds before anybody has sent anything.
LEMMA InitIInv == Init => IInv
<1> SUFFICES ASSUME Init PROVE IInv
  OBVIOUS
<1>1. \A S : <<>> \in Seq(S) /\ Len(<<>>) = 0
  BY EmptySeq
<1>2. seat \in [Host -> Seat] /\ macports \in [Switch -> [Host -> Port \cup {None}]]
  BY TopologyAssumption DEF Init, Unknown
<1>3. flows \in [Switch -> [Pair -> Port \cup {None}]]
  BY DEF Init
<1>4. /\ upcalls \in [Switch -> Seq(Upcall)] /\ commands \in [Switch -> Seq(Command)]
      /\ wire \in [Ends -> Seq(Frame)]
  BY <1>1 DEF Init, Ends
<1>5. sent \in Seq(Frame) /\ changes \in Seq({"expire", "restart", "move"})
  BY <1>1 DEF Init
<1>6. CommandsKnown
  BY <1>1 DEF Init, CommandsKnown
<1>7. NobodyHides
  BY DEF Init, NobodyHides, Pair
<1> QED BY <1>2, <1>3, <1>4, <1>5, <1>6, <1>7 DEF IInv, Types

\* Nothing is learned, answered, installed or restarted by most steps.
LEMMA KnownStays ==
  ASSUME IInv, Types', UNCHANGED <<macports, flows, commands, changes>>
  PROVE  IInv'
<1>1. Changed("restart")' <=> Changed("restart")
  BY DEF Changed
<1>2. CommandsKnown' /\ NobodyHides'
  BY <1>1 DEF IInv, CommandsKnown, NobodyHides
<1> QED BY <1>2 DEF IInv

\* The controller learns the port of the sender first; then it knows both.
LEMMA PacketInIInv ==
  ASSUME IInv, NEW s \in Switch, PacketIn(s)
  PROVE  IInv'
<1>1. Types /\ Types' /\ UNCHANGED <<flows, changes>>
  BY PacketInType DEF IInv, PacketIn
<1>2. PICK u \in Upcall, m \in [Host -> Port \cup {None}] :
        /\ \A a \in Host : macports[s][a] # None => m[a] = macports[s][a]
        /\ macports' = [macports EXCEPT ![s] = m]
        /\ commands' = [commands EXCEPT ![s] = @ \o Answer(m, u)]
        /\ Answer(m, u) \in Seq(Command)
        /\ \A i \in 1..Len(Answer(m, u)) : KnowsBoth(m, Answer(m, u)[i])
  BY <1>1, PacketInFacts
<1>3. Changed("restart")' <=> Changed("restart")
  BY <1>1 DEF Changed
<1>4. /\ macports'[s] = m /\ commands'[s] = commands[s] \o Answer(m, u)
      /\ \A t \in Switch : t # s => macports'[t] = macports[t] /\ commands'[t] = commands[t]
  BY <1>1, <1>2 DEF Types
<1>5. \A t \in Switch, a \in Host : macports[t][a] # None => macports'[t][a] # None
  BY <1>2, <1>4
<1>6. ASSUME ~Changed("restart"), NEW i \in 1..Len(commands'[s])
      PROVE  KnowsBoth(macports'[s], commands'[s][i])
  <2>1. commands[s] \in Seq(Command) /\ Answer(m, u) \in Seq(Command)
    BY <1>1, <1>2 DEF Types
  <2>2. ASSUME NEW k \in 1..Len(commands[s])
        PROVE  KnowsBoth(m, commands[s][k])
    <3>1. KnowsBoth(macports[s], commands[s][k])
      BY <1>6 DEF IInv, CommandsKnown
    <3>2. commands[s][k] \in Command
      BY <2>1, ElementOfSeq
    <3>3. "flow" \in DOMAIN commands[s][k] =>
            commands[s][k].flow[1] \in Host /\ commands[s][k].flow[2] \in Host
      BY <3>2 DEF Command, Pair
    <3> QED BY <1>4, <1>5, <3>1, <3>3 DEF KnowsBoth
  <2>3. \A k \in 1..Len(commands[s] \o Answer(m, u)) :
          KnowsBoth(m, (commands[s] \o Answer(m, u))[k])
    BY <1>2, <2>1, <2>2, ConcatKnown
  <2> QED BY <1>4, <2>3
<1>7. CommandsKnown'
  BY <1>3, <1>4, <1>6 DEF IInv, CommandsKnown
<1>8. NobodyHides'
  BY <1>1, <1>3, <1>5 DEF IInv, NobodyHides
<1> QED BY <1>1, <1>7, <1>8 DEF IInv

\* The switch installs a flow that it was told of.
LEMMA ExecuteIInv ==
  ASSUME IInv, NEW s \in Switch, Execute(s)
  PROVE  IInv'
<1> DEFINE c == Head(commands[s])
<1>1. Types /\ Types' /\ UNCHANGED <<macports, changes>>
  BY ExecuteType DEF IInv, Execute
<1>2. commands[s] # <<>> /\ commands[s] \in Seq(Command)
  BY <1>1 DEF Execute, Types
<1>3. /\ c \in Command /\ c = commands[s][1] /\ 1 \in 1..Len(commands[s])
      /\ \A i \in 1..Len(Tail(commands[s])) :
           i + 1 \in 1..Len(commands[s]) /\ Tail(commands[s])[i] = commands[s][i + 1]
  BY <1>2, First
<1>4. /\ flows' = flows \/ ("flow" \in DOMAIN c /\ flows' = [flows EXCEPT ![s][c.flow] = c.out])
      /\ commands' = [commands EXCEPT ![s] = Tail(@)]
  BY DEF Execute
<1> HIDE DEF c
<1>5. Changed("restart")' <=> Changed("restart")
  BY <1>1 DEF Changed
<1>6. /\ commands'[s] = Tail(commands[s])
      /\ \A t \in Switch : t # s => commands'[t] = commands[t]
  BY <1>1, <1>4 DEF Types
<1>7. CommandsKnown'
  <2>1. ASSUME ~Changed("restart"), NEW t \in Switch, NEW i \in 1..Len(commands'[t])
        PROVE  KnowsBoth(macports[t], commands'[t][i])
    <3>1. CASE t = s
      BY <1>3, <1>6, <2>1, <3>1 DEF IInv, CommandsKnown
    <3>2. CASE t # s
      BY <1>6, <2>1, <3>2 DEF IInv, CommandsKnown
    <3> QED BY <3>1, <3>2
  <2> QED BY <1>1, <1>5, <2>1 DEF CommandsKnown
<1>8. NobodyHides'
  <2>1. ASSUME ~Changed("restart"), NEW t \in Switch, NEW a \in Host, NEW b \in Host,
               flows'[t][<<a, b>>] # None
        PROVE  macports[t][a] # None /\ macports[t][b] # None
    <3>1. CASE flows'[t][<<a, b>>] = flows[t][<<a, b>>]
      BY <2>1, <3>1 DEF IInv, NobodyHides
    <3>2. CASE flows'[t][<<a, b>>] # flows[t][<<a, b>>]
      <4>1. "flow" \in DOMAIN c /\ flows' = [flows EXCEPT ![s][c.flow] = c.out]
        BY <1>4, <3>2
      <4>2. t = s /\ c.flow = <<a, b>>
        BY <1>1, <3>2, <4>1 DEF Types, Pair
      <4>3. KnowsBoth(macports[s], c)
        BY <1>3, <2>1 DEF IInv, CommandsKnown
      <4> QED BY <4>1, <4>2, <4>3 DEF KnowsBoth
    <3> QED BY <3>1, <3>2
  <2> QED BY <1>1, <1>5, <2>1 DEF NobodyHides
<1> QED BY <1>1, <1>7, <1>8 DEF IInv

\* A flow that is gone lets nobody hide.
LEMMA ExpireIInv ==
  ASSUME IInv, NEW s \in Switch, NEW e \in Pair, Expire(s, e)
  PROVE  IInv'
<1>1. Types /\ Types' /\ UNCHANGED <<macports, commands>>
  BY SurroundingsType DEF IInv, Expire
<1>2. ~Changed("restart")' => ~Changed("restart")
  BY <1>1, ChangedStays DEF Expire
<1>3. \A t \in Switch, a, b \in Host :
        flows'[t][<<a, b>>] # None => flows[t][<<a, b>>] # None
  BY <1>1 DEF Expire, Types, Pair
<1>4. CommandsKnown'
  BY <1>1, <1>2 DEF IInv, CommandsKnown
<1>5. NobodyHides'
  BY <1>1, <1>2, <1>3 DEF IInv, NobodyHides
<1> QED BY <1>1, <1>4, <1>5 DEF IInv

\* The flow for broadcasts is no host's.
LEMMA ExpireBroadcastIInv ==
  ASSUME IInv, NEW s \in Switch, ExpireBroadcast(s)
  PROVE  IInv'
<1>1. Types /\ Types' /\ UNCHANGED <<macports, flows, commands>>
  BY SurroundingsType DEF IInv, ExpireBroadcast
<1>2. ~Changed("restart")' => ~Changed("restart")
  BY <1>1, ChangedStays DEF ExpireBroadcast
<1> QED BY <1>1, <1>2 DEF IInv, CommandsKnown, NobodyHides

\* A controller that is started again is one that NobodyHides does not speak of.
LEMMA RestartIInv ==
  ASSUME IInv, Restart
  PROVE  IInv'
<1>1. Types' /\ Changed("restart")'
  BY SurroundingsType, ChangedStays DEF IInv, Restart
<1> QED BY <1>1 DEF IInv, CommandsKnown, NobodyHides

\* A host that moves is known where it was.
LEMMA MoveIInv ==
  ASSUME IInv, NEW h \in Host, NEW p \in Seat, Move(h, p)
  PROVE  IInv'
<1>1. Types /\ Types' /\ UNCHANGED <<macports, flows, commands>>
  BY SurroundingsType DEF IInv, Move
<1>2. ~Changed("restart")' => ~Changed("restart")
  BY <1>1, ChangedStays DEF Move
<1>3. CommandsKnown'
  BY <1>1, <1>2 DEF IInv, CommandsKnown
<1>4. NobodyHides'
  BY <1>1, <1>2 DEF IInv, NobodyHides
<1> QED BY <1>1, <1>3, <1>4 DEF IInv

\* Every step keeps the invariant.
LEMMA NextIInv == IInv /\ [Next]_vars => IInv'
<1> SUFFICES ASSUME IInv, [Next]_vars PROVE IInv'
  OBVIOUS
<1>1. Types
  BY DEF IInv
<1>2. ASSUME NEW h \in Host, NEW d \in Host \cup {All}, Send(h, d)
      PROVE  IInv'
  BY <1>1, <1>2, SendType, KnownStays DEF Send
<1>3. ASSUME NEW s \in Switch, NEW p \in Port, Arrive(s, p)
      PROVE  IInv'
  BY <1>1, <1>3, ArriveType, KnownStays DEF Arrive
<1>4. CASE Forwarding
  BY <1>3, <1>4, PacketInIInv, ExecuteIInv DEF Forwarding
<1>5. CASE UNCHANGED vars
  <2>1. Types'
    BY <1>1, <1>5 DEF vars, Types
  <2> QED BY <1>5, <2>1, KnownStays DEF vars
<1> QED BY <1>2, <1>4, <1>5, ExpireIInv, ExpireBroadcastIInv, RestartIInv, MoveIInv DEF Next

\* The invariant holds.
THEOREM Invariant == Spec => []IInv
<1> QED BY InitIInv, NextIInv, PTL DEF Spec

\* No flow lets the frames of a host bypass a controller that does not know the host's
\* port (_handle_PacketIn), until controllers are started again.
THEOREM KnowBeforeFlow == Spec => []NobodyHides
<1>1. IInv => NobodyHides
  BY DEF IInv
<1> QED BY <1>1, Invariant, PTL

-----------------------------------------------------------------------------
(* Copies of frames, and the hosts that they can get to *)

\* The access ports that are to be reached from s by its port q.
Far(s, q) == IF q \in Seat THEN {q} ELSE {p \in Seat : Home[p] \in Behind(s, q)}

\* The frame f, at switch s, may get to these access ports when it is put out so.
Claim(s, in, out, f) == {f.id} \X UNION {Far(s, q) : q \in OutPorts(s, in, out)}

\* Where copies of frames wait.
Loc == {"wire"} \X Ends \cup {"up", "cmd"} \X Switch

Queue ==
  [l \in Loc |-> CASE l[1] = "wire" -> wire[l[2]]
                   [] l[1] = "up" -> upcalls[l[2]]
                   [] OTHER -> commands[l[2]]]

\* What x may still come to, when it waits at l.
Entry(l, x) ==
  CASE l[1] = "wire" -> Claim(l[2][1], l[2][2], All, x)
    [] l[1] = "up" -> Claim(l[2], x.in, All, x.frame)
    [] OTHER -> IF "flow" \in DOMAIN x THEN {} ELSE Claim(l[2], x.in, x.out, x.frame)

Apart(q) ==
  \A l, m \in Loc : \A i \in 1..Len(q[l]), j \in 1..Len(q[m]) :
    <<l, i>> # <<m, j>> => Entry(l, q[l][i]) \cap Entry(m, q[m][j]) = {}

Avoids(q, X) == \A l \in Loc : \A i \in 1..Len(q[l]) : Entry(l, q[l][i]) \cap X = {}

Within(q, X) == \A l \in Loc : \A i \in 1..Len(q[l]) : Entry(l, q[l][i]) \subseteq X

\* What has been taken, and where its taker is plugged in.
Taken == UNION {{<<inbox[h][i].id, seat[h]>> : i \in 1..Len(inbox[h])} : h \in Host}

\* Numbers that were given out already.
Old == (1..Len(sent)) \X Seat

\* The controllers and flow tables of a switch name ports of that switch.
OwnPorts ==
  /\ \A s \in Switch : \A a \in Host : macports[s][a] \in Ports(s) \cup {None}
  /\ \A s \in Switch : \A e \in Pair : flows[s][e] \in Ports(s) \cup {None}
  /\ \A s \in Switch : \A i \in 1..Len(upcalls[s]) : upcalls[s][i].in \in Ports(s)
  /\ \A s \in Switch : \A i \in 1..Len(commands[s]) :
       commands[s][i].out \in Ports(s) \cup {All}

Once ==
  /\ Types /\ OwnPorts /\ inbox \in [Host -> Seq(Frame)]
  /\ Apart(Queue) /\ Avoids(Queue, Taken) /\ Within(Queue, Old) /\ Taken \subseteq Old
  /\ AtMostOnce

-----------------------------------------------------------------------------
(* Trees *)

\* The other side of a link is behind it, and this side is not.
LEMMA BehindFacts ==
  ASSUME NEW e \in Trunk
  PROVE  /\ e[2] \in Behind(e[1], e[2]) /\ e[1] \notin Behind(e[1], e[2])
         /\ Behind(e[1], e[2]) \subseteq Switch
         /\ \A g \in Trunk : g[1] \in Behind(e[1], e[2]) /\ g[2] # e[1] =>
              g[2] \in Behind(e[1], e[2])
<1>1. /\ e[1] \in Switch /\ e[2] \in Switch /\ e[1] # e[2]
      /\ \A g \in Trunk : g[1] \in Switch /\ g[2] \in Switch
  BY TopologyAssumption
<1>2. e[2] \in Behind(e[1], e[2])
  BY <1>1 DEF Behind
<1>3. e[1] \notin Behind(e[1], e[2])
  <2> DEFINE U == Switch \ {e[1]}
  <2>1. /\ U \in SUBSET (Switch \ {e[1]}) /\ e[2] \in U
        /\ \A g \in Trunk : g[1] \in U /\ g[2] # e[1] => g[2] \in U
    BY <1>1
  <2>2. e[1] \notin U
    OBVIOUS
  <2> HIDE DEF U
  <2> QED BY <2>1, <2>2 DEF Behind
<1>4. ASSUME NEW g \in Trunk, g[1] \in Behind(e[1], e[2]), g[2] # e[1]
      PROVE  g[2] \in Behind(e[1], e[2])
  <2>1. ASSUME NEW U \in SUBSET (Switch \ {e[1]}), e[2] \in U,
               \A k \in Trunk : k[1] \in U /\ k[2] # e[1] => k[2] \in U
        PROVE  g[2] \in U
    <3>1. g[1] \in U
      BY <1>4, <2>1 DEF Behind
    <3> QED BY <1>4, <2>1, <3>1
  <2> QED BY <1>1, <2>1 DEF Behind
<1> QED BY <1>2, <1>3, <1>4 DEF Behind

\* What is behind the next link is behind this one.
LEMMA BehindNext ==
  ASSUME NEW e \in Trunk, NEW g \in Trunk, g[1] = e[2], g[2] # e[1]
  PROVE  Behind(g[1], g[2]) \subseteq Behind(e[1], e[2])
<1> DEFINE B == Behind(g[1], g[2])
<1>1. e[1] \notin B
  <2>1. PICK k \in Trunk : k[1] = e[2] /\ k[2] = e[1]
    BY TopologyAssumption
  <2>2. e[1] \in Behind(k[1], k[2])
    BY <2>1, BehindFacts
  <2>3. Behind(k[1], k[2]) \cap B = {}
    BY <2>1, TreeAssumption
  <2> QED BY <2>2, <2>3
<1>2. /\ g[2] \in B /\ g[1] \notin B /\ B \subseteq Switch
      /\ \A k \in Trunk : k[1] \in B /\ k[2] # g[1] => k[2] \in B
  BY BehindFacts
<1>3. ASSUME NEW x \in B, NEW U \in SUBSET (Switch \ {e[1]}), e[2] \in U,
             \A k \in Trunk : k[1] \in U /\ k[2] # e[1] => k[2] \in U
      PROVE  x \in U
  <2> DEFINE V == U \cap B
  <2>1. V \in SUBSET (Switch \ {g[1]})
    BY <1>2
  <2>2. g[2] \in V
    BY <1>2, <1>3
  <2>3. ASSUME NEW k \in Trunk, k[1] \in V, k[2] # g[1]
        PROVE  k[2] \in V
    <3>1. k[2] \in B
      BY <1>2, <2>3
    <3> QED BY <1>1, <1>3, <2>3, <3>1
  <2> HIDE DEF V
  <2>4. x \in V
    BY <1>3, <2>1, <2>2, <2>3 DEF Behind
  <2> QED BY <2>4 DEF V
<1> HIDE DEF B
<1>4. \A x \in B : x \in Behind(e[1], e[2])
  BY <1>2, <1>3 DEF Behind
<1> QED BY <1>4 DEF B

\* A seat is no switch.
LEMMA PortFacts ==
  ASSUME NEW s \in Switch, NEW q \in Ports(s)
  PROVE  /\ q \in Port /\ q # All
         /\ q \in Seat => q \notin Switch /\ Home[q] = s
         /\ q \notin Seat => q \in Switch /\ <<s, q>> \in Trunk
BY TopologyAssumption DEF Ports, Port

\* Different ports of a switch lead to different access ports.
LEMMA FarApart ==
  ASSUME NEW s \in Switch, NEW q \in Ports(s), NEW r \in Ports(s), q # r
  PROVE  Far(s, q) \cap Far(s, r) = {}
<1>1. ASSUME NEW p \in Ports(s), NEW t \in Ports(s), p \in Seat, t \notin Seat
      PROVE  p \notin Far(s, t)
  <2>1. <<s, t>> \in Trunk /\ Home[p] = s
    BY <1>1, PortFacts
  <2>2. s \notin Behind(s, t)
    BY <2>1, BehindFacts
  <2> QED BY <1>1, <2>1, <2>2 DEF Far
<1>2. CASE q \notin Seat /\ r \notin Seat
  <2>1. <<s, q>> \in Trunk /\ <<s, r>> \in Trunk
    BY <1>2, PortFacts
  <2>2. Behind(s, q) \cap Behind(s, r) = {}
    BY <2>1, TreeAssumption
  <2> QED BY <1>2, <2>2 DEF Far
<1>3. CASE q \in Seat /\ r \in Seat
  BY <1>3 DEF Far
<1>4. CASE q \in Seat /\ r \notin Seat
  BY <1>1, <1>4 DEF Far
<1>5. CASE q \notin Seat /\ r \in Seat
  BY <1>1, <1>5 DEF Far
<1> QED BY <1>2, <1>3, <1>4, <1>5

\* A frame that comes from s to t gets to what is behind t only.
LEMMA FarCovers ==
  ASSUME NEW s \in Switch, NEW t \in Switch, <<s, t>> \in Trunk,
         NEW q \in Ports(t), q # s
  PROVE  Far(t, q) \subseteq Far(s, t)
<1>1. t \notin Seat /\ t \in Behind(s, t)
  BY TopologyAssumption, BehindFacts
<1>2. CASE q \in Seat
  BY <1>1, <1>2, PortFacts DEF Far
<1>3. CASE q \notin Seat
  <2>1. <<t, q>> \in Trunk
    BY <1>3, PortFacts
  <2>2. Behind(t, q) \subseteq Behind(s, t)
    BY <2>1, BehindNext
  <2> QED BY <1>1, <1>3, <2>2 DEF Far
<1> QED BY <1>2, <1>3

-----------------------------------------------------------------------------
(* Queues *)

Thing == Frame \cup Upcall \cup Command
Queues == [Loc -> Seq(Thing)]

\* The queues without the front of queue k.
Shorter(q, k) == [q EXCEPT ![k] = Tail(@)]

\* Taking one away leaves the rest apart, and apart from it.
LEMMA TakeFacts ==
  ASSUME NEW q \in Queues, Apart(q), NEW k \in Loc, q[k] # <<>>
  PROVE  /\ Shorter(q, k) \in Queues /\ Apart(Shorter(q, k))
         /\ Avoids(Shorter(q, k), Entry(k, Head(q[k])))
         /\ \A X : Avoids(q, X) =>
              Avoids(Shorter(q, k), X) /\ Entry(k, Head(q[k])) \cap X = {}
         /\ \A X : Within(q, X) =>
              Within(Shorter(q, k), X) /\ Entry(k, Head(q[k])) \subseteq X
         /\ \A l \in Loc : Shorter(q, k)[l] = IF l = k THEN Tail(q[l]) ELSE q[l]
<1> DEFINE r == Shorter(q, k)
<1>1. q[k] \in Seq(Thing) /\ \A l \in Loc : q[l] \in Seq(Thing)
  BY DEF Queues
<1>2. /\ Head(q[k]) = q[k][1] /\ Tail(q[k]) \in Seq(Thing)
      /\ Len(q[k]) \in Nat /\ Len(q[k]) > 0 /\ Len(Tail(q[k])) = Len(q[k]) - 1
      /\ \A i \in 1..Len(Tail(q[k])) : i + 1 \in 1..Len(q[k]) /\ Tail(q[k])[i] = q[k][i + 1]
  BY <1>1, First
<1>3. r \in Queues /\ r[k] = Tail(q[k]) /\ \A l \in Loc : l # k => r[l] = q[l]
  BY <1>2 DEF Queues, Shorter
<1> HIDE DEF r
<1> DEFINE o(l, i) == IF l = k THEN i + 1 ELSE i
<1>4. ASSUME NEW l \in Loc, NEW i \in 1..Len(r[l])
      PROVE  /\ o(l, i) \in 1..Len(q[l]) /\ r[l][i] = q[l][o(l, i)]
             /\ <<l, o(l, i)>> # <<k, 1>>
  <2>1. CASE l = k
    <3>0. r[l] = Tail(q[k]) /\ Len(Tail(q[k])) \in Nat
      BY <1>2, <1>3, <2>1
    <3>1. i \in 1..Len(Tail(q[k]))
      BY <1>4, <3>0, Zenon
    <3>2. i + 1 # 1
      BY <3>0, <3>1
    <3> QED BY <1>2, <1>3, <2>1, <3>1, <3>2
  <2>2. CASE l # k
    <3>1. r[l] = q[l] /\ o(l, i) = i
      BY <1>3, <2>2
    <3> QED BY <1>4, <2>2, <3>1
  <2> QED BY <2>1, <2>2
<1>5. \A l \in Loc : \A i \in 1..Len(r[l]) : \A j \in 1..Len(r[l]) :
        i # j => o(l, i) # o(l, j)
  OBVIOUS
<1>6. 1 \in 1..Len(q[k])
  BY <1>2
<1> HIDE DEF o
<1>7. Apart(r)
  <2>1. ASSUME NEW l \in Loc, NEW m \in Loc, NEW i \in 1..Len(r[l]), NEW j \in 1..Len(r[m]),
               <<l, i>> # <<m, j>>
        PROVE  Entry(l, r[l][i]) \cap Entry(m, r[m][j]) = {}
    <3>1. <<l, o(l, i)>> # <<m, o(m, j)>>
      BY <1>5, <2>1
    <3>2. Entry(l, q[l][o(l, i)]) \cap Entry(m, q[m][o(m, j)]) = {}
      BY <1>4, <3>1 DEF Apart
    <3> QED BY <1>4, <3>2
  <2> QED BY <2>1 DEF Apart
<1>8. Avoids(r, Entry(k, Head(q[k])))
  <2>1. ASSUME NEW l \in Loc, NEW i \in 1..Len(r[l])
        PROVE  Entry(l, r[l][i]) \cap Entry(k, q[k][1]) = {}
    <3>1. Entry(l, q[l][o(l, i)]) \cap Entry(k, q[k][1]) = {}
      BY <1>4, <1>6 DEF Apart
    <3> QED BY <1>4, <3>1
  <2> QED BY <1>2, <2>1 DEF Avoids
<1>9. ASSUME NEW X, Avoids(q, X)
      PROVE  Avoids(r, X) /\ Entry(k, Head(q[k])) \cap X = {}
  <2>1. Avoids(r, X)
    <3>1. \A l \in Loc : \A i \in 1..Len(q[l]) : Entry(l, q[l][i]) \cap X = {}
      BY <1>9 DEF Avoids
    <3>2. ASSUME NEW l \in Loc, NEW i \in 1..Len(r[l])
          PROVE  Entry(l, r[l][i]) \cap X = {}
      BY <1>4, <3>1, <3>2
    <3> QED BY <3>2 DEF Avoids
  <2>2. Entry(k, Head(q[k])) \cap X = {}
    BY <1>2, <1>6, <1>9 DEF Avoids
  <2> QED BY <2>1, <2>2
<1>10. ASSUME NEW X, Within(q, X)
       PROVE  Within(r, X) /\ Entry(k, Head(q[k])) \subseteq X
  BY <1>2, <1>4, <1>6, <1>10 DEF Within
<1> QED BY <1>3, <1>7, <1>8, <1>9, <1>10 DEF r

\* Queues with D at their ends.
Joined(q, D) == [l \in Loc |-> q[l] \o D[l]]

\* An entry was there or has come.
LEMMA JoinedEntries ==
  ASSUME NEW q \in Queues, NEW D \in Queues, NEW l \in Loc, NEW i \in 1..Len(Joined(q, D)[l])
  PROVE  \/ i \in 1..Len(q[l]) /\ Joined(q, D)[l][i] = q[l][i]
         \/ i \notin 1..Len(q[l]) /\ i - Len(q[l]) \in 1..Len(D[l])
            /\ Joined(q, D)[l][i] = D[l][i - Len(q[l])]
<1>1. q[l] \in Seq(Thing) /\ D[l] \in Seq(Thing) /\ Joined(q, D)[l] = q[l] \o D[l]
  BY DEF Queues, Joined
<1>2. /\ Len(q[l] \o D[l]) = Len(q[l]) + Len(D[l]) /\ Len(q[l]) \in Nat /\ Len(D[l]) \in Nat
      /\ \A n \in 1..(Len(q[l]) + Len(D[l])) :
           (q[l] \o D[l])[n] = IF n <= Len(q[l]) THEN q[l][n] ELSE D[l][n - Len(q[l])]
  BY <1>1, ConcatProperties, LenProperties
<1>3. i \in 1..(Len(q[l]) + Len(D[l]))
  BY <1>1, <1>2
<1>4. CASE i <= Len(q[l])
  <2>1. i \in 1..Len(q[l])
    BY <1>2, <1>3, <1>4
  <2>2. (q[l] \o D[l])[i] = q[l][i]
    BY <1>2, <1>3, <1>4
  <2> QED BY <1>1, <2>1, <2>2
<1>5. CASE ~(i <= Len(q[l]))
  <2> DEFINE a == Len(q[l])
             b == Len(D[l])
  <2>0. a \in Nat /\ b \in Nat /\ i \in 1..(a + b) /\ ~(i <= a)
    BY <1>2, <1>3, <1>5
  <2>1. i \notin 1..a /\ i - a \in 1..b
    <3> HIDE DEF a, b
    <3> QED BY <2>0
  <2>2. (q[l] \o D[l])[i] = D[l][i - Len(q[l])]
    BY <1>2, <1>3, <1>5
  <2> QED BY <1>1, <2>1, <2>2
<1> QED BY <1>4, <1>5

\* What comes to the ends of queues stands for nothing that is in them.
LEMMA JoinedFacts ==
  ASSUME NEW q \in Queues, NEW D \in Queues
  PROVE  /\ Joined(q, D) \in Queues
         /\ \A X : Avoids(q, X) /\ Avoids(D, X) => Avoids(Joined(q, D), X)
         /\ \A X : Within(q, X) /\ Within(D, X) => Within(Joined(q, D), X)
         /\ \A X : Apart(q) /\ Apart(D) /\ Avoids(q, X) /\ Within(D, X) => Apart(Joined(q, D))
<1> DEFINE J == Joined(q, D)
<1>1. J \in Queues
  <2>1. \A l \in Loc : q[l] \o D[l] \in Seq(Thing)
    BY ConcatProperties DEF Queues
  <2> QED BY <2>1 DEF Queues, Joined
<1>2. \A l \in Loc : \A i \in 1..Len(J[l]) :
        \/ i \in 1..Len(q[l]) /\ J[l][i] = q[l][i]
        \/ i \notin 1..Len(q[l]) /\ i - Len(q[l]) \in 1..Len(D[l])
           /\ J[l][i] = D[l][i - Len(q[l])]
  BY JoinedEntries
<1>3. \A l \in Loc : Len(q[l]) \in Nat
  BY LenProperties DEF Queues
<1> HIDE DEF J
<1>4. ASSUME NEW X, Avoids(q, X), Avoids(D, X) PROVE Avoids(J, X)
  BY <1>2, <1>4 DEF Avoids
<1>5. ASSUME NEW X, Within(q, X), Within(D, X) PROVE Within(J, X)
  BY <1>2, <1>5 DEF Within
<1>6. ASSUME NEW X, Apart(q), Apart(D), Avoids(q, X), Within(D, X)
      PROVE  Apart(J)
  <2>1. \A l, m \in Loc : \A i \in 1..Len(q[l]), j \in 1..Len(D[m]) :
          Entry(l, q[l][i]) \cap Entry(m, D[m][j]) = {}
    BY <1>6 DEF Avoids, Within
  <2>2. ASSUME NEW l \in Loc, NEW m \in Loc, NEW i \in 1..Len(J[l]), NEW j \in 1..Len(J[m]),
               <<l, i>> # <<m, j>>
        PROVE  Entry(l, J[l][i]) \cap Entry(m, J[m][j]) = {}
    <3>1. CASE i \in 1..Len(q[l]) /\ j \in 1..Len(q[m])
      <4>1. J[l][i] = q[l][i] /\ J[m][j] = q[m][j]
        BY <1>2, <3>1
      <4>2. Entry(l, q[l][i]) \cap Entry(m, q[m][j]) = {}
        BY <1>6, <2>2, <3>1 DEF Apart
      <4> QED BY <4>1, <4>2
    <3>2. CASE i \in 1..Len(q[l]) /\ j \notin 1..Len(q[m])
      <4>1. J[l][i] = q[l][i]
        BY <1>2, <3>2
      <4>2. j - Len(q[m]) \in 1..Len(D[m]) /\ J[m][j] = D[m][j - Len(q[m])]
        BY <1>2, <3>2
      <4>3. Entry(l, q[l][i]) \cap Entry(m, D[m][j - Len(q[m])]) = {}
        BY <2>1, <3>2, <4>2
      <4> QED BY <4>1, <4>2, <4>3
    <3>3. CASE i \notin 1..Len(q[l]) /\ j \in 1..Len(q[m])
      <4>1. J[m][j] = q[m][j]
        BY <1>2, <3>3
      <4>2. i - Len(q[l]) \in 1..Len(D[l]) /\ J[l][i] = D[l][i - Len(q[l])]
        BY <1>2, <3>3
      <4>3. Entry(m, q[m][j]) \cap Entry(l, D[l][i - Len(q[l])]) = {}
        BY <2>1, <3>3, <4>2
      <4> QED BY <4>1, <4>2, <4>3
    <3>4. CASE i \notin 1..Len(q[l]) /\ j \notin 1..Len(q[m])
      <4>1. i - Len(q[l]) \in 1..Len(D[l]) /\ J[l][i] = D[l][i - Len(q[l])]
        BY <1>2, <3>4
      <4>2. j - Len(q[m]) \in 1..Len(D[m]) /\ J[m][j] = D[m][j - Len(q[m])]
        BY <1>2, <3>4
      <4>3. <<l, i - Len(q[l])>> # <<m, j - Len(q[m])>>
        <5>1. i \in Int /\ j \in Int /\ Len(q[l]) \in Nat
          <6>1. Len(J[l]) \in Nat /\ Len(J[m]) \in Nat
            BY <1>1, LenProperties DEF Queues
          <6> QED BY <1>3, <2>2, <6>1
        <5>2. CASE l = m
          <6>1. i # j
            BY <2>2, <5>2
          <6>2. i - Len(q[l]) # j - Len(q[m])
            BY <5>1, <5>2, <6>1
          <6> QED BY <6>2
        <5> QED BY <5>2
      <4>4. Entry(l, D[l][i - Len(q[l])]) \cap Entry(m, D[m][j - Len(q[m])]) = {}
        BY <1>6, <4>1, <4>2, <4>3 DEF Apart
      <4> QED BY <4>1, <4>2, <4>4
    <3> QED BY <3>1, <3>2, <3>3, <3>4
  <2> QED BY <2>2 DEF Apart
<1> QED BY <1>1, <1>4, <1>5, <1>6 DEF J

-----------------------------------------------------------------------------
(* The queues of a state *)

\* The places where copies wait.
LEMMA LocFacts ==
  /\ \A e \in Ends : <<"wire", e>> \in Loc
  /\ \A s \in Switch : <<"up", s>> \in Loc /\ <<"cmd", s>> \in Loc
  /\ \A l \in Loc : \/ \E e \in Ends : l = <<"wire", e>>
                    \/ \E s \in Switch : l = <<"up", s>> \/ l = <<"cmd", s>>
BY DEF Loc

\* What waits where.
LEMMA QueueFacts ==
  /\ \A e \in Ends : Queue[<<"wire", e>>] = wire[e]
  /\ \A s \in Switch : Queue[<<"up", s>>] = upcalls[s] /\ Queue[<<"cmd", s>>] = commands[s]
  /\ Queue = [l \in Loc |-> Queue[l]]
BY LocFacts DEF Queue

\* What waits where after a step.
LEMMA NextQueueFacts ==
  /\ \A e \in Ends : Queue'[<<"wire", e>>] = wire'[e]
  /\ \A s \in Switch : Queue'[<<"up", s>>] = upcalls'[s] /\ Queue'[<<"cmd", s>>] = commands'[s]
  /\ Queue' = [l \in Loc |-> Queue'[l]]
BY LocFacts DEF Queue

\* The queues hold frames, upcalls and commands,
LEMMA QueueType ==
  ASSUME Types
  PROVE  Queue \in Queues
<1>1. \A e \in Ends : wire[e] \in Seq(Thing)
  BY SeqMonotonic DEF Types, Thing
<1>2. \A s \in Switch : upcalls[s] \in Seq(Thing) /\ commands[s] \in Seq(Thing)
  BY SeqMonotonic DEF Types, Thing
<1>3. \A l \in Loc : Queue[l] \in Seq(Thing)
  BY <1>1, <1>2, LocFacts, QueueFacts
<1> QED BY <1>3, QueueFacts DEF Queues

\* also after a step.
LEMMA NextQueueType ==
  ASSUME Types'
  PROVE  Queue' \in Queues
<1>1. \A e \in Ends : wire'[e] \in Seq(Thing)
  BY SeqMonotonic DEF Types, Thing
<1>2. \A s \in Switch : upcalls'[s] \in Seq(Thing) /\ commands'[s] \in Seq(Thing)
  BY SeqMonotonic DEF Types, Thing
<1>3. \A l \in Loc : Queue'[l] \in Seq(Thing)
  BY <1>1, <1>2, LocFacts, NextQueueFacts
<1> QED BY <1>3, NextQueueFacts DEF Queues

\* Queues that are q with D at the ends.
LEMMA IsJoined ==
  ASSUME NEW q \in Queues, NEW D \in Queues, NEW g \in Queues,
         \A l \in Loc : \/ D[l] = <<>> /\ g[l] = q[l]
                        \/ \E x \in Thing : D[l] = <<x>> /\ g[l] = Append(q[l], x)
                        \/ g[l] = q[l] \o D[l]
  PROVE  g = Joined(q, D)
<1>1. ASSUME NEW l \in Loc PROVE g[l] = q[l] \o D[l]
  <2>1. q[l] \in Seq(Thing) /\ D[l] \in Seq(Thing)
    BY DEF Queues
  <2>2. q[l] \o <<>> = q[l] /\ \A x \in Thing : Append(q[l], x) = q[l] \o <<x>>
    BY <2>1, ConcatEmptySeq, AppendIsConcat
  <2> QED BY <2>2
<1>2. Joined(q, D) \in Queues
  BY JoinedFacts
<1> QED BY <1>1, <1>2 DEF Joined, Queues

\* x at the end of queue k, and nothing else.
Into(k, x) == [l \in Loc |-> IF l = k THEN x ELSE <<>>]

\* Entries that are apart, in one queue.
LEMMA IntoFacts ==
  ASSUME NEW k \in Loc, NEW x \in Seq(Thing), NEW X,
         \A i \in 1..Len(x) : Entry(k, x[i]) \subseteq X,
         \A i, j \in 1..Len(x) : i # j => Entry(k, x[i]) \cap Entry(k, x[j]) = {}
  PROVE  /\ Into(k, x) \in Queues /\ Apart(Into(k, x)) /\ Within(Into(k, x), X)
         /\ Avoids(Into(k, x), {})
<1>1. <<>> \in Seq(Thing) /\ Len(<<>>) = 0
  BY EmptySeq
<1>2. Into(k, x) \in Queues
  BY <1>1 DEF Into, Queues
<1>3. ASSUME NEW l \in Loc, NEW i \in 1..Len(Into(k, x)[l])
      PROVE  l = k /\ i \in 1..Len(x) /\ Into(k, x)[l][i] = x[i]
  <2>1. l = k
    <3>1. l # k => i \in 1..0
      BY <1>1, <1>3 DEF Into
    <3> QED BY <3>1
  <2> QED BY <1>3, <2>1 DEF Into
<1>4. Apart(Into(k, x))
  <2>1. ASSUME NEW l \in Loc, NEW m \in Loc,
               NEW i \in 1..Len(Into(k, x)[l]), NEW j \in 1..Len(Into(k, x)[m]),
               <<l, i>> # <<m, j>>
        PROVE  Entry(l, Into(k, x)[l][i]) \cap Entry(m, Into(k, x)[m][j]) = {}
    <3>1. l = k /\ m = k /\ i \in 1..Len(x) /\ j \in 1..Len(x)
      BY <1>3
    <3>2. i # j
      BY <2>1, <3>1
    <3>3. Entry(k, x[i]) \cap Entry(k, x[j]) = {}
      BY <3>1, <3>2
    <3> QED BY <1>3, <3>1, <3>3
  <2> QED BY <2>1 DEF Apart
<1>5. Within(Into(k, x), X)
  BY <1>3 DEF Within
<1> QED BY <1>2, <1>4, <1>5 DEF Avoids

\* Frame f, put out by a switch, on the wires.
Out(s, in, out, f) ==
  [l \in Loc |->
     IF l[1] = "wire" /\ l[2][2] = s /\ l[2][1] \in OutPorts(s, in, out) THEN <<f>> ELSE <<>>]

\* Where f is handed over at once.
Near(s, in, out, f) == {f.id} \X (OutPorts(s, in, out) \cap Seat)

\* A frame on a wire from s gets to what is behind the wire.
LEMMA WireEntry ==
  ASSUME NEW e \in Ends, NEW f, e[2] \in Switch
  PROVE  Entry(<<"wire", e>>, f) \subseteq {f.id} \X Far(e[2], e[1])
<1>1. e[1] \in Switch /\ e[2] \in Ports(e[1])
  BY DEF Ends
<1>2. <<e[2], e[1]>> \in Trunk
  <2>1. e[2] \notin Seat
    BY TopologyAssumption
  <2>2. <<e[1], e[2]>> \in Trunk
    BY <1>1, <2>1, PortFacts
  <2>3. \A g \in Trunk : <<g[2], g[1]>> \in Trunk
    BY TopologyAssumption
  <2> QED BY <2>2, <2>3
<1>3. \A q \in Ports(e[1]) : q # e[2] => Far(e[1], q) \subseteq Far(e[2], e[1])
  BY <1>1, <1>2, FarCovers
<1>4. \A q \in OutPorts(e[1], e[2], All) : q \in Ports(e[1]) /\ q # e[2]
  BY DEF OutPorts
<1>5. Entry(<<"wire", e>>, f) = Claim(e[1], e[2], All, f)
  BY DEF Entry
<1> QED BY <1>3, <1>4, <1>5 DEF Claim

\* What a switch puts out is apart, and apart from what it hands over.
LEMMA OutFacts ==
  ASSUME NEW s \in Switch, NEW in, NEW out, OutPorts(s, in, out) \subseteq Ports(s),
         NEW f \in Frame
  PROVE  /\ Out(s, in, out, f) \in Queues /\ Apart(Out(s, in, out, f))
         /\ Within(Out(s, in, out, f), Claim(s, in, out, f))
         /\ Avoids(Out(s, in, out, f), Near(s, in, out, f))
         /\ Near(s, in, out, f) \subseteq Claim(s, in, out, f)
<1> DEFINE D == Out(s, in, out, f)
           P == OutPorts(s, in, out)
<1>1. <<>> \in Seq(Thing) /\ Len(<<>>) = 0 /\ <<f>> \in Seq(Thing) /\ Len(<<f>>) = 1
  BY EmptySeq DEF Thing
<1>2. D \in Queues
  BY <1>1 DEF Out, Queues
<1>3. ASSUME NEW l \in Loc, NEW i \in 1..Len(D[l])
      PROVE  /\ i = 1 /\ D[l][i] = f /\ l[2][1] \in P /\ l[2][1] \notin Seat
             /\ l = <<"wire", <<l[2][1], s>>>>
             /\ Entry(l, D[l][i]) \subseteq {f.id} \X Far(s, l[2][1])
  <2>1. l[1] = "wire" /\ l[2][2] = s /\ l[2][1] \in P /\ D[l] = <<f>>
    <3>1. ~(l[1] = "wire" /\ l[2][2] = s /\ l[2][1] \in P) => i \in 1..0
      BY <1>1, <1>3 DEF Out
    <3>2. i \notin 1..0
      OBVIOUS
    <3> QED BY <3>1, <3>2 DEF Out
  <2>2. i = 1 /\ D[l][i] = f
    BY <1>1, <1>3, <2>1
  <2>3. PICK e \in Ends : l = <<"wire", e>>
    BY <2>1, LocFacts
  <2>4. e = <<e[1], e[2]>> /\ e[2] = s /\ e[1] \in Switch
    BY <2>1, <2>3 DEF Ends
  <2>5. Entry(<<"wire", e>>, f) \subseteq {f.id} \X Far(s, e[1])
    BY <2>4, WireEntry
  <2>6. e[1] \notin Seat
    BY <2>4, TopologyAssumption
  <2> QED BY <2>1, <2>2, <2>3, <2>4, <2>5, <2>6
<1>4. ASSUME NEW q \in P
      PROVE  {f.id} \X Far(s, q) \subseteq Claim(s, in, out, f)
  BY DEF Claim
<1>5. \A q, r \in P : q # r => Far(s, q) \cap Far(s, r) = {}
  BY FarApart
<1> HIDE DEF D, P
<1>6. Apart(D)
  <2>1. ASSUME NEW l \in Loc, NEW m \in Loc, NEW i \in 1..Len(D[l]), NEW j \in 1..Len(D[m]),
               <<l, i>> # <<m, j>>
        PROVE  Entry(l, D[l][i]) \cap Entry(m, D[m][j]) = {}
    <3>1. l[2][1] # m[2][1]
      BY <1>3, <2>1
    <3>2. Far(s, l[2][1]) \cap Far(s, m[2][1]) = {}
      BY <1>3, <1>5, <3>1
    <3>3. /\ Entry(l, D[l][i]) \subseteq {f.id} \X Far(s, l[2][1])
          /\ Entry(m, D[m][j]) \subseteq {f.id} \X Far(s, m[2][1])
      BY <1>3
    <3> QED BY <3>2, <3>3
  <2> QED BY <2>1 DEF Apart
<1>7. Within(D, Claim(s, in, out, f))
  BY <1>3, <1>4 DEF Within
<1>8. Avoids(D, {f.id} \X (P \cap Seat))
  <2>1. ASSUME NEW l \in Loc, NEW i \in 1..Len(D[l])
        PROVE  Entry(l, D[l][i]) \cap ({f.id} \X (P \cap Seat)) = {}
    <3>1. /\ l[2][1] \in P /\ l[2][1] \notin Seat
          /\ Entry(l, D[l][i]) \subseteq {f.id} \X Far(s, l[2][1])
      BY <1>3
    <3>2. ASSUME NEW p \in P \cap Seat PROVE p \notin Far(s, l[2][1])
      <4>1. Far(s, p) = {p}
        BY DEF Far
      <4>2. Far(s, p) \cap Far(s, l[2][1]) = {}
        BY <1>5, <3>1
      <4> QED BY <4>1, <4>2
    <3> QED BY <3>1, <3>2
  <2> QED BY <2>1 DEF Avoids
<1>9. {f.id} \X (P \cap Seat) \subseteq Claim(s, in, out, f)
  <2>1. \A p \in P \cap Seat : Far(s, p) = {p}
    BY DEF Far
  <2> QED BY <1>4, <2>1
<1> QED BY <1>2, <1>6, <1>7, <1>8, <1>9 DEF D, P, Near

-----------------------------------------------------------------------------
(* Each step delivers nothing twice *)

\* What hosts take out of what switch s puts out.
LEMMA InboxesFacts ==
  ASSUME Types, inbox \in [Host -> Seq(Frame)], AtMostOnce, seat' = seat,
         NEW s, NEW in, NEW out, NEW f \in Frame, inbox' = Inboxes(s, in, out, f),
         Near(s, in, out, f) \cap Taken = {}
  PROVE  /\ inbox' \in [Host -> Seq(Frame)] /\ AtMostOnce'
         /\ Taken' \subseteq Taken \cup Near(s, in, out, f)
<1> DEFINE Y == Near(s, in, out, f)
<1>1. ASSUME NEW h \in Host
      PROVE  \/ inbox'[h] = inbox[h]
             \/ inbox'[h] = Append(inbox[h], f) /\ <<f.id, seat[h]>> \in Y
  <2>1. seat[h] \in Seat
    BY DEF Types
  <2> QED BY <2>1 DEF Inboxes, Near
<1> HIDE DEF Y
<1>2. ASSUME NEW h \in Host
      PROVE  /\ inbox[h] \in Seq(Frame) /\ Len(inbox[h]) \in Nat
             /\ Append(inbox[h], f) \in Seq(Frame)
             /\ Len(Append(inbox[h], f)) = Len(inbox[h]) + 1
             /\ \A i \in 1..Len(inbox[h]) : Append(inbox[h], f)[i] = inbox[h][i]
             /\ Append(inbox[h], f)[Len(inbox[h]) + 1] = f
  BY AppendProperties, LenProperties
<1>3. inbox' \in [Host -> Seq(Frame)]
  <2>1. \A h \in Host : inbox'[h] \in Seq(Frame)
    BY <1>1, <1>2
  <2>2. inbox' = [h \in Host |-> inbox'[h]]
    BY DEF Inboxes
  <2> QED BY <2>1, <2>2
<1>4. \A h \in Host : \A i \in 1..Len(inbox[h]) : <<inbox[h][i].id, seat[h]>> \in Taken
  BY DEF Taken
<1>5. ASSUME NEW h \in Host, NEW i \in 1..Len(inbox'[h])
      PROVE  \/ i \in 1..Len(inbox[h]) /\ inbox'[h][i] = inbox[h][i]
             \/ i = Len(inbox[h]) + 1 /\ inbox'[h][i] = f /\ <<f.id, seat[h]>> \in Y
  <2>1. CASE inbox'[h] = inbox[h]
    BY <2>1
  <2>2. CASE inbox'[h] = Append(inbox[h], f) /\ <<f.id, seat[h]>> \in Y
    <3>1. i \in 1..(Len(inbox[h]) + 1) /\ Len(inbox[h]) \in Nat
      BY <1>2, <2>2
    <3>2. i \in 1..Len(inbox[h]) \/ i = Len(inbox[h]) + 1
      BY <3>1
    <3> QED BY <1>2, <2>2, <3>2
  <2> QED BY <1>1, <2>1, <2>2
<1>6. AtMostOnce'
  <2>1. ASSUME NEW h \in Host, NEW i \in 1..Len(inbox'[h]), NEW j \in 1..Len(inbox'[h]), i # j
        PROVE  inbox'[h][i].id # inbox'[h][j].id
    <3>1. DOMAIN inbox[h] = 1..Len(inbox[h])
      BY <1>2, LenProperties
    <3>2. CASE i \in 1..Len(inbox[h]) /\ inbox'[h][i] = inbox[h][i]
               /\ j \in 1..Len(inbox[h]) /\ inbox'[h][j] = inbox[h][j]
      BY <2>1, <3>1, <3>2 DEF AtMostOnce
    <3>3. CASE i = Len(inbox[h]) + 1 /\ j = Len(inbox[h]) + 1
      BY <2>1, <3>3
    <3>4. CASE /\ i \in 1..Len(inbox[h]) /\ inbox'[h][i] = inbox[h][i]
               /\ inbox'[h][j] = f /\ <<f.id, seat[h]>> \in Y
      BY <1>4, <3>4 DEF Y
    <3>5. CASE /\ j \in 1..Len(inbox[h]) /\ inbox'[h][j] = inbox[h][j]
               /\ inbox'[h][i] = f /\ <<f.id, seat[h]>> \in Y
      BY <1>4, <3>5 DEF Y
    <3> QED BY <1>5, <3>2, <3>3, <3>4, <3>5
  <2>2. \A h \in Host : DOMAIN inbox'[h] = 1..Len(inbox'[h])
    BY <1>3, LenProperties
  <2>3. \A h \in Host : \A i, j \in DOMAIN inbox'[h] :
          i # j => inbox'[h][i].id # inbox'[h][j].id
    BY <2>1, <2>2
  <2> QED BY <2>3, Zenon DEF AtMostOnce
<1>7. Taken' \subseteq Taken \cup Y
  <2>1. ASSUME NEW h \in Host, NEW i \in 1..Len(inbox'[h])
        PROVE  <<inbox'[h][i].id, seat[h]>> \in Taken \cup Y
    BY <1>4, <1>5
  <2>2. ASSUME NEW x \in Taken' PROVE x \in Taken \cup Y
    <3>1. PICK h \in Host : x \in {<<inbox'[h][i].id, seat[h]>> : i \in 1..Len(inbox'[h])}
      BY <2>2 DEF Taken
    <3> QED BY <2>1, <3>1
  <2> QED BY <2>2
<1> QED BY <1>3, <1>6, <1>7 DEF Y

\* Fewer copies and fewer takers are no harm.
LEMMA AvoidsLess ==
  ASSUME NEW q, NEW X, NEW Z, Avoids(q, X), Z \subseteq X
  PROVE  Avoids(q, Z)
BY DEF Avoids

\* A step that takes from queue k, hands over Y and puts D at the ends.
LEMMA OnceStep ==
  ASSUME Once, Types', OwnPorts', inbox' \in [Host -> Seq(Frame)], AtMostOnce',
         sent' = sent,
         NEW k \in Loc, Queue[k] # <<>>,
         NEW D \in Queues, Apart(D), Within(D, Entry(k, Head(Queue[k]))),
         NEW Y, Y \subseteq Entry(k, Head(Queue[k])), Avoids(D, Y),
         Taken' \subseteq Taken \cup Y,
         Queue' = Joined(Shorter(Queue, k), D)
  PROVE  Once'
<1> DEFINE X == Entry(k, Head(Queue[k]))
           r == Shorter(Queue, k)
<1>1. Queue \in Queues /\ Apart(Queue) /\ Avoids(Queue, Taken) /\ Within(Queue, Old)
  BY QueueType DEF Once
<1>2. /\ r \in Queues /\ Apart(r) /\ Avoids(r, X)
      /\ Avoids(r, Taken) /\ Within(r, Old) /\ X \subseteq Old
  BY <1>1, TakeFacts
<1>3. /\ Apart(Queue') /\ Avoids(Queue', Taken \cup Y) /\ Within(Queue', Old) /\ Y \subseteq Old
  <2> HIDE DEF X, r
  <2>1. Within(D, X) /\ Y \subseteq X /\ Queue' = Joined(r, D)
    BY DEF X, r
  <2>2. Avoids(r, Taken \cup Y) /\ Within(D, Old)
    BY <1>2, <2>1 DEF Avoids, Within
  <2>3. Avoids(D, Taken)
    <3>1. X \cap Taken = {}
      BY <1>1, TakeFacts DEF X
    <3> QED BY <2>1, <3>1 DEF Avoids, Within
  <2>4. Avoids(D, Taken \cup Y)
    BY <2>3 DEF Avoids
  <2>5. Apart(Joined(r, D))
    BY <1>2, <2>1, JoinedFacts
  <2>6. Avoids(Joined(r, D), Taken \cup Y)
    BY <1>2, <2>2, <2>4, JoinedFacts
  <2>7. Within(Joined(r, D), Old)
    BY <1>2, <2>2, JoinedFacts
  <2> QED BY <1>2, <2>1, <2>5, <2>6, <2>7
<1>4. Old' = Old
  BY DEF Old
<1>5. Avoids(Queue', Taken')
  BY <1>3, AvoidsLess
<1>6. Apart(Queue)' /\ Avoids(Queue, Taken)' /\ Within(Queue, Old)'
  BY <1>3, <1>4, <1>5
<1>7. Taken' \subseteq Old'
  BY <1>3, <1>4 DEF Once
<1> QED BY <1>6, <1>7 DEF Once

\* More is put out by all ports than by some.
LEMMA ClaimLess ==
  ASSUME NEW s \in Switch, NEW in, NEW out \in Ports(s) \cup {All}, NEW f
  PROVE  /\ OutPorts(s, in, out) \subseteq Ports(s)
         /\ Claim(s, in, out, f) \subseteq Claim(s, in, All, f)
<1>1. /\ OutPorts(s, in, out) \subseteq Ports(s)
      /\ OutPorts(s, in, out) \subseteq OutPorts(s, in, All)
  BY DEF OutPorts
<1> QED BY <1>1 DEF Claim

\* Switch s puts out f, which was at the front of queue k; w is what the wires are before that.
LEMMA PutOut ==
  ASSUME Once, Types', OwnPorts', seat' = seat, sent' = sent,
         NEW s \in Switch, NEW in, NEW out \in Ports(s) \cup {All}, NEW f \in Frame,
         NEW k \in Loc, Queue[k] # <<>>,
         Claim(s, in, out, f) \subseteq Entry(k, Head(Queue[k])),
         NEW w, wire' = Wires(w, s, in, out, f), inbox' = Inboxes(s, in, out, f),
         w \in [Ends -> Seq(Frame)],
         \A e \in Ends : w[e] = Shorter(Queue, k)[<<"wire", e>>],
         \A t \in Switch : upcalls'[t] = Shorter(Queue, k)[<<"up", t>>],
         \A t \in Switch : commands'[t] = Shorter(Queue, k)[<<"cmd", t>>]
  PROVE  Once'
<1> DEFINE X == Entry(k, Head(Queue[k]))
           r == Shorter(Queue, k)
           D == Out(s, in, out, f)
           Y == Near(s, in, out, f)
<1>1. Queue \in Queues /\ Apart(Queue) /\ Avoids(Queue, Taken)
  BY QueueType DEF Once
<1>2. r \in Queues /\ X \cap Taken = {}
  BY <1>1, TakeFacts
<1>3. OutPorts(s, in, out) \subseteq Ports(s)
  BY ClaimLess
<1>4. /\ D \in Queues /\ Apart(D) /\ Within(D, Claim(s, in, out, f)) /\ Avoids(D, Y)
      /\ Y \subseteq Claim(s, in, out, f)
  BY <1>3, OutFacts
<1>5. Within(D, X) /\ Y \subseteq X
  BY <1>4 DEF Within
<1>6. Y \cap Taken = {}
  BY <1>2, <1>5
<1>7. inbox' \in [Host -> Seq(Frame)] /\ AtMostOnce' /\ Taken' \subseteq Taken \cup Y
  BY <1>6, InboxesFacts DEF Once
<1>8. Queue' \in Queues
  BY NextQueueType
<1>9. \A l \in Loc : \/ D[l] = <<>> /\ Queue'[l] = r[l]
                     \/ \E x \in Thing : D[l] = <<x>> /\ Queue'[l] = Append(r[l], x)
                     \/ Queue'[l] = r[l] \o D[l]
  <2>1. ASSUME NEW e \in Ends
        PROVE  \/ D[<<"wire", e>>] = <<>> /\ Queue'[<<"wire", e>>] = r[<<"wire", e>>]
               \/ /\ D[<<"wire", e>>] = <<f>>
                  /\ Queue'[<<"wire", e>>] = Append(r[<<"wire", e>>], f)
    <3>1. D[<<"wire", e>>] =
            IF e[2] = s /\ e[1] \in OutPorts(s, in, out) THEN <<f>> ELSE <<>>
      BY LocFacts DEF Out
    <3>2. wire'[e] = IF e[2] = s /\ e[1] \in OutPorts(s, in, out) THEN Append(w[e], f) ELSE w[e]
      BY DEF Wires
    <3>3. Queue'[<<"wire", e>>] = wire'[e] /\ w[e] = r[<<"wire", e>>]
      BY NextQueueFacts
    <3> HIDE DEF D, r
    <3> QED BY <3>1, <3>2, <3>3
  <2>2. ASSUME NEW t \in Switch, NEW c \in {"up", "cmd"}
        PROVE  D[<<c, t>>] = <<>> /\ Queue'[<<c, t>>] = r[<<c, t>>]
    <3>1. <<c, t>> \in Loc /\ <<c, t>>[1] # "wire"
      BY LocFacts
    <3>2. D[<<c, t>>] = <<>>
      BY <3>1 DEF Out
    <3>3. Queue'[<<c, t>>] = r[<<c, t>>]
      <4>1. CASE c = "up" BY <4>1, NextQueueFacts
      <4>2. CASE c = "cmd" BY <4>2, NextQueueFacts
      <4> QED BY <2>2, <4>1, <4>2
    <3> QED BY <3>2, <3>3
  <2>3. f \in Thing
    BY DEF Thing
  <2> HIDE DEF D, r
  <2>4. ASSUME NEW l \in Loc
        PROVE  \/ D[l] = <<>> /\ Queue'[l] = r[l]
               \/ D[l] = <<f>> /\ Queue'[l] = Append(r[l], f)
    <3>1. CASE \E e \in Ends : l = <<"wire", e>>
      BY <2>1, <3>1
    <3>2. CASE \E t \in Switch : l = <<"up", t>> \/ l = <<"cmd", t>>
      BY <2>2, <3>2
    <3> QED BY <3>1, <3>2, LocFacts
  <2> QED BY <2>3, <2>4
<1> HIDE DEF D, r, X, Y
<1>10. Queue' = Joined(r, D)
  BY <1>2, <1>4, <1>8, <1>9, IsJoined
<1> QED BY <1>4, <1>5, <1>7, <1>10, OnceStep DEF X, r

\* A frame goes to the controller, or out.
LEMMA ArriveOnce ==
  ASSUME Once, NEW s \in Switch, NEW p \in Port, Arrive(s, p)
  PROVE  Once'
<1> DEFINE k == <<"wire", <<s, p>>>>
           f == Head(wire[<<s, p>>])
           rest == [wire EXCEPT ![<<s, p>>] = Tail(@)]
           r == Shorter(Queue, k)
<1>1. Types /\ Types' /\ UNCHANGED <<seat, macports, flows, commands, sent>>
  BY ArriveType DEF Once, Arrive
<1>2. <<s, p>> \in Ends /\ wire[<<s, p>>] # <<>> /\ wire[<<s, p>>] \in Seq(Frame)
  BY <1>1 DEF Arrive, Types
<1>3. k \in Loc /\ Queue[k] = wire[<<s, p>>] /\ Queue[k] # <<>> /\ p \in Ports(s)
  BY <1>2, LocFacts, QueueFacts DEF Ends
<1>4. f \in Frame /\ Tail(wire[<<s, p>>]) \in Seq(Frame)
  BY <1>2, First
<1>5. Entry(k, Head(Queue[k])) = Claim(s, p, All, f)
  BY <1>3 DEF Entry
<1>6. rest \in [Ends -> Seq(Frame)]
  BY <1>1, <1>4 DEF Types
<1>7. Queue \in Queues /\ Apart(Queue)
  BY QueueType DEF Once
<1>8. r \in Queues /\ \A l \in Loc : r[l] = IF l = k THEN Tail(Queue[l]) ELSE Queue[l]
  BY <1>3, <1>7, TakeFacts
<1>9. \A e \in Ends : rest[e] = r[<<"wire", e>>]
  <2>1. ASSUME NEW e \in Ends PROVE rest[e] = r[<<"wire", e>>]
    <3>1. r[<<"wire", e>>] = IF <<"wire", e>> = k THEN Tail(wire[e]) ELSE wire[e]
      BY <1>8, LocFacts, QueueFacts
    <3>2. <<"wire", e>> = k <=> e = <<s, p>>
      OBVIOUS
    <3> HIDE DEF r, k
    <3> QED BY <1>1, <3>1, <3>2 DEF Types
  <2> QED BY <2>1
<1>10. \A t \in Switch : r[<<"up", t>>] = upcalls[t] /\ r[<<"cmd", t>>] = commands[t]
  BY <1>8, LocFacts, QueueFacts
<1>11. CASE Match(s, f) = None
  <2> DEFINE u == [frame |-> f, in |-> p]
             D == Into(<<"up", s>>, <<u>>)
  <2>1. /\ wire' = rest /\ inbox' = inbox
        /\ upcalls' = [upcalls EXCEPT ![s] = Append(@, u)]
    BY <1>11 DEF Arrive
  <2>2. u \in Upcall /\ u \in Thing /\ u.frame = f /\ u.in = p
    BY <1>4 DEF Upcall, Thing
  <2>3. Entry(<<"up", s>>, u) = Claim(s, p, All, f)
    BY <2>2 DEF Entry
  <2> HIDE DEF u
  <2>4. OwnPorts'
    <3>1. ASSUME NEW t \in Switch, NEW i \in 1..Len(upcalls'[t])
          PROVE  upcalls'[t][i].in \in Ports(t)
      <4>1. upcalls[s] \in Seq(Upcall)
        BY <1>1 DEF Types
      <4>2. CASE t = s
        <5>1. /\ upcalls'[s] = Append(upcalls[s], u) /\ Len(upcalls[s]) \in Nat
              /\ Len(Append(upcalls[s], u)) = Len(upcalls[s]) + 1
              /\ \A j \in 1..Len(upcalls[s]) : Append(upcalls[s], u)[j] = upcalls[s][j]
              /\ Append(upcalls[s], u)[Len(upcalls[s]) + 1] = u
          BY <1>1, <2>1, <2>2, <4>1, AppendProperties, LenProperties DEF Types
        <5>2. i \in 1..Len(upcalls[s]) \/ i = Len(upcalls[s]) + 1
          BY <4>2, <5>1
        <5> QED BY <1>3, <2>2, <4>2, <5>1, <5>2 DEF Once, OwnPorts
      <4>3. CASE t # s
        BY <1>1, <2>1, <3>1, <4>3 DEF Once, OwnPorts, Types
      <4> QED BY <4>2, <4>3
    <3> QED BY <1>1, <3>1 DEF Once, OwnPorts
  <2>5. /\ D \in Queues /\ Apart(D) /\ Within(D, Claim(s, p, All, f)) /\ Avoids(D, {})
    <3>1. <<u>> \in Seq(Thing) /\ Len(<<u>>) = 1 /\ <<u>>[1] = u
      BY <2>2
    <3>2. \A i \in 1..1 : i = 1
      OBVIOUS
    <3> QED BY <2>3, <3>1, <3>2, LocFacts, IntoFacts
  <2>6. Queue' \in Queues
    BY <1>1, NextQueueType
  <2>7. \A l \in Loc : \/ D[l] = <<>> /\ Queue'[l] = r[l]
                       \/ \E x \in Thing : D[l] = <<x>> /\ Queue'[l] = Append(r[l], x)
                       \/ Queue'[l] = r[l] \o D[l]
    <3>1. \A e \in Ends : D[<<"wire", e>>] = <<>> /\ Queue'[<<"wire", e>>] = r[<<"wire", e>>]
      <4>1. \A e \in Ends : <<"wire", e>> # <<"up", s>>
        OBVIOUS
      <4> QED BY <1>9, <2>1, <4>1, LocFacts, NextQueueFacts DEF Into
    <3>2. \A t \in Switch : /\ D[<<"cmd", t>>] = <<>>
                            /\ Queue'[<<"cmd", t>>] = r[<<"cmd", t>>]
      <4>1. \A t \in Switch : <<"cmd", t>> # <<"up", s>>
        OBVIOUS
      <4> QED BY <1>1, <1>10, <4>1, LocFacts, NextQueueFacts DEF Into
    <3>3. ASSUME NEW t \in Switch
          PROVE  \/ D[<<"up", t>>] = <<>> /\ Queue'[<<"up", t>>] = r[<<"up", t>>]
                 \/ D[<<"up", t>>] = <<u>> /\ Queue'[<<"up", t>>] = Append(r[<<"up", t>>], u)
      <4>1. D[<<"up", t>>] = IF t = s THEN <<u>> ELSE <<>>
        BY LocFacts DEF Into
      <4>2. upcalls'[t] = IF t = s THEN Append(upcalls[t], u) ELSE upcalls[t]
        BY <1>1, <2>1 DEF Types
      <4> HIDE DEF D, r
      <4> QED BY <1>10, <4>1, <4>2, NextQueueFacts
    <3> HIDE DEF D, r
    <3>4. ASSUME NEW l \in Loc
          PROVE  \/ D[l] = <<>> /\ Queue'[l] = r[l]
                 \/ D[l] = <<u>> /\ Queue'[l] = Append(r[l], u)
      BY <3>1, <3>2, <3>3, LocFacts
    <3> QED BY <2>2, <3>4
  <2> HIDE DEF D, r, k, f
  <2>8. Queue' = Joined(r, D)
    BY <1>8, <2>5, <2>6, <2>7, IsJoined
  <2>9. inbox' \in [Host -> Seq(Frame)] /\ AtMostOnce' /\ Taken' \subseteq Taken \cup {}
    BY <1>1, <2>1 DEF Once, AtMostOnce, Taken
  <2>10. Queue' = Joined(Shorter(Queue, k), D)
    BY <2>8 DEF r
  <2>11. Within(D, Entry(k, Head(Queue[k])))
    BY <1>5, <2>5
  <2>12. {} \subseteq Entry(k, Head(Queue[k]))
    OBVIOUS
  <2> QED BY <1>1, <1>3, <2>4, <2>5, <2>9, <2>10, <2>11, <2>12, OnceStep DEF Once
<1>12. CASE Match(s, f) # None
  <2> DEFINE out == Match(s, f)
  <2>1. out \in Ports(s) \cup {All}
    <3>1. f.dst # All => <<f.src, f.dst>> \in Pair
      BY <1>4 DEF Frame, Pair
    <3> QED BY <1>12, <3>1 DEF Match, Once, OwnPorts
  <2>2. /\ wire' = Wires(rest, s, p, out, f) /\ upcalls' = upcalls
        /\ inbox' = Inboxes(s, p, out, f)
    BY <1>12 DEF Arrive
  <2> HIDE DEF out
  <2>3. Claim(s, p, out, f) \subseteq Entry(k, Head(Queue[k]))
    BY <1>5, <2>1, ClaimLess
  <2>4. OwnPorts'
    BY <1>1, <2>2 DEF Once, OwnPorts
  <2>5. /\ \A t \in Switch : upcalls'[t] = r[<<"up", t>>]
        /\ \A t \in Switch : commands'[t] = r[<<"cmd", t>>]
    BY <1>1, <1>10, <2>2
  <2> HIDE DEF k, f, rest
  <2> QED BY <1>1, <1>3, <1>4, <1>6, <1>9, <2>1, <2>2, <2>3, <2>4, <2>5, PutOut
<1> QED BY <1>11, <1>12

\* A frame that no host has sent before.
LEMMA SendOnce ==
  ASSUME Once, NEW h \in Host, NEW d \in Host \cup {All}, Send(h, d)
  PROVE  Once'
<1> DEFINE n == Len(sent) + 1
           f == [src |-> h, dst |-> d, id |-> n]
           e == <<Home[seat[h]], seat[h]>>
           k == <<"wire", e>>
           D == Into(k, <<f>>)
           X == {n} \X Seat
<1>1. Types /\ Types' /\ UNCHANGED <<seat, macports, flows, upcalls, commands, inbox>>
  BY SendType DEF Once, Send
<1>2. /\ sent' = Append(sent, f) /\ sent \in Seq(Frame)
      /\ wire' = [wire EXCEPT ![e] = Append(@, f)]
      /\ Len(sent) \in Nat /\ Len(sent) < MaxFrames /\ MaxFrames \in Nat
  BY <1>1, LenProperties, BoundsAssumption DEF Send, Types
<1>3. f \in Frame /\ f.id = n /\ f \in Thing
  BY <1>2 DEF Frame, Thing
<1>4. e \in Ends /\ k \in Loc
  <2>1. seat[h] \in Seat /\ seat[h] \in Port /\ Home[seat[h]] \in Switch
    BY <1>1, TopologyAssumption DEF Types, Port
  <2> QED BY <2>1, LocFacts DEF Ends, Ports
<1>5. Len(sent') = n
  BY <1>2, <1>3, AppendProperties
<1>6. Old \subseteq Old' /\ X \subseteq Old' /\ X \cap Old = {}
  BY <1>2, <1>5 DEF Old
<1>7. Entry(k, f) \subseteq X
  <2>1. \A s, q : Far(s, q) \subseteq Seat
    BY DEF Far
  <2>2. Entry(k, f) = Claim(e[1], e[2], All, f)
    BY DEF Entry
  <2> HIDE DEF f, e, k, n
  <2> QED BY <1>3, <2>1, <2>2 DEF Claim
<1>8. /\ D \in Queues /\ Apart(D) /\ Within(D, X)
  <2>1. <<f>> \in Seq(Thing) /\ Len(<<f>>) = 1 /\ <<f>>[1] = f
    BY <1>3
  <2>2. \A i \in 1..1 : i = 1
    OBVIOUS
  <2> HIDE DEF f, k, X
  <2> QED BY <1>4, <1>7, <2>1, <2>2, IntoFacts
<1>9. Queue \in Queues /\ Queue' \in Queues
  BY <1>1, QueueType, NextQueueType
<1>10. \A l \in Loc : \/ D[l] = <<>> /\ Queue'[l] = Queue[l]
                      \/ \E x \in Thing : D[l] = <<x>> /\ Queue'[l] = Append(Queue[l], x)
                      \/ Queue'[l] = Queue[l] \o D[l]
  <2>1. ASSUME NEW g \in Ends
        PROVE  \/ D[<<"wire", g>>] = <<>> /\ Queue'[<<"wire", g>>] = Queue[<<"wire", g>>]
               \/ /\ D[<<"wire", g>>] = <<f>>
                  /\ Queue'[<<"wire", g>>] = Append(Queue[<<"wire", g>>], f)
    <3>1. D[<<"wire", g>>] = IF g = e THEN <<f>> ELSE <<>>
      BY LocFacts DEF Into
    <3>2. wire'[g] = IF g = e THEN Append(wire[g], f) ELSE wire[g]
      BY <1>1, <1>2 DEF Types
    <3> HIDE DEF D, f, e
    <3> QED BY <3>1, <3>2, QueueFacts, NextQueueFacts
  <2>2. \A t \in Switch : /\ D[<<"up", t>>] = <<>> /\ D[<<"cmd", t>>] = <<>>
                          /\ Queue'[<<"up", t>>] = Queue[<<"up", t>>]
                          /\ Queue'[<<"cmd", t>>] = Queue[<<"cmd", t>>]
    <3>1. \A t \in Switch : <<"up", t>> # k /\ <<"cmd", t>> # k
      OBVIOUS
    <3> HIDE DEF k, f
    <3>2. \A t \in Switch : D[<<"up", t>>] = <<>> /\ D[<<"cmd", t>>] = <<>>
      BY <3>1, LocFacts DEF Into
    <3>3. \A t \in Switch : /\ Queue'[<<"up", t>>] = Queue[<<"up", t>>]
                            /\ Queue'[<<"cmd", t>>] = Queue[<<"cmd", t>>]
      BY <1>1, QueueFacts, NextQueueFacts
    <3> QED BY <3>2, <3>3
  <2> HIDE DEF D, f
  <2>3. ASSUME NEW l \in Loc
        PROVE  \/ D[l] = <<>> /\ Queue'[l] = Queue[l]
               \/ D[l] = <<f>> /\ Queue'[l] = Append(Queue[l], f)
    <3>1. CASE \E g \in Ends : l = <<"wire", g>>
      BY <2>1, <3>1
    <3>2. CASE \E t \in Switch : l = <<"up", t>> \/ l = <<"cmd", t>>
      BY <2>2, <3>2
    <3> QED BY <3>1, <3>2, LocFacts
  <2> QED BY <1>3, <2>3
<1> HIDE DEF D, X, k, e, f, n
<1>11. Queue' = Joined(Queue, D)
  BY <1>8, <1>9, <1>10, IsJoined
<1>12. Apart(Queue) /\ Avoids(Queue, Taken) /\ Within(Queue, Old) /\ Taken \subseteq Old
  BY DEF Once
<1>13. /\ Avoids(Queue, X) /\ Avoids(D, Taken) /\ Within(Queue, Old') /\ Within(D, Old')
  BY <1>6, <1>8, <1>12 DEF Avoids, Within
<1>14. Apart(Joined(Queue, D))
  BY <1>8, <1>9, <1>12, <1>13, JoinedFacts
<1>15. Avoids(Joined(Queue, D), Taken)
  BY <1>8, <1>9, <1>12, <1>13, JoinedFacts
<1>16. Within(Joined(Queue, D), Old')
  BY <1>8, <1>9, <1>13, JoinedFacts
<1>17. Taken' = Taken
  BY <1>1 DEF Taken
<1>18. Apart(Queue)' /\ Avoids(Queue, Taken)' /\ Within(Queue, Old)' /\ Taken' \subseteq Old'
  BY <1>6, <1>11, <1>12, <1>14, <1>15, <1>16, <1>17
<1>19. OwnPorts' /\ AtMostOnce' /\ inbox' \in [Host -> Seq(Frame)]
  BY <1>1 DEF Once, OwnPorts, AtMostOnce
<1> QED BY <1>1, <1>18, <1>19 DEF Once

\* What the controller answers puts the frame out once.
LEMMA AnswerEntries ==
  ASSUME NEW s \in Switch, NEW m \in [Host -> Ports(s) \cup {None}], NEW u \in Upcall,
         m[u.frame.src] # None, NEW i \in 1..Len(Answer(m, u))
  PROVE  /\ Answer(m, u)[i].out \in Ports(s) \cup {All}
         /\ Entry(<<"cmd", s>>, Answer(m, u)[i]) \subseteq Entry(<<"up", s>>, u)
         /\ i # Len(Answer(m, u)) => Entry(<<"cmd", s>>, Answer(m, u)[i]) = {}
<1>1. u.frame \in Frame /\ u.frame.src \in Host /\ u.frame.dst \in Host \cup {All}
  BY DEF Upcall, Frame
<1>2. Entry(<<"up", s>>, u) = Claim(s, u.in, All, u.frame)
  BY DEF Entry
<1>3. ASSUME NEW out \in Ports(s) \cup {All}
      PROVE  /\ PacketOut(u, out).out = out
             /\ Entry(<<"cmd", s>>, PacketOut(u, out)) \subseteq Entry(<<"up", s>>, u)
  <2>1. Entry(<<"cmd", s>>, PacketOut(u, out)) = Claim(s, u.in, out, u.frame)
    BY DEF Entry, PacketOut
  <2>2. PacketOut(u, out).out = out
    BY DEF PacketOut
  <2> QED BY <1>2, <2>1, <2>2, ClaimLess
<1>4. CASE ~Knows(m, u.frame.dst) \/ ~AddFlows
  <2>1. PICK out \in Ports(s) \cup {All} : Answer(m, u) = <<PacketOut(u, out)>>
    BY <1>1, <1>4 DEF Answer, Knows
  <2>2. Len(Answer(m, u)) = 1 /\ Answer(m, u)[1] = PacketOut(u, out)
    BY <2>1
  <2>3. i = 1
    BY <2>2
  <2> QED BY <1>3, <2>2, <2>3
<1>5. CASE Knows(m, u.frame.dst) /\ AddFlows
  <2>1. /\ u.frame.dst \in Host /\ m[u.frame.dst] \in Ports(s) /\ m[u.frame.src] \in Ports(s)
    BY <1>1, <1>5 DEF Knows
  <2>2. ASSUME NEW a, NEW b, NEW out
        PROVE  FlowMod(a, b, out).out = out /\ Entry(<<"cmd", s>>, FlowMod(a, b, out)) = {}
    BY DEF Entry, FlowMod
  <2>3. /\ Answer(m, u) = <<FlowMod(u.frame.src, u.frame.dst, m[u.frame.dst]),
                            FlowMod(u.frame.dst, u.frame.src, m[u.frame.src]),
                            PacketOut(u, m[u.frame.dst])>>
    BY <1>5, <2>1 DEF Answer, BothFlows, Knows
  <2>4. /\ Len(Answer(m, u)) = 3
        /\ Answer(m, u)[1] = FlowMod(u.frame.src, u.frame.dst, m[u.frame.dst])
        /\ Answer(m, u)[2] = FlowMod(u.frame.dst, u.frame.src, m[u.frame.src])
        /\ Answer(m, u)[3] = PacketOut(u, m[u.frame.dst])
    BY <2>3
  <2>5. i = 1 \/ i = 2 \/ i = 3
    BY <2>4
  <2>6. CASE i = 1
    BY <2>1, <2>2, <2>4, <2>6
  <2>7. CASE i = 2
    BY <2>1, <2>2, <2>4, <2>7
  <2>8. CASE i = 3
    BY <1>3, <2>1, <2>4, <2>8
  <2> QED BY <2>5, <2>6, <2>7, <2>8
<1> QED BY <1>4, <1>5

\* An upcall that is answered.
LEMMA PacketInOnce ==
  ASSUME Once, NEW s \in Switch, PacketIn(s)
  PROVE  Once'
<1> DEFINE u == Head(upcalls[s])
           m == LearnPort(macports[s], u.frame.src, u.in)
           x == Answer(m, u)
           k == <<"up", s>>
           c == <<"cmd", s>>
           D == Into(c, x)
           r == Shorter(Queue, k)
<1>1. Types /\ Types' /\ UNCHANGED <<seat, flows, wire, inbox, sent>>
  BY PacketInType DEF Once, PacketIn
<1>2. upcalls[s] # <<>> /\ upcalls[s] \in Seq(Upcall)
  BY <1>1 DEF PacketIn, Types
<1>3. /\ u \in Upcall /\ u = upcalls[s][1] /\ Tail(upcalls[s]) \in Seq(Upcall)
      /\ 1 \in 1..Len(upcalls[s])
      /\ Len(Tail(upcalls[s])) \in Nat
      /\ \A i \in 1..Len(Tail(upcalls[s])) :
           i + 1 \in 1..Len(upcalls[s]) /\ Tail(upcalls[s])[i] = upcalls[s][i + 1]
  BY <1>2, First
<1>4. u.frame.src \in Host /\ u.in \in Port /\ u.in \in Ports(s)
  BY <1>3 DEF Upcall, Frame, Once, OwnPorts
<1>5. macports[s] \in [Host -> Port \cup {None}] /\ macports[s] \in [Host -> Ports(s) \cup {None}]
  BY <1>1 DEF Types, Once, OwnPorts
<1>6. /\ m \in [Host -> Port \cup {None}] /\ m[u.frame.src] # None
      /\ m \in [Host -> Ports(s) \cup {None}]
  BY <1>4, <1>5, LearnFacts DEF LearnPort
<1>7. /\ macports' = [macports EXCEPT ![s] = m]
      /\ commands' = [commands EXCEPT ![s] = @ \o x]
      /\ upcalls' = [upcalls EXCEPT ![s] = Tail(@)]
  <2>1. /\ macports' = [macports EXCEPT ![s] = m]
        /\ commands' = [commands EXCEPT ![s] = @ \o Answer(macports'[s], u)]
        /\ upcalls' = [upcalls EXCEPT ![s] = Tail(@)]
    BY DEF PacketIn
  <2>2. macports'[s] = m
    BY <1>1, <2>1 DEF Types
  <2> QED BY <2>1, <2>2
<1>8. x \in Seq(Command)
  BY <1>3, <1>6, AnswerFacts
<1> HIDE DEF u, m
<1>9. /\ x \in Seq(Thing) /\ Len(x) \in Nat
      /\ \A i \in 1..Len(x) :
           /\ x[i].out \in Ports(s) \cup {All} /\ Entry(c, x[i]) \subseteq Entry(k, u)
           /\ i # Len(x) => Entry(c, x[i]) = {}
  <2>1. x \in Seq(Thing) /\ Len(x) \in Nat
    BY <1>8, SeqMonotonic, LenProperties DEF Thing
  <2> QED BY <1>3, <1>6, <2>1, AnswerEntries
<1> HIDE DEF x
<1>10. k \in Loc /\ c \in Loc /\ Queue[k] = upcalls[s]
  BY LocFacts, QueueFacts
<1>11. /\ D \in Queues /\ Apart(D) /\ Within(D, Entry(k, u)) /\ Avoids(D, {})
  <2>1. \A i, j \in 1..Len(x) : i # j => Entry(c, x[i]) \cap Entry(c, x[j]) = {}
    BY <1>9
  <2> HIDE DEF c, k
  <2> QED BY <1>9, <1>10, <2>1, IntoFacts
<1>12. Queue \in Queues /\ Apart(Queue) /\ Queue' \in Queues
  BY <1>1, QueueType, NextQueueType DEF Once
<1>13. r \in Queues /\ \A l \in Loc : r[l] = IF l = k THEN Tail(Queue[l]) ELSE Queue[l]
  BY <1>2, <1>10, <1>12, TakeFacts
<1>14. \A l \in Loc : \/ D[l] = <<>> /\ Queue'[l] = r[l]
                      \/ \E y \in Thing : D[l] = <<y>> /\ Queue'[l] = Append(r[l], y)
                      \/ Queue'[l] = r[l] \o D[l]
  <2>1. ASSUME NEW e \in Ends
        PROVE  D[<<"wire", e>>] = <<>> /\ Queue'[<<"wire", e>>] = r[<<"wire", e>>]
    <3>1. <<"wire", e>> # k /\ <<"wire", e>> # c
      OBVIOUS
    <3>2. D[<<"wire", e>>] = <<>>
      BY <3>1, LocFacts DEF Into
    <3> HIDE DEF k, r, D, c
    <3>3. r[<<"wire", e>>] = Queue[<<"wire", e>>]
      BY <1>13, <3>1, LocFacts
    <3> QED BY <1>1, <3>2, <3>3, QueueFacts, NextQueueFacts
  <2>2. ASSUME NEW t \in Switch
        PROVE  D[<<"up", t>>] = <<>> /\ Queue'[<<"up", t>>] = r[<<"up", t>>]
    <3>1. <<"up", t>> # c /\ (<<"up", t>> = k <=> t = s)
      OBVIOUS
    <3>2. upcalls'[t] = IF t = s THEN Tail(upcalls[t]) ELSE upcalls[t]
      BY <1>1, <1>7 DEF Types
    <3>3. D[<<"up", t>>] = <<>>
      BY <3>1, LocFacts DEF Into
    <3> HIDE DEF k, r, D
    <3> QED BY <1>13, <3>1, <3>2, <3>3, LocFacts, QueueFacts, NextQueueFacts
  <2>3. ASSUME NEW t \in Switch
        PROVE  \/ D[<<"cmd", t>>] = <<>> /\ Queue'[<<"cmd", t>>] = r[<<"cmd", t>>]
               \/ Queue'[<<"cmd", t>>] = r[<<"cmd", t>>] \o D[<<"cmd", t>>]
    <3>1. <<"cmd", t>> # k /\ (<<"cmd", t>> = c <=> t = s)
      OBVIOUS
    <3>2. commands'[t] = IF t = s THEN commands[t] \o x ELSE commands[t]
      BY <1>1, <1>7 DEF Types
    <3>3. D[<<"cmd", t>>] = IF t = s THEN x ELSE <<>>
      BY <3>1, LocFacts DEF Into
    <3> HIDE DEF k, r, D, c
    <3> QED BY <1>13, <3>1, <3>2, <3>3, LocFacts, QueueFacts, NextQueueFacts
  <2> HIDE DEF D, r
  <2>4. ASSUME NEW l \in Loc
        PROVE  (D[l] = <<>> /\ Queue'[l] = r[l]) \/ Queue'[l] = r[l] \o D[l]
    <3>1. CASE \E e \in Ends : l = <<"wire", e>>
      BY <2>1, <3>1
    <3>2. CASE \E t \in Switch : l = <<"up", t>>
      BY <2>2, <3>2
    <3>3. CASE \E t \in Switch : l = <<"cmd", t>>
      BY <2>3, <3>3
    <3> QED BY <3>1, <3>2, <3>3, LocFacts
  <2> QED BY <2>4
<1>15. OwnPorts'
  <2>1. \A t \in Switch : \A a \in Host : macports'[t][a] \in Ports(t) \cup {None}
    BY <1>1, <1>6, <1>7 DEF Types, Once, OwnPorts
  <2>2. ASSUME NEW t \in Switch, NEW i \in 1..Len(upcalls'[t])
        PROVE  upcalls'[t][i].in \in Ports(t)
    <3>1. CASE t = s
      <4>1. upcalls'[t] = Tail(upcalls[s])
        BY <1>1, <1>7, <3>1 DEF Types
      <4> QED BY <1>3, <3>1, <4>1 DEF Once, OwnPorts
    <3>2. CASE t # s
      BY <1>1, <1>7, <3>2 DEF Types, Once, OwnPorts
    <3> QED BY <3>1, <3>2
  <2>3. ASSUME NEW t \in Switch, NEW i \in 1..Len(commands'[t])
        PROVE  commands'[t][i].out \in Ports(t) \cup {All}
    <3>1. CASE t = s
      <4>1. /\ commands'[s] = commands[s] \o x /\ commands[s] \in Seq(Command)
        BY <1>1, <1>7 DEF Types
      <4>2. /\ Len(commands[s] \o x) = Len(commands[s]) + Len(x) /\ Len(commands[s]) \in Nat
            /\ \A n \in 1..(Len(commands[s]) + Len(x)) : (commands[s] \o x)[n] =
                 IF n <= Len(commands[s]) THEN commands[s][n] ELSE x[n - Len(commands[s])]
        BY <1>8, <4>1, ConcatProperties, LenProperties
      <4>3. i \in 1..(Len(commands[s]) + Len(x))
        BY <3>1, <4>1, <4>2
      <4>4. CASE i <= Len(commands[s])
        <5>1. i \in 1..Len(commands[s]) /\ commands'[s][i] = commands[s][i]
          BY <4>1, <4>2, <4>3, <4>4
        <5> QED BY <3>1, <5>1 DEF Once, OwnPorts
      <4>5. CASE ~(i <= Len(commands[s]))
        <5> DEFINE a == Len(commands[s])
                   b == Len(x)
        <5>1. a \in Nat /\ b \in Nat /\ i \in 1..(a + b) /\ ~(i <= a)
          BY <1>9, <4>2, <4>3, <4>5
        <5>2. i - a \in 1..b
          <6> HIDE DEF a, b
          <6> QED BY <5>1
        <5>3. commands'[s][i] = x[i - a]
          BY <4>1, <4>2, <4>3, <4>5
        <5> QED BY <1>9, <3>1, <5>2, <5>3
      <4> QED BY <4>4, <4>5
    <3>2. CASE t # s
      BY <1>1, <1>7, <3>2 DEF Types, Once, OwnPorts
    <3> QED BY <3>1, <3>2
  <2> QED BY <1>1, <2>1, <2>2, <2>3 DEF Once, OwnPorts
<1>16. inbox' \in [Host -> Seq(Frame)] /\ AtMostOnce' /\ Taken' \subseteq Taken \cup {}
  BY <1>1 DEF Once, AtMostOnce, Taken
<1>17. Entry(k, Head(Queue[k])) = Entry(k, u) /\ {} \subseteq Entry(k, u) /\ Queue[k] # <<>>
  BY <1>2, <1>10 DEF u
<1> HIDE DEF D, r, k
<1>18. Queue' = Joined(r, D)
  BY <1>11, <1>12, <1>13, <1>14, IsJoined
<1>19. Queue' = Joined(Shorter(Queue, k), D) /\ Within(D, Entry(k, Head(Queue[k])))
  BY <1>11, <1>17, <1>18 DEF r
<1> QED BY <1>1, <1>10, <1>11, <1>15, <1>16, <1>17, <1>19, OnceStep

\* A command that is obeyed.
LEMMA ExecuteOnce ==
  ASSUME Once, NEW s \in Switch, Execute(s)
  PROVE  Once'
<1> DEFINE c == Head(commands[s])
           k == <<"cmd", s>>
           r == Shorter(Queue, k)
<1>1. Types /\ Types' /\ UNCHANGED <<seat, macports, upcalls, sent>>
  BY ExecuteType DEF Once, Execute
<1>2. /\ commands[s] # <<>> /\ commands[s] \in Seq(Command)
      /\ commands' = [commands EXCEPT ![s] = Tail(@)]
  BY <1>1 DEF Execute, Types
<1>3. /\ c \in Command /\ c = commands[s][1] /\ 1 \in 1..Len(commands[s])
      /\ Len(Tail(commands[s])) \in Nat
      /\ \A i \in 1..Len(Tail(commands[s])) :
           i + 1 \in 1..Len(commands[s]) /\ Tail(commands[s])[i] = commands[s][i + 1]
  BY <1>2, First
<1>4. c.out \in Ports(s) \cup {All}
  BY <1>3 DEF Once, OwnPorts
<1>5. k \in Loc /\ Queue[k] = commands[s] /\ Queue[k] # <<>>
  BY <1>2, LocFacts, QueueFacts
<1>6. Queue \in Queues /\ Apart(Queue) /\ Queue' \in Queues
  BY <1>1, QueueType, NextQueueType DEF Once
<1>7. r \in Queues /\ \A l \in Loc : r[l] = IF l = k THEN Tail(Queue[l]) ELSE Queue[l]
  BY <1>5, <1>6, TakeFacts
<1>8. /\ \A e \in Ends : r[<<"wire", e>>] = wire[e]
      /\ \A t \in Switch : r[<<"up", t>>] = upcalls[t]
      /\ \A t \in Switch : r[<<"cmd", t>>] = commands'[t]
  <2>1. \A e \in Ends : <<"wire", e>> # k
    OBVIOUS
  <2>2. \A t \in Switch : <<"up", t>> # k /\ (<<"cmd", t>> = k <=> t = s)
    OBVIOUS
  <2>3. \A t \in Switch : commands'[t] = IF t = s THEN Tail(commands[t]) ELSE commands[t]
    BY <1>1, <1>2 DEF Types
  <2> HIDE DEF k, r
  <2>4. \A e \in Ends : r[<<"wire", e>>] = wire[e]
    BY <1>7, <2>1, LocFacts, QueueFacts
  <2>5. \A t \in Switch : r[<<"up", t>>] = upcalls[t]
    BY <1>7, <2>2, LocFacts, QueueFacts
  <2>6. ASSUME NEW t \in Switch PROVE r[<<"cmd", t>>] = commands'[t]
    <3>1. <<"cmd", t>> \in Loc /\ Queue[<<"cmd", t>>] = commands[t]
      BY LocFacts, QueueFacts
    <3>2. r[<<"cmd", t>>] = IF t = s THEN Tail(commands[t]) ELSE commands[t]
      BY <1>7, <2>2, <3>1
    <3> QED BY <2>3, <3>2
  <2> QED BY <2>4, <2>5, <2>6
<1>9. \A t \in Switch : \A i \in 1..Len(commands'[t]) :
        commands'[t][i].out \in Ports(t) \cup {All}
  <2>1. ASSUME NEW t \in Switch, NEW i \in 1..Len(commands'[t])
        PROVE  commands'[t][i].out \in Ports(t) \cup {All}
    <3>1. CASE t = s
      <4>1. commands'[t] = Tail(commands[s])
        BY <1>1, <1>2, <3>1 DEF Types
      <4> QED BY <1>3, <3>1, <4>1 DEF Once, OwnPorts
    <3>2. CASE t # s
      BY <1>1, <1>2, <3>2 DEF Types, Once, OwnPorts
    <3> QED BY <3>1, <3>2
  <2> QED BY <2>1
<1>10. CASE "flow" \in DOMAIN c
  <2> DEFINE D == Into(k, <<>>)
  <2>1. flows' = [flows EXCEPT ![s][c.flow] = c.out] /\ wire' = wire /\ inbox' = inbox
    BY <1>10 DEF Execute
  <2>2. c.flow \in Pair /\ c.out \in Ports(s)
    <3>1. c.flow \in Pair /\ c.out \in Port
      BY <1>3, <1>10 DEF Command
    <3>2. All \notin Port
      BY TopologyAssumption DEF Port
    <3> QED BY <1>4, <3>1, <3>2
  <2> HIDE DEF c, k, r
  <2>3. OwnPorts'
    <3>1. \A t \in Switch : \A e \in Pair : flows'[t][e] \in Ports(t) \cup {None}
      BY <1>1, <2>1, <2>2 DEF Types, Once, OwnPorts
    <3> QED BY <1>1, <1>9, <3>1 DEF Once, OwnPorts
  <2>4. D \in Queues /\ Apart(D) /\ Within(D, Entry(k, Head(Queue[k]))) /\ Avoids(D, {})
    <3>1. <<>> \in Seq(Thing) /\ Len(<<>>) = 0 /\ \A i \in 1..0 : FALSE
      BY EmptySeq
    <3> QED BY <1>5, <3>1, IntoFacts
  <2>5. \A l \in Loc : D[l] = <<>> /\ Queue'[l] = r[l]
    <3>1. \A l \in Loc : D[l] = <<>>
      BY DEF Into
    <3>2. ASSUME NEW l \in Loc PROVE Queue'[l] = r[l]
      <4>1. CASE \E e \in Ends : l = <<"wire", e>>
        BY <1>8, <2>1, <4>1, NextQueueFacts
      <4>2. CASE \E t \in Switch : l = <<"up", t>> \/ l = <<"cmd", t>>
        <5>1. PICK t \in Switch : l = <<"up", t>> \/ l = <<"cmd", t>>
          BY <4>2
        <5>2. Queue'[<<"up", t>>] = r[<<"up", t>>] /\ Queue'[<<"cmd", t>>] = r[<<"cmd", t>>]
          BY <1>1, <1>8, NextQueueFacts
        <5> QED BY <5>1, <5>2
      <4> QED BY <4>1, <4>2, LocFacts
    <3> QED BY <3>1, <3>2
  <2> HIDE DEF D
  <2>6. Queue' = Joined(r, D)
    BY <1>6, <1>7, <2>4, <2>5, IsJoined
  <2>7. Queue' = Joined(Shorter(Queue, k), D)
    BY <2>6 DEF r
  <2>8. inbox' \in [Host -> Seq(Frame)] /\ AtMostOnce' /\ Taken' \subseteq Taken \cup {}
    BY <1>1, <2>1 DEF Once, AtMostOnce, Taken
  <2>9. {} \subseteq Entry(k, Head(Queue[k]))
    OBVIOUS
  <2> QED BY <1>1, <1>5, <2>3, <2>4, <2>7, <2>8, <2>9, OnceStep
<1>11. CASE "flow" \notin DOMAIN c
  <2>1. /\ wire' = Wires(wire, s, c.in, c.out, c.frame) /\ flows' = flows
        /\ inbox' = Inboxes(s, c.in, c.out, c.frame)
    BY <1>11 DEF Execute
  <2>2. c.frame \in Frame
    BY <1>3, <1>11 DEF Command
  <2>3. Entry(k, Head(Queue[k])) = Claim(s, c.in, c.out, c.frame)
    BY <1>5, <1>11 DEF Entry
  <2> HIDE DEF c
  <2>4. OwnPorts'
    BY <1>1, <1>9, <2>1 DEF Once, OwnPorts
  <2>5. wire \in [Ends -> Seq(Frame)] /\ seat' = seat /\ sent' = sent
    BY <1>1 DEF Types
  <2>6. /\ \A e \in Ends : wire[e] = Shorter(Queue, k)[<<"wire", e>>]
        /\ \A t \in Switch : upcalls'[t] = Shorter(Queue, k)[<<"up", t>>]
        /\ \A t \in Switch : commands'[t] = Shorter(Queue, k)[<<"cmd", t>>]
    BY <1>1, <1>8
  <2>7. Claim(s, c.in, c.out, c.frame) \subseteq Entry(k, Head(Queue[k]))
    BY <2>3
  <2> HIDE DEF k, r
  <2> QED BY <1>1, <1>4, <1>5, <2>1, <2>2, <2>4, <2>5, <2>6, <2>7, PutOut
<1> QED BY <1>10, <1>11

\* Queues that were emptied, or not.
LEMMA EmptiedFacts ==
  ASSUME NEW q, NEW g, \A l \in Loc : g[l] = q[l] \/ g[l] = <<>>
  PROVE  /\ Apart(q) => Apart(g)
         /\ \A X : Avoids(q, X) => Avoids(g, X)
         /\ \A X : Within(q, X) => Within(g, X)
<1>1. ASSUME NEW l \in Loc, NEW i \in 1..Len(g[l])
      PROVE  i \in 1..Len(q[l]) /\ g[l][i] = q[l][i]
  <2>1. Len(<<>>) = 0 /\ ~(i \in 1..0)
    BY EmptySeq
  <2> QED BY <1>1, <2>1
<1>2. ASSUME Apart(q) PROVE Apart(g)
  <2>1. ASSUME NEW l \in Loc, NEW m \in Loc, NEW i \in 1..Len(g[l]), NEW j \in 1..Len(g[m]),
               <<l, i>> # <<m, j>>
        PROVE  Entry(l, g[l][i]) \cap Entry(m, g[m][j]) = {}
    <3>1. Entry(l, q[l][i]) \cap Entry(m, q[m][j]) = {}
      BY <1>1, <1>2, <2>1 DEF Apart
    <3> QED BY <1>1, <3>1
  <2> QED BY <2>1 DEF Apart
<1>3. ASSUME NEW X, Avoids(q, X) PROVE Avoids(g, X)
  BY <1>1, <1>3 DEF Avoids
<1>4. ASSUME NEW X, Within(q, X) PROVE Within(g, X)
  BY <1>1, <1>4 DEF Within
<1> QED BY <1>2, <1>3, <1>4

\* Nothing is taken or sent, and nothing new is under way.
LEMMA EmptiedOnce ==
  ASSUME Once, Types', OwnPorts', UNCHANGED <<seat, inbox, sent>>,
         \A l \in Loc : Queue'[l] = Queue[l] \/ Queue'[l] = <<>>
  PROVE  Once'
<1>1. Apart(Queue) /\ Avoids(Queue, Taken) /\ Within(Queue, Old) /\ Taken \subseteq Old
  BY DEF Once
<1>2. Apart(Queue') /\ Avoids(Queue', Taken) /\ Within(Queue', Old)
  BY <1>1, EmptiedFacts
<1>3. Taken' = Taken /\ Old' = Old
  BY DEF Taken, Old
<1>4. Apart(Queue)' /\ Avoids(Queue, Taken)' /\ Within(Queue, Old)' /\ Taken' \subseteq Old'
  BY <1>1, <1>2, <1>3
<1>5. AtMostOnce' /\ inbox' \in [Host -> Seq(Frame)]
  BY DEF Once, AtMostOnce
<1> QED BY <1>4, <1>5 DEF Once

\* The queues stay what they are.
LEMMA SameQueues ==
  ASSUME UNCHANGED <<wire, upcalls, commands>>
  PROVE  Queue' = Queue
BY DEF Queue

\* A flow that is gone.
LEMMA ExpireOnce ==
  ASSUME Once, NEW s \in Switch, NEW e \in Pair, Expire(s, e)
  PROVE  Once'
<1>1. Types /\ Types' /\ UNCHANGED <<seat, macports, upcalls, commands, wire, inbox, sent>>
  BY SurroundingsType DEF Once, Expire
<1>2. OwnPorts'
  <2>1. \A t \in Switch : \A g \in Pair : flows'[t][g] \in Ports(t) \cup {None}
    BY <1>1 DEF Expire, Types, Once, OwnPorts
  <2> QED BY <1>1, <2>1 DEF Once, OwnPorts
<1>3. Queue' = Queue
  BY <1>1, SameQueues
<1> QED BY <1>1, <1>2, <1>3, EmptiedOnce

\* The flow for broadcasts names no port.
LEMMA ExpireBroadcastOnce ==
  ASSUME Once, NEW s \in Switch, ExpireBroadcast(s)
  PROVE  Once'
<1>1. Types /\ Types' /\ UNCHANGED <<seat, macports, flows, upcalls, commands, wire, inbox, sent>>
  BY SurroundingsType DEF Once, ExpireBroadcast
<1>2. OwnPorts'
  BY <1>1 DEF Once, OwnPorts
<1>3. Queue' = Queue
  BY <1>1, SameQueues
<1> QED BY <1>1, <1>2, <1>3, EmptiedOnce

\* A controller that is started again has forgotten what waited for it.
LEMMA RestartOnce ==
  ASSUME Once, Restart
  PROVE  Once'
<1>1. Types /\ Types' /\ UNCHANGED <<seat, wire, inbox, sent>>
  BY SurroundingsType DEF Once, Restart
<1>2. /\ \A s \in Switch : upcalls'[s] = <<>> /\ commands'[s] = <<>>
      /\ \A s \in Switch : \A a \in Host : macports'[s][a] = None
  BY DEF Restart, Unknown
<1>3. OwnPorts'
  <2>1. PICK S \in SUBSET Switch :
          flows' = [s \in Switch |-> IF s \in S THEN [e \in Pair |-> None] ELSE flows[s]]
    BY DEF Restart
  <2>2. \A t \in Switch : \A g \in Pair : flows'[t][g] \in Ports(t) \cup {None}
    BY <2>1 DEF Once, OwnPorts
  <2>3. \A s \in Switch : Len(upcalls'[s]) = 0 /\ Len(commands'[s]) = 0
    BY <1>2, EmptySeq
  <2>4. \A i \in 1..0 : FALSE
    OBVIOUS
  <2> QED BY <1>2, <2>2, <2>3, <2>4 DEF OwnPorts
<1>4. ASSUME NEW l \in Loc PROVE Queue'[l] = Queue[l] \/ Queue'[l] = <<>>
  <2>1. CASE \E e \in Ends : l = <<"wire", e>>
    <3>1. PICK e \in Ends : l = <<"wire", e>>
      BY <2>1
    <3>2. Queue[l] = wire[e] /\ Queue'[l] = wire'[e]
      BY <3>1, QueueFacts, NextQueueFacts
    <3> QED BY <1>1, <3>2
  <2>2. CASE \E t \in Switch : l = <<"up", t>> \/ l = <<"cmd", t>>
    BY <1>2, <2>2, NextQueueFacts
  <2> QED BY <2>1, <2>2, LocFacts
<1> QED BY <1>1, <1>3, <1>4, EmptiedOnce

\* A host moves when nothing is under way.
LEMMA MoveOnce ==
  ASSUME Once, NEW h \in Host, NEW p \in Seat, Move(h, p)
  PROVE  Once'
<1>1. Types /\ Types' /\ UNCHANGED <<macports, flows, upcalls, commands, wire, inbox, sent>>
  BY SurroundingsType DEF Once, Move
<1>2. OwnPorts' /\ AtMostOnce' /\ inbox' \in [Host -> Seq(Frame)]
  BY <1>1 DEF Once, OwnPorts, AtMostOnce
<1>3. Queue' = Queue
  BY <1>1, SameQueues
<1>4. \A l \in Loc : Queue[l] = <<>>
  <2>1. \A e \in Ends : wire[e] = <<>>
    BY <1>1 DEF Move, Quiet, Types
  <2>2. \A s \in Switch : upcalls[s] = <<>> /\ commands[s] = <<>>
    BY DEF Move, Quiet
  <2>3. ASSUME NEW l \in Loc PROVE Queue[l] = <<>>
    <3>1. CASE \E e \in Ends : l = <<"wire", e>>
      BY <2>1, <3>1, QueueFacts
    <3>2. CASE \E t \in Switch : l = <<"up", t>> \/ l = <<"cmd", t>>
      BY <2>2, <3>2, QueueFacts
    <3> QED BY <3>1, <3>2, LocFacts
  <2> QED BY <2>3
<1>5. \A X : Avoids(Queue, X)
  <2>1. Len(<<>>) = 0 /\ \A i \in 1..0 : FALSE
    BY EmptySeq
  <2> QED BY <1>4, <2>1 DEF Avoids
<1>6. Taken' \subseteq Old'
  <2>1. Old' = Old /\ Taken \subseteq Old
    BY <1>1 DEF Once, Old
  <2>2. ASSUME NEW g \in Host, NEW i \in 1..Len(inbox[g])
        PROVE  <<inbox[g][i].id, seat'[g]>> \in Old
    <3>1. <<inbox[g][i].id, seat[g]>> \in Taken
      BY DEF Taken
    <3>2. seat'[g] \in Seat
      BY <1>1 DEF Types
    <3> QED BY <2>1, <3>1, <3>2 DEF Old
  <2>3. ASSUME NEW x \in Taken' PROVE x \in Old
    <3>1. PICK g \in Host : x \in {<<inbox'[g][i].id, seat'[g]>> : i \in 1..Len(inbox'[g])}
      BY <2>3 DEF Taken
    <3> QED BY <1>1, <2>2, <3>1
  <2> QED BY <2>1, <2>3
<1>7. Apart(Queue)' /\ Avoids(Queue, Taken)' /\ Within(Queue, Old)'
  <2>1. Apart(Queue) /\ Within(Queue, Old) /\ Old' = Old
    BY <1>1 DEF Once, Old
  <2> QED BY <1>3, <1>5, <2>1
<1> QED BY <1>1, <1>2, <1>6, <1>7 DEF Once

\* Nothing is under way at first.
LEMMA InitOnce == Init => Once
<1> SUFFICES ASSUME Init PROVE Once
  OBVIOUS
<1>1. Types
  BY InitIInv DEF IInv
<1>2. <<>> \in Seq(Frame) /\ Len(<<>>) = 0 /\ \A i \in 1..0 : FALSE
  BY EmptySeq
<1>3. /\ \A e \in Ends : wire[e] = <<>>
      /\ \A s \in Switch : upcalls[s] = <<>> /\ commands[s] = <<>>
      /\ \A h \in Host : inbox[h] = <<>>
  BY DEF Init, Ends
<1>4. OwnPorts
  BY <1>2, <1>3 DEF Init, OwnPorts, Unknown
<1>5. inbox \in [Host -> Seq(Frame)] /\ AtMostOnce
  <2>1. inbox \in [Host -> Seq(Frame)]
    BY <1>2 DEF Init
  <2>2. \A h \in Host : DOMAIN inbox[h] = {}
    BY <1>3
  <2> QED BY <2>1, <2>2 DEF AtMostOnce
<1>6. Taken \subseteq Old
  BY <1>2, <1>3 DEF Taken
<1>7. ASSUME NEW l \in Loc PROVE Queue[l] = <<>>
  <2>1. CASE \E e \in Ends : l = <<"wire", e>>
    BY <1>3, <2>1, QueueFacts
  <2>2. CASE \E t \in Switch : l = <<"up", t>> \/ l = <<"cmd", t>>
    <3>1. PICK t \in Switch : l = <<"up", t>> \/ l = <<"cmd", t>>
      BY <2>2
    <3>2. Queue[<<"up", t>>] = <<>> /\ Queue[<<"cmd", t>>] = <<>>
      BY <1>3, QueueFacts
    <3> QED BY <3>1, <3>2
  <2> QED BY <2>1, <2>2, LocFacts
<1>8. Apart(Queue) /\ Avoids(Queue, Taken) /\ Within(Queue, Old)
  <2>1. \A l \in Loc : 1..Len(Queue[l]) = {}
    BY <1>7
  <2>2. Apart(Queue)
    BY <2>1 DEF Apart
  <2>3. Avoids(Queue, Taken)
    BY <2>1 DEF Avoids
  <2>4. Within(Queue, Old)
    BY <2>1 DEF Within
  <2> QED BY <2>2, <2>3, <2>4
<1> QED BY <1>1, <1>4, <1>5, <1>6, <1>8 DEF Once

\* Every step keeps Once.
LEMMA NextOnce == Once /\ [Next]_vars => Once'
<1> SUFFICES ASSUME Once, [Next]_vars PROVE Once'
  OBVIOUS
<1>1. CASE UNCHANGED vars
  <2>1. Types' /\ OwnPorts' /\ UNCHANGED <<seat, inbox, sent>>
    BY <1>1 DEF vars, Once, Types, OwnPorts
  <2>2. Queue' = Queue
    BY <1>1, SameQueues DEF vars
  <2> QED BY <2>1, <2>2, EmptiedOnce
<1>2. CASE Forwarding
  BY <1>2, ArriveOnce, PacketInOnce, ExecuteOnce DEF Forwarding
<1> QED BY <1>1, <1>2, SendOnce, ExpireOnce, ExpireBroadcastOnce, RestartOnce, MoveOnce
       DEF Next

\* Nobody gets a frame twice (OFPP_ALL, add_forward_flow), in every tree of switches, whatever the
\* timing of upcalls, time-outs, restarts and moves.
THEOREM NothingTwice == Spec => []AtMostOnce
<1>1. Once => AtMostOnce
  BY DEF Once
<1> QED BY <1>1, InitOnce, NextOnce, PTL DEF Spec
=============================================================================
