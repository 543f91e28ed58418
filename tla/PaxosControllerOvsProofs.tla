----------------------- MODULE PaxosControllerOvsProofs -----------------------
(* Proofs about PaxosControllerOvs, for any topology, hosts and clients.       *)
EXTENDS PaxosControllerOvs, FiniteSetTheorems, SequenceTheorems, TLAPS

-----------------------------------------------------------------------------
(* The inductive invariant *)

PaxosState ==
  [crnd: Nat, keys: SUBSET Seqno, slots: [Seqno -> Slot],
   cseq: 0..MaxSeqno + 1, processed: SUBSET (Nat \X Seqno)]

\* The types but for out, with what the stage of start-up says of the leader and of N,
\* and the bound of the log.
Types ==
  /\ me \in Node /\ N \subseteq Node
  /\ stage \in {"joining", "joined", "leading", "pump", "gc"}
  /\ stage # "joining" => N = Node
  /\ wan_port \in {Wan, None} /\ (me # Leader => wan_port = None)
  /\ macports \in [Mac -> Node \cup Host \cup {Wan, None}]
  /\ state \in PaxosState
  /\ submitted \in Seq(Packet) /\ Len(submitted) <= MaxSeqno + 1
  /\ inbox \in [Mac -> Seq(Seqno)]

\* The port by which the frames of m come in, if any do.
Side(m) ==
  IF m \in Node THEN IF m = me THEN None ELSE Hop[me][m]
  ELSE IF m \in Host THEN m
  ELSE IF me = Leader THEN Wan
  ELSE IF m = Wan THEN None ELSE Hop[me][Leader]

\* Addresses are learned where their frames come in; a node that has announced itself
\* is found there.
Sides ==
  /\ \A m \in Mac : macports[m] \in {None, Side(m)}
  /\ \A b \in N \ {me} : macports[b] = Hop[me][b]
  /\ paxos_ports = [b \in Node |-> IF b \in N \ {me} THEN Hop[me][b] ELSE None]

\* Only hosts and clients send IP packets.  Had the WAN switch to ask, its address is
\* on the port of the clients when they are.
Addresses ==
  /\ macip \subseteq Host \cup Client
  /\ WanAsks /\ me = Leader =>
       \A c \in Client : macports[c] # None => macports[Wan] # None

InOrder == WanAsks => EveryHostInOrder

\* e has a port of the switch, and the right one if it is an ACCEPT or a LEARN.
GoesRight(e) ==
  /\ e.port \in Port
  /\ stage # "joining" /\ e.frame.type \in {"ACCEPT", "LEARN"} =>
       e.port = Hop[me][e.frame.dst]

Base == Types /\ Sides /\ Addresses /\ InOrder

IInv == Base /\ \A e \in out : e.port \in Port

-----------------------------------------------------------------------------
(* Names, ports and sides *)

\* Names that differ, and nodes that are their own neighbours' neighbours only.
LEMMA Names ==
  /\ Leader \in Node /\ None # All /\ None \notin Mac /\ All \notin Mac
  /\ \A h \in Host : h \notin Node /\ h \notin Client /\ h # Wan
  /\ \A c \in Client : c \notin Node /\ c # Wan
  /\ Wan \notin Node
  /\ \A a, b \in Node : Hop[a][b] \in Node
BY NodeAssumption, AddressAssumption, HopAssumption DEF Mac

\* The ports of a switch have names of nodes, hosts or the WAN switch.
LEMMA PortFacts ==
  ASSUME me \in Node
  PROVE  /\ None \notin Port /\ All \notin Port /\ Port \subseteq Node \cup Host \cup {Wan}
         /\ \A b \in Others : Hop[me][b] \in Port
         /\ \A h \in Host : h \in Port
         /\ me = Leader => Wan \in Port
<1>1. Port \subseteq Node \cup Host \cup {Wan}
  BY Names DEF Port
<1>2. None \notin Port /\ All \notin Port
  BY <1>1, Names DEF Mac
<1> QED BY <1>1, <1>2 DEF Port, Others

\* What a side is.
LEMMA SideFacts ==
  ASSUME me \in Node
  PROVE  /\ \A m \in Mac : Side(m) \in Port \cup {None}
         /\ \A b \in Others : Side(b) = Hop[me][b]
         /\ Side(me) = None
         /\ \A h \in Host : Side(h) = h
         /\ \A c \in Client : Side(c) = ClientPort
         /\ Side(Wan) = IF me = Leader THEN Wan ELSE None
<1>1. /\ \A b \in Others : Side(b) = Hop[me][b]
      /\ Side(me) = None
      /\ \A h \in Host : Side(h) = h
      /\ \A c \in Client : Side(c) = ClientPort
      /\ Side(Wan) = IF me = Leader THEN Wan ELSE None
  BY Names DEF Side, Others, ClientPort
<1>2. me # Leader => Leader \in Others
  BY Names DEF Others
<1>3. ASSUME NEW m \in Mac PROVE Side(m) \in Port \cup {None}
  <2>1. CASE m \in Others
    BY <1>1, <2>1, PortFacts
  <2>2. CASE m = me \/ m \in Host \/ m = Wan
    BY <1>1, <2>2, PortFacts
  <2>3. CASE m \in Client
    BY <1>1, <1>2, <2>3, PortFacts DEF ClientPort
  <2> QED BY <2>1, <2>2, <2>3 DEF Mac, Others
<1> QED BY <1>1, <1>3

\* Whatever address is known is known at its side.
LEMMA KnownFacts ==
  ASSUME Types, Sides
  PROVE  /\ \A m \in Mac : macports[m] # None =>
              macports[m] = Side(m) /\ macports[m] \in Port /\ macports[m] # All
         /\ \A b \in N \ {me} : LookupPort(b) = Hop[me][b] /\ Hop[me][b] # All
         /\ \A m \in Mac : LookupPort(m) \in Port \cup {All}
<1>1. ASSUME NEW m \in Mac, macports[m] # None
      PROVE  macports[m] = Side(m) /\ macports[m] \in Port /\ macports[m] # All
  BY <1>1, SideFacts, PortFacts DEF Types, Sides
<1>2. ASSUME NEW b \in N \ {me} PROVE LookupPort(b) = Hop[me][b] /\ Hop[me][b] # All
  <2>1. b \in Others /\ macports[b] = Hop[me][b]
    BY DEF Types, Sides, Others
  <2>2. Hop[me][b] # None /\ Hop[me][b] # All
    BY <2>1, PortFacts DEF Types
  <2> QED BY <2>1, <2>2 DEF LookupPort
<1>3. \A m \in Mac : LookupPort(m) \in Port \cup {All}
  BY <1>1 DEF LookupPort
<1> QED BY <1>1, <1>2, <1>3

\* The ports that lead to nodes, once the network is joined.
LEMMA JoinedPorts ==
  ASSUME Types, Sides, stage # "joining"
  PROVE  /\ PaxosPorts = {Hop[me][b] : b \in Others}
         /\ \A b \in Others : ~IsWanPort(Hop[me][b]) /\ LookupPort(b) = Hop[me][b]
<1>1. N = Node /\ me \in Node
  BY DEF Types
<1>2. \A b \in Node : paxos_ports[b] = IF b = me THEN None ELSE Hop[me][b]
  BY <1>1 DEF Sides
<1>3. \A b \in Others : Hop[me][b] # None
  BY <1>1, PortFacts
<1>4. PaxosPorts = {Hop[me][b] : b \in Others}
  BY <1>2, <1>3 DEF PaxosPorts, Others
<1> QED BY <1>1, <1>4, KnownFacts DEF IsWanPort, Others

\* Where frames leave.
LEMMA PutOutFacts ==
  ASSUME NEW f, NEW p, NEW in, p \in Port \cup {All}
  PROVE  \A e \in PutOut(f, p, in) :
           e.frame = f /\ e.port \in Port /\ (p # All => e.port = p)
BY DEF PutOut

\* A frame that is neither ACCEPT nor LEARN may leave anywhere.
LEMMA PlainGoesRight ==
  ASSUME NEW f, NEW p, NEW in, p \in Port \cup {All}, f.type \notin {"ACCEPT", "LEARN"}
  PROVE  \A e \in PutOut(f, p, in) : GoesRight(e)
BY PutOutFacts DEF GoesRight

\* The learning switch learns at the right side and sends the right way.
LEMMA SwitchOK ==
  ASSUME Types, Sides, NEW f, NEW in, NEW m, NEW sent, Switch(f, in, m, sent),
         f.src \in Mac, f.dst \in Mac \cup {All}, in = Side(f.src), in # None,
         m \in [Mac -> Node \cup Host \cup {Wan, None}],
         \A x \in Mac : m[x] \in {None, Side(x)},
         \A e \in sent : GoesRight(e),
         stage # "joining" /\ f.type \in {"ACCEPT", "LEARN"} =>
           f.dst \in Others /\ m[f.dst] = Hop[me][f.dst]
  PROVE  /\ macports' \in [Mac -> Node \cup Host \cup {Wan, None}]
         /\ \A x \in Mac : macports'[x] \in {None, Side(x)}
         /\ \A x \in Mac : m[x] # None => macports'[x] = m[x]
         /\ \A x \in Mac : x # f.src => macports'[x] = m[x]
         /\ macip' = macip \cup (IF f.type = "ip" THEN {f.src} ELSE {})
         /\ \A e \in out' : GoesRight(e)
<1>1. me \in Node
  BY DEF Types
<1>2. macports' = LearnPort(m, f.src, in)
  BY DEF Switch
<1>3. in \in Port /\ in \in Node \cup Host \cup {Wan, None}
  BY <1>1, SideFacts, PortFacts
<1>4. /\ macports' \in [Mac -> Node \cup Host \cup {Wan, None}]
      /\ \A x \in Mac : macports'[x] \in {None, Side(x)}
      /\ \A x \in Mac : m[x] # None => macports'[x] = m[x]
      /\ \A x \in Mac : x # f.src => macports'[x] = m[x]
  <2>1. CASE m[f.src] = None
    <3>1. macports' = [m EXCEPT ![f.src] = in]
      BY <1>2, <2>1 DEF LearnPort
    <3> QED BY <3>1, <2>1, <1>3
  <2>2. CASE m[f.src] # None
    BY <1>2, <2>2 DEF LearnPort
  <2> QED BY <2>1, <2>2
<1> DEFINE p == IF f.dst # All /\ macports'[f.dst] # None THEN macports'[f.dst] ELSE All
<1>5. out' = sent \cup PutOut(f, p, in)
  BY DEF Switch
<1>6. p \in Port \cup {All}
  BY <1>1, <1>4, SideFacts
<1>7. stage # "joining" /\ f.type \in {"ACCEPT", "LEARN"} => p = Hop[me][f.dst] /\ p # All
  <2>1. ASSUME stage # "joining", f.type \in {"ACCEPT", "LEARN"}
        PROVE  p = Hop[me][f.dst] /\ p # All
    <3>1. f.dst \in Others /\ m[f.dst] = Hop[me][f.dst] /\ f.dst \in Mac
      BY <2>1 DEF Others, Mac
    <3>2. Hop[me][f.dst] # None /\ Hop[me][f.dst] # All
      BY <1>1, <3>1, PortFacts
    <3>3. f.dst # All
      BY <3>1, Names
    <3> QED BY <1>4, <3>1, <3>2, <3>3
  <2> QED BY <2>1
<1> HIDE DEF p
<1>8. \A e \in PutOut(f, p, in) : GoesRight(e)
  BY <1>6, <1>7, PutOutFacts DEF GoesRight
<1>9. macip' = macip \cup (IF f.type = "ip" THEN {f.src} ELSE {})
  BY DEF Switch
<1> QED BY <1>4, <1>5, <1>8, <1>9

-----------------------------------------------------------------------------
(* Hosts *)

\* What the WAN port may be.
WanOK(wan) == wan \in {None, Wan} /\ (me # Leader => wan = None)

\* When the counts agree, the addresses that are taken for hosts are the hosts: the WAN
\* switch's own address keeps a lone client from being taken for one.
LEMMA KnownHosts ==
  ASSUME Types, Sides, Addresses, WanAsks, stage # "joining", NEW wan, WanOK(wan),
         HostAddressesKnown(wan)
  PROVE  Hosts = Host
<1> DEFINE P == {Hop[me][b] : b \in Others}
           W == IF me = Leader THEN {Wan} ELSE {}
<1>1. me \in Node /\ Leader \in Node /\ PaxosPorts = P /\ P \subseteq Node
  BY JoinedPorts, Names DEF Types, Others
<1>2. Port = (Host \cup P) \cup W
  BY DEF Port, Others
<1>3. Host \cap P = {} /\ (Host \cup P) \cap W = {}
  BY <1>1, Names
<1>4. IsFiniteSet(Host) /\ IsFiniteSet(P) /\ IsFiniteSet(W)
  BY <1>1, NodeAssumption, AddressAssumption, FS_Subset, FS_Singleton, FS_EmptySet
<1>5. Cardinality(W) = IF me = Leader THEN 1 ELSE 0
  BY FS_Singleton, FS_EmptySet
<1>6. Cardinality(Port) = Cardinality(Host) + Cardinality(P) + Cardinality(W)
  <2> HIDE DEF P, W
  <2>1. /\ IsFiniteSet(Host \cup P)
        /\ Cardinality(Host \cup P) = Cardinality(Host) + Cardinality(P) - Cardinality({})
    BY <1>3, <1>4, FS_Union
  <2>2. Cardinality((Host \cup P) \cup W) =
          Cardinality(Host \cup P) + Cardinality(W) - Cardinality({})
    BY <1>3, <1>4, <2>1, FS_Union
  <2>3. /\ Cardinality({}) = 0 /\ Cardinality(Host) \in Nat /\ Cardinality(P) \in Nat
        /\ Cardinality(W) \in Nat
    BY <1>4, FS_EmptySet, FS_CardinalityType
  <2> QED BY <1>2, <2>1, <2>2, <2>3
<1>7. Hosts \subseteq Host
  <2>1. SUFFICES ASSUME NEW m \in Hosts, m \notin Host PROVE FALSE
    OBVIOUS
  <2>2. /\ m \in Mac /\ macports[m] \in Port /\ macports[m] \notin P
        /\ MacsOn(macports[m]) = {m} /\ m \in Client
    BY <1>1, <2>1 DEF Hosts, Addresses
  <2>3. macports[m] # None /\ macports[m] = ClientPort
    BY <1>1, <2>2, SideFacts, PortFacts, KnownFacts
  <2>4. me = Leader
    BY <1>1, <2>2, <2>3 DEF ClientPort, Others
  <2>5. macports[Wan] = Wan /\ macports[m] = Wan
    <3>1. macports[Wan] # None
      BY <2>2, <2>3, <2>4 DEF Addresses
    <3>2. macports[Wan] = Side(Wan)
      BY <3>1, KnownFacts DEF Mac
    <3> QED BY <1>1, <2>3, <2>4, <3>2, SideFacts DEF ClientPort
  <2>6. Wan \in MacsOn(macports[m])
    BY <2>5 DEF MacsOn, Mac
  <2> QED BY <2>2, <2>6, Names
<1>8. Cardinality(Hosts) >= Cardinality(Host)
  <2>1. Cardinality(Hosts) = Cardinality(Port) - Cardinality(P) - (IF wan = None THEN 0 ELSE 1)
    BY <1>1 DEF HostAddressesKnown
  <2>2. wan # None => me = Leader
    BY DEF WanOK
  <2> HIDE DEF P, W
  <2>3. Cardinality(Host) \in Nat /\ Cardinality(P) \in Nat
    BY <1>4, FS_CardinalityType
  <2> QED BY <1>5, <1>6, <2>1, <2>2, <2>3
<1>9. /\ Cardinality(Hosts) <= Cardinality(Host) /\ Cardinality(Hosts) \in Nat
      /\ Cardinality(Host) \in Nat
      /\ Cardinality(Host) = Cardinality(Hosts) => Host = Hosts
  BY <1>4, <1>7, FS_Subset, FS_CardinalityType
<1> QED BY <1>8, <1>9

-----------------------------------------------------------------------------
(* The queue *)

\* The numbers below c, which a host got in order, and those from c to k behind them.
LEMMA UptoConcat ==
  ASSUME NEW c \in 0..MaxSeqno + 1, NEW k \in 0..MaxSeqno + 1, c <= k
  PROVE  /\ [i \in 1..k - c |-> c + i - 1] \in Seq(Seqno)
         /\ [i \in 1..c |-> i - 1] \o [i \in 1..k - c |-> c + i - 1] = [i \in 1..k |-> i - 1]
<1> DEFINE s == [i \in 1..c |-> i - 1]
           d == k - c
           t == [i \in 1..d |-> c + i - 1]
           u == [i \in 1..k |-> i - 1]
<1>1. c \in Nat /\ k \in Nat /\ d \in Nat /\ c + d = k /\ MaxSeqno \in Nat
  BY BoundsAssumption
<1>2. /\ \A i \in 1..c : i - 1 \in Seqno
      /\ \A i \in 1..d : c + i - 1 \in Seqno
      /\ \A i \in 1..k : i - 1 \in Seqno
  BY <1>1 DEF Seqno
<1>3. s \in [1..c -> Seqno] /\ t \in [1..d -> Seqno] /\ u \in [1..k -> Seqno]
  BY <1>2
<1>4. \A n \in Nat : \A g \in [1..n -> Seqno] : g \in Seq(Seqno) /\ Len(g) = n
  OBVIOUS
<1>5. /\ s \in Seq(Seqno) /\ Len(s) = c /\ t \in Seq(Seqno) /\ Len(t) = d
      /\ u \in Seq(Seqno) /\ Len(u) = k
  <2> HIDE DEF s, t, u, d
  <2> QED BY <1>1, <1>3, <1>4
<1>6. /\ \A i \in 1..c : s[i] = i - 1
      /\ \A i \in 1..d : t[i] = c + i - 1
      /\ \A i \in 1..k : u[i] = i - 1
  OBVIOUS
<1>7. s \o t = u
  <2> HIDE DEF s, t, u, d
  <2>1. /\ s \o t \in Seq(Seqno) /\ Len(s \o t) = k
        /\ \A i \in 1..k : (s \o t)[i] = IF i <= c THEN s[i] ELSE t[i - c]
    BY <1>1, <1>5, ConcatProperties
  <2>2. ASSUME NEW i \in 1..k PROVE (s \o t)[i] = u[i]
    <3>1. CASE i <= c
      BY <1>1, <1>6, <2>1, <3>1
    <3>2. CASE i > c
      <4>1. i - c \in 1..d /\ c + (i - c) - 1 = i - 1
        BY <1>1, <3>2
      <4>2. ~(i <= c) /\ t[i - c] = i - 1
        BY <1>1, <1>6, <3>2, <4>1
      <4> QED BY <1>6, <2>1, <4>2
    <3>3. i <= c \/ i > c
      BY <1>1
    <3> QED BY <3>1, <3>2, <3>3
  <2> QED BY <1>5, <2>1, <2>2, SeqEqual
<1> QED BY <1>5, <1>7

\* What a handler must establish.
HandlerOK ==
  /\ state' \in PaxosState
  /\ inbox' \in [Mac -> Seq(Seqno)]
  /\ InOrder'
  /\ \A e \in out' : GoesRight(e)

\* p is the state that a handler has made so far: the head has not moved.
Going(p) == p \in PaxosState /\ p.cseq = state.cseq

LEMMA SetStateOK ==
  ASSUME Base, NEW p, NEW sent, Going(p), \A e \in sent : GoesRight(e), SetState(p, sent)
  PROVE  HandlerOK
BY DEF Base, Types, InOrder, EveryHostInOrder, Going, SetState, HandlerOK

\* A turn of the queue sends packets to all hosts or to nobody.
LEMMA ProcessQueueOK ==
  ASSUME Base, stage # "joining", NEW p, NEW n \in Nat, NEW wan, NEW sent, Going(p),
         WanOK(wan), \A e \in sent : GoesRight(e), ProcessQueue(p, n, wan, sent)
  PROVE  HandlerOK
<1>1. PICK k \in 0..MaxSeqno + 1 :
        /\ QueueEnd(p, k, HostAddressesKnown(wan))
        /\ state' = [p EXCEPT !.cseq = k,
                              !.processed = @ \cup {<<n, s>> : s \in p.cseq..k - 1}]
        /\ inbox' = [m \in Mac |->
                       inbox[m] \o IF m \in Hosts
                                   THEN [i \in 1..k - p.cseq |-> p.cseq + i - 1]
                                   ELSE <<>>]
        /\ out' = sent \cup UNION {SendToHosts(p, s) : s \in p.cseq..k - 1}
  BY DEF ProcessQueue
<1> DEFINE c == p.cseq
           t == [i \in 1..k - c |-> c + i - 1]
<1>2. /\ p \in PaxosState /\ c \in 0..MaxSeqno + 1 /\ c = state.cseq /\ MaxSeqno \in Nat
      /\ Types /\ Sides /\ Addresses /\ inbox \in [Mac -> Seq(Seqno)]
  BY BoundsAssumption DEF Going, PaxosState, Base, Types
<1>3. c <= k /\ k \in Nat /\ c \in Nat
  BY <1>1, <1>2 DEF QueueEnd
<1>4. state' \in PaxosState /\ state'.cseq = k
  <2>1. {<<n, s>> : s \in c..k - 1} \subseteq Nat \X Seqno
    BY <1>2, <1>3 DEF Seqno
  <2> QED BY <1>1, <1>2, <2>1 DEF PaxosState
<1>5. t \in Seq(Seqno) /\ [i \in 1..c |-> i - 1] \o t = [i \in 1..k |-> i - 1]
  BY <1>2, <1>3, UptoConcat
<1>6. inbox' = [m \in Mac |-> inbox[m] \o IF m \in Hosts THEN t ELSE <<>>]
  BY <1>1
<1>7. inbox' \in [Mac -> Seq(Seqno)]
  <2> HIDE DEF t
  <2>1. \A m \in Mac : inbox[m] \o (IF m \in Hosts THEN t ELSE <<>>) \in Seq(Seqno)
    BY <1>2, <1>5, EmptySeq, ConcatProperties
  <2> QED BY <1>6, <2>1
<1>8. ASSUME WanAsks, NEW m \in Mac
      PROVE  inbox'[m] = [i \in 1..(IF m \in Host THEN k ELSE 0) |-> i - 1]
  <2>1. inbox[m] = [i \in 1..(IF m \in Host THEN c ELSE 0) |-> i - 1]
    BY <1>2, <1>8 DEF Base, InOrder, EveryHostInOrder
  <2>2. inbox[m] \o <<>> = inbox[m]
    BY <1>2, ConcatEmptySeq
  <2>3. CASE HostAddressesKnown(wan)
    <3>1. Hosts = Host
      BY <1>2, <1>8, <2>3, KnownHosts
    <3>2. CASE m \in Host
      <4>1. inbox'[m] = inbox[m] \o t
        BY <1>6, <3>1, <3>2
      <4>2. inbox[m] = [i \in 1..c |-> i - 1]
        BY <2>1, <3>2
      <4> QED BY <1>5, <3>2, <4>1, <4>2
    <3>3. CASE m \notin Host
      BY <1>6, <2>1, <2>2, <3>1, <3>3
    <3> QED BY <3>2, <3>3
  <2>4. CASE ~HostAddressesKnown(wan)
    <3>1. k = c
      BY <1>1, <2>4 DEF QueueEnd
    <3>2. t = <<>>
      BY <1>3, <3>1
    <3> HIDE DEF t
    <3> QED BY <1>6, <2>1, <2>2, <3>1, <3>2
  <2> QED BY <2>3, <2>4
<1>9. InOrder'
  BY <1>4, <1>8 DEF InOrder, EveryHostInOrder
<1>10. ASSUME NEW e \in out' PROVE GoesRight(e)
  <2>1. CASE e \in sent
    BY <2>1
  <2>2. CASE e \notin sent
    <3>1. PICK s \in c..k - 1 : e \in SendToHosts(p, s)
      BY <1>1, <2>2
    <3>2. PICK m \in Hosts :
            e \in PutOut(RewriteDestinations(m, p.slots[s].vval), macports[m], None)
      BY <3>1 DEF SendToHosts
    <3>3. macports[m] \in Port \cup {All}
      BY DEF Hosts
    <3>4. RewriteDestinations(m, p.slots[s].vval).type \notin {"ACCEPT", "LEARN"}
      BY DEF RewriteDestinations
    <3> QED BY <3>2, <3>3, <3>4, PlainGoesRight
  <2> QED BY <2>1, <2>2
<1> QED BY <1>4, <1>7, <1>9, <1>10 DEF HandlerOK

-----------------------------------------------------------------------------
(* The message handlers *)

LEMMA GetSlotOK ==
  ASSUME NEW p, NEW s \in Seqno, Going(p)
  PROVE  Going(GetSlot(p, s)) /\ GetSlot(p, s).slots[s] \in Slot
BY DEF Going, GetSlot, PaxosState

LEMMA OnLearnOK ==
  ASSUME Base, stage # "joining", NEW p, NEW b \in Node, NEW n \in Nat, NEW s \in Seqno,
         NEW wan, NEW sent, Going(p), WanOK(wan), \A e \in sent : GoesRight(e),
         OnLearn(p, b, n, s, wan, sent)
  PROVE  HandlerOK
<1> DEFINE q == GetSlot(p, s)
           sl == AddLearn(q.slots[s], b, n)
           r == [q EXCEPT !.slots[s] = sl]
<1>1. Going(q) /\ q.slots[s] \in Slot
  BY GetSlotOK
<1>2. CASE CountsLearn(q.slots[s], b, n)
  <2>1. sl \in Slot
    BY <1>1 DEF AddLearn, Slot
  <2>2. Going(r)
    <3> HIDE DEF sl, q
    <3> QED BY <1>1, <2>1 DEF Going, PaxosState
  <2>3. ProcessQueue(r, n, wan, sent)
    BY <1>2 DEF OnLearn
  <2> HIDE DEF r
  <2> QED BY <2>2, <2>3, ProcessQueueOK
<1>3. CASE ~CountsLearn(q.slots[s], b, n)
  <2>1. SetState(q, sent)
    BY <1>3 DEF OnLearn
  <2> QED BY <1>1, <2>1, SetStateOK
<1> QED BY <1>2, <1>3

\* What the controller makes itself leaves for the nodes.
LEMMA SentRight ==
  ASSUME Base, NEW f, NEW b \in N \ {me}, f.dst = b
  PROVE  \A e \in PutOut(f, LookupPort(b), None) : GoesRight(e)
<1>1. LookupPort(b) = Hop[me][b] /\ Hop[me][b] # All /\ LookupPort(b) \in Port \cup {All}
  BY KnownFacts DEF Base, Types, Mac
<1> QED BY <1>1, PutOutFacts DEF GoesRight

LEMMA SendLearnsRight ==
  ASSUME Base, NEW n, NEW s
  PROVE  \A e \in SendLearns(n, s) : GoesRight(e)
<1>1. SUFFICES ASSUME NEW b \in N \ {me}, NEW e \in PutOut(Learn(me, b, n, s), LookupPort(b), None)
               PROVE  GoesRight(e)
  BY DEF SendLearns
<1>2. Learn(me, b, n, s).dst = b
  BY DEF Learn
<1> QED BY <1>1, <1>2, SentRight

LEMMA SendAcceptsRight ==
  ASSUME Base, NEW n, NEW s, NEW v
  PROVE  \A e \in SendAccepts(n, s, v) : GoesRight(e)
<1>1. SUFFICES ASSUME NEW b \in N \ {me}, NEW e \in PutOut(Accept(b, n, s, v), LookupPort(b), None)
               PROVE  GoesRight(e)
  BY DEF SendAccepts
<1>2. Accept(b, n, s, v).dst = b
  BY DEF Accept
<1> QED BY <1>1, <1>2, SentRight

LEMMA OnAcceptOK ==
  ASSUME Base, stage # "joining", NEW p, NEW n \in Nat, NEW s \in Seqno, NEW v \in Packet,
         NEW wan, NEW sent, Going(p), WanOK(wan), \A e \in sent : GoesRight(e),
         OnAccept(p, n, s, v, wan, sent)
  PROVE  HandlerOK
<1> DEFINE q == GetSlot(p, s)
           r == [q EXCEPT !.crnd = n, !.slots[s].vrnd = n, !.slots[s].vval = v]
<1>1. Going(q) /\ q.slots[s] \in Slot
  BY GetSlotOK
<1>2. CASE n >= p.crnd /\ n # q.slots[s].vrnd
  <2>1. Going(r)
    <3> DEFINE sl == [q.slots[s] EXCEPT !.vrnd = n, !.vval = v]
    <3>1. sl \in Slot
      BY <1>1 DEF Slot
    <3>2. r = [q EXCEPT !.crnd = n, !.slots = [@ EXCEPT ![s] = sl]]
      BY <1>1 DEF Going, PaxosState, Slot
    <3> HIDE DEF q, sl, r
    <3> QED BY <1>1, <3>1, <3>2 DEF Going, PaxosState
  <2>2. OnLearn(r, me, n, s, wan, sent \cup SendLearns(n, s))
    BY <1>2 DEF OnAccept
  <2>3. \A e \in sent \cup SendLearns(n, s) : GoesRight(e)
    BY SendLearnsRight
  <2>4. me \in Node
    BY DEF Base, Types
  <2> HIDE DEF r
  <2> QED BY <2>1, <2>2, <2>3, <2>4, OnLearnOK
<1>3. CASE ~(n >= p.crnd /\ n # q.slots[s].vrnd)
  <2>1. SetState(q, sent)
    BY <1>3 DEF OnAccept
  <2> QED BY <1>1, <2>1, SetStateOK
<1> QED BY <1>2, <1>3

\* What else a handler changes.
LogOK ==
  /\ wan_port' \in {Wan, None} /\ (me # Leader => wan_port' = None)
  /\ submitted' \in Seq(Packet) /\ Len(submitted') <= MaxSeqno + 1

\* A log that is not full has room for one more packet.
LEMMA LogGrows ==
  ASSUME Types, NEW v \in Packet, Len(submitted) \in Seqno, submitted' = Append(submitted, v)
  PROVE  submitted' \in Seq(Packet) /\ Len(submitted') <= MaxSeqno + 1
<1>1. submitted' \in Seq(Packet) /\ Len(submitted') = Len(submitted) + 1
  BY AppendProperties DEF Types
<1> QED BY <1>1, BoundsAssumption DEF Seqno

LEMMA OnClientOK ==
  ASSUME Base, stage # "joining", NEW v \in Packet, NEW in, in = ClientPort,
         OnClient(v, in)
  PROVE  HandlerOK /\ LogOK
<1>1. Types /\ Going(state) /\ state.crnd \in Nat
  BY DEF Base, Types, Going, PaxosState
<1>2. CASE me = Leader /\ stage \in {"leading", "pump", "gc"}
  <2> DEFINE s == Len(submitted)
             n == state.crnd
  <2>1. /\ s \in Seqno /\ wan_port' = in /\ submitted' = Append(submitted, v)
        /\ OnAccept(state, n, s, v, in, SendAccepts(n, s, v))
    BY <1>2 DEF OnClient
  <2>2. in = Wan /\ WanOK(in)
    BY <1>2 DEF ClientPort, WanOK
  <2>3. \A e \in SendAccepts(n, s, v) : GoesRight(e)
    BY SendAcceptsRight
  <2> HIDE DEF s, n
  <2>4. HandlerOK
    BY <1>1, <2>1, <2>2, <2>3, OnAcceptOK DEF n
  <2>5. LogOK
    BY <1>1, <1>2, <2>1, <2>2, LogGrows DEF LogOK, s
  <2> QED BY <2>4, <2>5
<1>3. CASE ~(me = Leader /\ stage \in {"leading", "pump", "gc"})
  <2>1. UNCHANGED <<wan_port, submitted>> /\ SetState(state, {})
    BY <1>3 DEF OnClient
  <2>2. HandlerOK
    BY <1>1, <2>1, SetStateOK
  <2> QED BY <1>1, <2>1, <2>2 DEF LogOK, Types
<1> QED BY <1>2, <1>3

\* What the surroundings send, and by which port it comes in.
Expected(f, in) ==
  /\ f.src \in Mac /\ f.dst \in Mac \cup {All} /\ in = Side(f.src) /\ in \in Port
  /\ f.type \in {"JOIN", "ACCEPT", "LEARN", "CLIENT", "arp", "ip"}
  /\ f.type = "JOIN" => f.mac = All \/ (f.mac = f.src /\ f.src \in Others)
  /\ f.type \in {"ACCEPT", "LEARN"} =>
       f.src \in Node /\ f.dst \in Node /\ f.n \in Nat /\ f.seqno \in Seqno
  /\ f.type = "ACCEPT" => f.v \in Packet
  /\ f.type = "CLIENT" => f.src \in Client /\ f.v \in Packet
  /\ f.type = "ip" => f.src \in Host \cup Client
  /\ f.src \in Client => WanIsUp

LEMMA HandleOK ==
  ASSUME Base, stage # "joining", NEW f, NEW in, Expected(f, in), Handle(f, in)
  PROVE  HandlerOK /\ LogOK
<1>1. Types /\ Going(state) /\ me \in Node /\ WanOK(wan_port)
  BY DEF Base, Types, Going, WanOK
<1>2. UNCHANGED <<wan_port, submitted>> => LogOK
  BY <1>1 DEF Types, LogOK
<1>3. ASSUME NEW sent, sent = {}, SetState(state, sent) PROVE HandlerOK
  BY <1>1, <1>3, SetStateOK
<1>4. CASE f.type = "CLIENT" /\ OnClient(f.v, in)
  <2>1. in = ClientPort /\ f.v \in Packet
    BY <1>1, <1>4, SideFacts DEF Expected
  <2> QED BY <1>4, <2>1, OnClientOK
<1>5. CASE /\ f.type = "ACCEPT"
           /\ IF f.dst \in {me, All}
              THEN OnAccept(state, f.n, f.seqno, f.v, wan_port, {}) ELSE SetState(state, {})
           /\ UNCHANGED <<wan_port, submitted>>
  <2>1. CASE f.dst \in {me, All}
    <3>1. OnAccept(state, f.n, f.seqno, f.v, wan_port, {})
      BY <1>5, <2>1
    <3>2. f.n \in Nat /\ f.seqno \in Seqno /\ f.v \in Packet
      BY <1>5 DEF Expected
    <3> QED BY <1>1, <1>2, <1>5, <3>1, <3>2, OnAcceptOK
  <2>2. CASE f.dst \notin {me, All}
    BY <1>2, <1>3, <1>5, <2>2
  <2> QED BY <2>1, <2>2
<1>6. CASE /\ f.type = "LEARN"
           /\ IF f.dst = me
              THEN OnLearn(state, f.src, f.n, f.seqno, wan_port, {}) ELSE SetState(state, {})
           /\ UNCHANGED <<wan_port, submitted>>
  <2>1. CASE f.dst = me
    <3>1. OnLearn(state, f.src, f.n, f.seqno, wan_port, {})
      BY <1>6, <2>1
    <3>2. f.n \in Nat /\ f.seqno \in Seqno /\ f.src \in Node
      BY <1>6 DEF Expected
    <3> QED BY <1>1, <1>2, <1>6, <3>1, <3>2, OnLearnOK
  <2>2. CASE f.dst # me
    BY <1>2, <1>3, <1>6, <2>2
  <2> QED BY <2>1, <2>2
<1> QED BY <1>4, <1>5, <1>6 DEF Handle

-----------------------------------------------------------------------------
(* Steps *)

\* What depends on the switch only stays.
LEMMA SidesStay ==
  ASSUME me' = me
  PROVE  Port' = Port /\ Others' = Others /\ \A m : Side(m)' = Side(m)
BY DEF Port, Others, Side

\* A step that learns nothing.
LEMMA TablesStay ==
  ASSUME Sides, Addresses, UNCHANGED <<me, tables>>, N' \ {me} = N \ {me}
  PROVE  Sides' /\ Addresses'
<1>1. UNCHANGED <<me, paxos_ports, macports, macip>>
  BY DEF tables
<1>2. \A m : Side(m)' = Side(m)
  BY <1>1, SidesStay
<1>3. Sides'
  BY <1>1, <1>2 DEF Sides
<1> QED BY <1>1, <1>3 DEF Addresses

\* What the switch has learned keeps the addresses in order.
LEMMA AddressesGrow ==
  ASSUME Addresses, NEW f, NEW in, Expected(f, in), me' = me,
         \A x \in Mac : macports[x] # None => macports'[x] # None,
         \A c \in Client : c # f.src => macports'[c] = macports[c],
         macip' = macip \cup (IF f.type = "ip" THEN {f.src} ELSE {})
  PROVE  Addresses'
<1>1. macip' \subseteq Host \cup Client
  BY DEF Addresses, Expected
<1>2. ASSUME WanAsks, me = Leader, NEW c \in Client, macports'[c] # None
      PROVE  macports'[Wan] # None
  <2>1. CASE c = f.src
    <3>1. macports[Wan] # None
      BY <1>2, <2>1 DEF Expected, WanIsUp
    <3> QED BY <3>1 DEF Mac
  <2>2. CASE c # f.src
    <3>1. macports[c] # None
      BY <1>2, <2>2
    <3>2. macports[Wan] # None
      BY <1>2, <3>1 DEF Addresses
    <3> QED BY <3>2 DEF Mac
  <2> QED BY <2>1, <2>2
<1> QED BY <1>1, <1>2 DEF Addresses

\* A step that only learns where the sender of f is.
LEMMA SwitchedOK ==
  ASSUME Base, NEW f, NEW in, Expected(f, in),
         UNCHANGED <<me, stage, N, paxos_ports, wan_port, state, submitted, inbox>>,
         macports' \in [Mac -> Node \cup Host \cup {Wan, None}],
         \A x \in Mac : macports'[x] \in {None, Side(x)},
         \A x \in Mac : macports[x] # None => macports'[x] = macports[x],
         \A x \in Mac : x # f.src => macports'[x] = macports[x],
         macip' = macip \cup (IF f.type = "ip" THEN {f.src} ELSE {})
  PROVE  Base'
<1>1. Types /\ Sides /\ Addresses /\ InOrder /\ me \in Node
  BY DEF Base, Types
<1>2. Types' /\ InOrder'
  BY <1>1 DEF Types, InOrder, EveryHostInOrder
<1>3. Sides'
  <2>1. \A x \in Mac : macports'[x] \in {None, Side(x)'}
    BY SidesStay
  <2>2. ASSUME NEW b \in N \ {me} PROVE macports'[b] = Hop[me][b]
    <3>1. b \in Mac /\ macports[b] = Hop[me][b] /\ b \in Others
      BY <1>1 DEF Types, Sides, Mac, Others
    <3>2. macports[b] # None
      BY <1>1, <3>1, PortFacts
    <3> QED BY <3>1, <3>2
  <2> QED BY <1>1, <2>1, <2>2 DEF Sides
<1>4. Addresses'
  <2>1. \A x \in Mac : macports[x] # None => macports'[x] # None
    OBVIOUS
  <2>2. \A c \in Client : c # f.src => macports'[c] = macports[c]
    BY DEF Mac
  <2> QED BY <1>1, <2>1, <2>2, AddressesGrow
<1> QED BY <1>2, <1>3, <1>4 DEF Base

\* A JOIN.
LEMMA OnJoinOK ==
  ASSUME Base, NEW f, NEW in, Expected(f, in), f.type = "JOIN", OnJoin(f, in),
         UNCHANGED <<me, stage, wan_port, state, submitted, inbox>>
  PROVE  Base' /\ \A e \in out' : GoesRight(e)
<1>1. /\ Types /\ Sides /\ Addresses /\ InOrder /\ me \in Node
      /\ macports \in [Mac -> Node \cup Host \cup {Wan, None}]
      /\ \A x \in Mac : macports[x] \in {None, Side(x)}
  BY DEF Base, Types, Sides
<1>2. f.src \in Mac /\ f.dst \in Mac \cup {All} /\ in = Side(f.src) /\ in \in Port /\ in # None
  BY <1>1, PortFacts DEF Expected
<1>3. InOrder'
  BY <1>1 DEF InOrder, EveryHostInOrder
<1>4. \A m : Side(m)' = Side(m)
  BY SidesStay
<1>5. CASE f.mac \notin N \cup {All}
  <2> DEFINE b == f.mac
             m == LearnPort(macports, b, in)
             sent == PutOut(Join(me, b, me), in, None)
  <2>1. /\ N' = N \cup {b} /\ paxos_ports' = [paxos_ports EXCEPT ![b] = in]
        /\ Switch(f, in, m, sent)
    BY <1>5 DEF OnJoin
  <2>2. b = f.src /\ b \in Others /\ b \in Mac /\ in = Hop[me][b]
    BY <1>1, <1>2, <1>5, SideFacts DEF Expected, Others, Mac
  <2>3. /\ m \in [Mac -> Node \cup Host \cup {Wan, None}]
        /\ \A x \in Mac : m[x] \in {None, Side(x)}
        /\ \A x \in Mac : macports[x] # None => m[x] = macports[x]
        /\ \A x \in Mac : x # b => m[x] = macports[x]
        /\ m[b] # None
    <3>1. CASE macports[b] = None
      <4>1. m = [macports EXCEPT ![b] = in]
        BY <3>1 DEF LearnPort
      <4>2. in \in Node \cup Host \cup {Wan, None}
        BY <1>1, <1>2, PortFacts
      <4> HIDE DEF m
      <4> QED BY <1>1, <1>2, <2>2, <3>1, <4>1, <4>2
    <3>2. CASE macports[b] # None
      <4>1. m = macports
        BY <3>2 DEF LearnPort
      <4> HIDE DEF m
      <4> QED BY <1>1, <2>2, <3>2, <4>1
    <3> QED BY <3>1, <3>2
  <2>4. \A e \in sent : GoesRight(e)
    <3>1. Join(me, b, me).type \notin {"ACCEPT", "LEARN"}
      BY DEF Join
    <3> QED BY <1>2, <3>1, PlainGoesRight
  <2> HIDE DEF b, m, sent
  <2>5. /\ macports' \in [Mac -> Node \cup Host \cup {Wan, None}]
        /\ \A x \in Mac : macports'[x] \in {None, Side(x)}
        /\ \A x \in Mac : m[x] # None => macports'[x] = m[x]
        /\ \A x \in Mac : x # f.src => macports'[x] = m[x]
        /\ macip' = macip \cup (IF f.type = "ip" THEN {f.src} ELSE {})
        /\ \A e \in out' : GoesRight(e)
    <3>1. f.type \notin {"ACCEPT", "LEARN"}
      OBVIOUS
    <3> QED BY <1>1, <1>2, <2>1, <2>3, <2>4, <3>1, SwitchOK
  <2>6. Types'
    BY <1>1, <2>1, <2>2, <2>5 DEF Types, Others
  <2>7. Sides'
    <3>1. \A x \in Mac : macports'[x] \in {None, Side(x)'}
      BY <1>4, <2>5
    <3>2. macports'[b] = Hop[me][b]
      BY <1>1, <2>2, <2>3, <2>5, SideFacts
    <3>3. ASSUME NEW x \in N \ {me}, x # b PROVE macports'[x] = Hop[me][x]
      <4>1. x \in Mac /\ macports[x] = Hop[me][x]
        BY <1>1 DEF Types, Sides, Mac
      <4> QED BY <2>2, <2>3, <2>5, <3>3, <4>1
    <3>4. paxos_ports' = [x \in Node |-> IF x \in N' \ {me} THEN Hop[me][x] ELSE None]
      BY <1>1, <2>1, <2>2 DEF Sides, Others
    <3> QED BY <2>1, <3>1, <3>2, <3>3, <3>4 DEF Sides
  <2>8. Addresses'
    <3>1. \A x \in Mac : macports[x] # None => macports'[x] # None
      BY <2>3, <2>5
    <3>2. \A c \in Client : c # f.src => macports'[c] = macports[c]
      BY <2>2, <2>3, <2>5 DEF Mac
    <3> QED BY <1>1, <2>5, <3>1, <3>2, AddressesGrow
  <2> QED BY <1>3, <2>5, <2>6, <2>7, <2>8 DEF Base
<1>6. CASE f.mac \in N \cup {All}
  <2> DEFINE sent == IF f.mac = All THEN PutOut(Join(me, All, me), All, None) ELSE {}
  <2>1. UNCHANGED <<N, paxos_ports>> /\ Switch(f, in, macports, sent)
    BY <1>6 DEF OnJoin
  <2>2. \A e \in sent : GoesRight(e)
    <3>1. Join(me, All, me).type \notin {"ACCEPT", "LEARN"}
      BY DEF Join
    <3> QED BY <3>1, PlainGoesRight
  <2> HIDE DEF sent
  <2>3. /\ macports' \in [Mac -> Node \cup Host \cup {Wan, None}]
        /\ \A x \in Mac : macports'[x] \in {None, Side(x)}
        /\ \A x \in Mac : macports[x] # None => macports'[x] = macports[x]
        /\ \A x \in Mac : x # f.src => macports'[x] = macports[x]
        /\ macip' = macip \cup (IF f.type = "ip" THEN {f.src} ELSE {})
        /\ \A e \in out' : GoesRight(e)
    <3>1. f.type \notin {"ACCEPT", "LEARN"}
      OBVIOUS
    <3> QED BY <1>1, <1>2, <2>1, <2>2, <3>1, SwitchOK
  <2> QED BY <1>1, <1>3, <1>4, <2>1, <2>3, SwitchedOK
<1> QED BY <1>5, <1>6

LEMMA PacketInOK ==
  ASSUME Base, NEW f, NEW in, Expected(f, in), PacketIn(f, in)
  PROVE  Base' /\ \A e \in out' : GoesRight(e)
<1>1. /\ Types /\ Sides /\ Addresses /\ me \in Node /\ UNCHANGED <<me, stage>>
      /\ macports \in [Mac -> Node \cup Host \cup {Wan, None}]
      /\ \A x \in Mac : macports[x] \in {None, Side(x)}
  BY DEF Base, Types, Sides, PacketIn
<1>2. CASE f.type = "JOIN"
  <2>1. OnJoin(f, in) /\ UNCHANGED <<wan_port, state, submitted, inbox>>
    BY <1>2 DEF PacketIn
  <2> QED BY <1>1, <1>2, <2>1, OnJoinOK
<1>3. CASE f.type # "JOIN" /\ Dispatches(f, in) /\ stage # "joining"
  <2>1. Handle(f, in) /\ UNCHANGED <<N, paxos_ports, macports, macip>>
    BY <1>3 DEF PacketIn
  <2>2. HandlerOK /\ LogOK
    BY <1>3, <2>1, HandleOK
  <2>3. Types'
    BY <1>1, <2>1, <2>2 DEF Types, HandlerOK, LogOK
  <2>4. Sides' /\ Addresses'
    <3>1. \A x : Side(x)' = Side(x)
      BY <1>1, SidesStay
    <3>2. Sides'
      BY <1>1, <2>1, <3>1 DEF Sides
    <3> QED BY <1>1, <2>1, <3>2 DEF Addresses
  <2> QED BY <2>2, <2>3, <2>4 DEF Base, HandlerOK
<1>4. CASE ~(f.type = "JOIN" \/ (Dispatches(f, in) /\ stage # "joining"))
  <2>1. /\ Switch(f, in, macports, {})
        /\ UNCHANGED <<N, paxos_ports, wan_port, state, submitted, inbox>>
    BY <1>4 DEF PacketIn
  <2>2. stage # "joining" /\ f.type \in {"ACCEPT", "LEARN"} =>
          f.dst \in Others /\ macports[f.dst] = Hop[me][f.dst]
    <3>1. ASSUME stage # "joining", f.type \in {"ACCEPT", "LEARN"}
          PROVE  f.dst \in Others /\ macports[f.dst] = Hop[me][f.dst]
      <4>1. f.dst \in Node /\ f.dst # me
        BY <1>4, <3>1 DEF Expected, Dispatches
      <4>2. N = Node
        BY <1>1, <3>1 DEF Types
      <4> QED BY <1>1, <4>1, <4>2 DEF Sides, Others
    <3> QED BY <3>1
  <2>3. f.src \in Mac /\ f.dst \in Mac \cup {All} /\ in = Side(f.src) /\ in # None
    BY <1>1, PortFacts DEF Expected
  <2>4. /\ macports' \in [Mac -> Node \cup Host \cup {Wan, None}]
        /\ \A x \in Mac : macports'[x] \in {None, Side(x)}
        /\ \A x \in Mac : macports[x] # None => macports'[x] = macports[x]
        /\ \A x \in Mac : x # f.src => macports'[x] = macports[x]
        /\ macip' = macip \cup (IF f.type = "ip" THEN {f.src} ELSE {})
        /\ \A e \in out' : GoesRight(e)
    <3>1. \A e \in {} : GoesRight(e)
      OBVIOUS
    <3> QED BY <1>1, <2>1, <2>2, <2>3, <3>1, SwitchOK
  <2> QED BY <1>1, <2>1, <2>4, SwitchedOK
<1> QED BY <1>2, <1>3, <1>4

\* What comes in is expected.
LEMMA SurroundingsOK ==
  ASSUME Base,
         \/ \E b \in Others : ReceiveJoin(b) \/ ReceiveLearn(b)
         \/ ReceiveAsk \/ ReceiveAccept
         \/ \E c \in Client : ReceiveClient(c) \/ ClientPings(c)
         \/ \E h \in Host : HostAsks(h) \/ HostPings(h)
  PROVE  \E f, in : Expected(f, in) /\ PacketIn(f, in)
<1>1. /\ me \in Node /\ submitted \in Seq(Packet) /\ Len(submitted) <= MaxSeqno + 1
      /\ Len(submitted) \in Nat /\ MaxSeqno \in Nat
  BY BoundsAssumption, LenProperties DEF Base, Types
<1>2. \A d \in Others : /\ d \in Mac /\ d \in Node /\ d \notin Client
                        /\ Hop[me][d] = Side(d) /\ Hop[me][d] \in Port
                        /\ Beyond(d) \subseteq Node
  BY <1>1, SideFacts, PortFacts, Names DEF Others, Mac, Beyond
<1>3. Rounds \subseteq Nat
  <2>1. NodeId[Leader] \in Nat /\ Cardinality(Node) \in Nat
    BY NodeAssumption, NodeIdAssumption, FS_CardinalityType
  <2> QED BY <2>1 DEF Rounds
<1>4. \A s \in 0..Len(submitted) - 1 : s \in Seqno /\ submitted[s + 1] \in Packet
  <2>1. ASSUME NEW s \in 0..Len(submitted) - 1 PROVE s + 1 \in 1..Len(submitted) /\ s \in Seqno
    BY <1>1 DEF Seqno
  <2> QED BY <1>1, <2>1, ElementOfSeq
<1>5. /\ \A c \in Client : ClientPort = Side(c) /\ ClientPort \in Port /\ c \in Mac
      /\ \A h \in Host : Side(h) = h /\ h \in Port /\ h \in Mac /\ h \notin Client
  <2>1. ClientPort # None
    <3>1. \A d \in Others : Hop[me][d] # None
      BY <1>1, PortFacts
    <3>2. Wan # None
      BY Names DEF Mac
    <3> QED BY <3>1, <3>2, Names DEF ClientPort, Others
  <2> QED BY <1>1, <2>1, SideFacts, PortFacts, Names DEF Mac
<1>6. ASSUME NEW b \in Others, ReceiveJoin(b) PROVE \E f, in : Expected(f, in) /\ PacketIn(f, in)
  <2>1. PICK dst \in Beyond(b) \cup {All}, mac \in {b, All} :
          PacketIn(Join(b, dst, mac), Hop[me][b])
    BY <1>6 DEF ReceiveJoin
  <2>2. Expected(Join(b, dst, mac), Hop[me][b])
    BY <1>2 DEF Expected, Join, Mac
  <2> QED BY <2>1, <2>2
<1>7. ASSUME NEW b \in Others, ReceiveLearn(b) PROVE \E f, in : Expected(f, in) /\ PacketIn(f, in)
  <2>1. PICK dst \in Beyond(b), n \in Rounds, s \in 0..Len(submitted) - 1 :
          PacketIn(Learn(b, dst, n, s), Hop[me][b])
    BY <1>7 DEF ReceiveLearn
  <2>2. Expected(Learn(b, dst, n, s), Hop[me][b])
    BY <1>2, <1>3, <1>4 DEF Expected, Learn, Mac
  <2> QED BY <2>1, <2>2
<1>8. CASE ReceiveAsk
  <2>1. me = Leader /\ PacketIn(Join(Wan, All, All), Wan)
    BY <1>8 DEF ReceiveAsk
  <2>2. Side(Wan) = Wan /\ Wan \in Port /\ Wan \in Mac /\ Wan \notin Client
    BY <1>1, <2>1, SideFacts, PortFacts, Names DEF Mac
  <2>3. Expected(Join(Wan, All, All), Wan)
    BY <2>2 DEF Expected, Join
  <2> QED BY <2>1, <2>3
<1>9. CASE ReceiveAccept
  <2>1. Leader \in Others
    BY <1>9, Names DEF ReceiveAccept, Others
  <2>2. PICK dst \in Beyond(Leader), n \in Rounds, s \in 0..Len(submitted) - 1 :
          PacketIn(Accept(dst, n, s, submitted[s + 1]), Hop[me][Leader])
    BY <1>9 DEF ReceiveAccept
  <2>3. Expected(Accept(dst, n, s, submitted[s + 1]), Hop[me][Leader])
    BY <1>2, <1>3, <1>4, <2>1 DEF Expected, Accept, Mac
  <2> QED BY <2>2, <2>3
<1>10. ASSUME NEW c \in Client, ReceiveClient(c) PROVE \E f, in : Expected(f, in) /\ PacketIn(f, in)
  <2>1. PICK dst \in Host \cup {All}, v \in Packet : PacketIn(ClientFrame(c, dst, v), ClientPort)
    BY <1>10 DEF ReceiveClient
  <2>2. Expected(ClientFrame(c, dst, v), ClientPort)
    BY <1>5, <1>10 DEF Expected, ClientFrame, Mac, ReceiveClient
  <2> QED BY <2>1, <2>2
<1>11. ASSUME NEW c \in Client, ClientPings(c) PROVE \E f, in : Expected(f, in) /\ PacketIn(f, in)
  <2>1. /\ Expected(Plain("arp", c, All), ClientPort)
        /\ \A g \in Host : Expected(Plain("ip", c, g), ClientPort)
    BY <1>5, <1>11 DEF Expected, Plain, Mac, ClientPings
  <2> QED BY <1>11, <2>1 DEF ClientPings
<1>12. ASSUME NEW h \in Host, HostAsks(h) PROVE \E f, in : Expected(f, in) /\ PacketIn(f, in)
  <2>1. Expected(Plain("arp", h, All), h)
    BY <1>5 DEF Expected, Plain
  <2> QED BY <1>12, <2>1 DEF HostAsks
<1>13. ASSUME NEW h \in Host, HostPings(h) PROVE \E f, in : Expected(f, in) /\ PacketIn(f, in)
  <2>1. PICK d \in Client : PacketIn(Plain("ip", h, d), h)
    BY <1>13 DEF HostPings
  <2>2. Expected(Plain("ip", h, d), h)
    BY <1>5 DEF Expected, Plain, Mac
  <2> QED BY <2>1, <2>2
<1> QED BY <1>6, <1>7, <1>8, <1>9, <1>10, <1>11, <1>12, <1>13

\* A step of one of the controller's own threads that processes no message.
LEMMA ThreadOK ==
  ASSUME Base, UNCHANGED <<me, tables, submitted>>, N' \ {me} = N \ {me}, N' \subseteq Node,
         stage' \in {"joining", "joined", "leading", "pump", "gc"},
         stage' # "joining" => N' = Node, HandlerOK
  PROVE  Base' /\ \A e \in out' : GoesRight(e)
<1>1. Sides' /\ Addresses'
  BY TablesStay DEF Base
<1>2. Types'
  BY DEF Base, Types, tables, HandlerOK
<1> QED BY <1>1, <1>2 DEF Base, HandlerOK

\* Every step keeps the invariant, and what it sends goes right.
LEMMA NextOK ==
  ASSUME Base, Next
  PROVE  Base' /\ \A e \in out' : GoesRight(e)
<1>1. /\ Types /\ InOrder /\ me \in Node /\ N \subseteq Node /\ Going(state)
      /\ stage # "joining" => N = Node
  BY DEF Base, Types, Going
<1>2. ASSUME UNCHANGED <<state, inbox>>, \A e \in out' : GoesRight(e) PROVE HandlerOK
  BY <1>1, <1>2 DEF Types, InOrder, EveryHostInOrder, HandlerOK
<1>3. /\ \A e \in PutOut(Join(me, All, me), All, None) : GoesRight(e)
      /\ \A e \in PutOut(Join(me, All, All), All, None) : GoesRight(e)
  <2>1. Join(me, All, me).type = "JOIN" /\ Join(me, All, All).type = "JOIN"
    BY DEF Join
  <2> QED BY <2>1, PlainGoesRight
<1>4. CASE Announce
  <2>1. HandlerOK
    BY <1>2, <1>3, <1>4 DEF Announce
  <2>2. /\ UNCHANGED <<me, tables, submitted, stage>> /\ N' = N \cup {me}
    BY <1>4 DEF Announce
  <2> QED BY <1>1, <2>1, <2>2, ThreadOK DEF Types
<1>5. CASE AskAgain
  <2>1. HandlerOK
    BY <1>2, <1>3, <1>5 DEF AskAgain
  <2>2. UNCHANGED <<me, tables, submitted, stage, N>>
    BY <1>5 DEF AskAgain
  <2> QED BY <1>1, <2>1, <2>2, ThreadOK DEF Types
<1>6. CASE Joined
  <2>1. HandlerOK
    BY <1>2, <1>6 DEF Joined
  <2>2. UNCHANGED <<me, tables, submitted, N>> /\ stage' = "joined"
    BY <1>6 DEF Joined
  <2>3. N = Node
    BY <1>1, <1>6, NodeAssumption, FS_Subset DEF Joined
  <2> QED BY <1>1, <2>1, <2>2, <2>3, ThreadOK
<1>7. CASE MakeLeader
  <2>1. HandlerOK
    BY <1>2, <1>7 DEF MakeLeader
  <2>2. UNCHANGED <<me, tables, submitted, N>> /\ stage' = "leading" /\ stage # "joining"
    BY <1>7 DEF MakeLeader
  <2> QED BY <1>1, <2>1, <2>2, ThreadOK
<1>8. CASE StartPump
  <2>1. /\ UNCHANGED <<me, tables, submitted, N, inbox>> /\ stage' = "pump" /\ stage # "joining"
        /\ out' = {}
        /\ state' = IF me = Leader THEN [state EXCEPT !.crnd = @ + Cardinality(N)] ELSE state
    BY <1>8 DEF StartPump
  <2>2. state' \in PaxosState /\ state'.cseq = state.cseq
    <3>1. Cardinality(N) \in Nat
      BY <1>1, NodeAssumption, FS_Subset, FS_CardinalityType
    <3> QED BY <1>1, <2>1, <3>1 DEF Going, PaxosState
  <2>3. HandlerOK
    BY <1>1, <2>1, <2>2 DEF Types, InOrder, EveryHostInOrder, HandlerOK
  <2> QED BY <1>1, <2>1, <2>3, ThreadOK
<1>9. CASE Pump
  <2>1. /\ stage = "pump" /\ stage' = "gc" /\ UNCHANGED <<me, N, tables, submitted>>
        /\ ProcessQueue(state, state.crnd, wan_port, {})
    BY <1>9 DEF Pump
  <2>2. WanOK(wan_port) /\ state.crnd \in Nat
    BY <1>1 DEF Types, WanOK, Going, PaxosState
  <2>3. \A e \in {} : GoesRight(e)
    OBVIOUS
  <2>4. HandlerOK
    BY <1>1, <2>1, <2>2, <2>3, ProcessQueueOK
  <2> QED BY <1>1, <2>1, <2>4, ThreadOK
<1>10. CASE GarbageCollect
  <2>1. /\ stage = "gc" /\ stage' = "pump" /\ UNCHANGED <<me, N, tables, submitted>>
        /\ SetState(Evict(state), {})
    BY <1>10 DEF GarbageCollect
  <2>2. Going(Evict(state))
    <3>1. NewSlot \in Slot
      BY DEF NewSlot, Slot
    <3> QED BY <1>1, <3>1 DEF Evict, Going, PaxosState
  <2>3. \A e \in {} : GoesRight(e)
    OBVIOUS
  <2>4. HandlerOK
    BY <2>1, <2>2, <2>3, SetStateOK
  <2> QED BY <1>1, <2>1, <2>4, ThreadOK
<1>11. CASE LeaderNumbers
  <2>1. PICK v \in Packet : submitted' = Append(submitted, v)
    BY <1>11 DEF LeaderNumbers
  <2>2. /\ UNCHANGED <<me, stage, N, tables, state, inbox>> /\ out' = {}
        /\ Len(submitted) \in Seqno
    BY <1>11 DEF LeaderNumbers
  <2>3. submitted' \in Seq(Packet) /\ Len(submitted') <= MaxSeqno + 1
    BY <1>1, <2>1, <2>2, LogGrows
  <2>4. Types'
    BY <1>1, <2>2, <2>3 DEF Types, tables
  <2>5. Sides' /\ Addresses'
    BY <2>2, TablesStay DEF Base
  <2>6. InOrder'
    BY <1>1, <2>2 DEF InOrder, EveryHostInOrder
  <2> QED BY <2>2, <2>4, <2>5, <2>6 DEF Base
<1>12. CASE \/ \E b \in Others : ReceiveJoin(b) \/ ReceiveLearn(b)
            \/ ReceiveAsk \/ ReceiveAccept
            \/ \E c \in Client : ReceiveClient(c) \/ ClientPings(c)
            \/ \E h \in Host : HostAsks(h) \/ HostPings(h)
  BY <1>12, SurroundingsOK, PacketInOK
<1> QED BY <1>4, <1>5, <1>6, <1>7, <1>8, <1>9, <1>10, <1>11, <1>12 DEF Next, Start, Background

LEMMA InitOK == Init => IInv
<1>1. SUFFICES ASSUME Init PROVE IInv
  OBVIOUS
<1>2. Types
  <2>1. state \in PaxosState
    <3>1. NodeId[me] \in Nat
      BY <1>1, NodeIdAssumption DEF Init
    <3>2. NewSlot \in Slot
      BY DEF NewSlot, Slot
    <3> QED BY <1>1, <3>1, <3>2, BoundsAssumption DEF Init, PaxosState
  <2>2. \A S : <<>> \in Seq(S) /\ Len(<<>>) = 0
    BY EmptySeq
  <2> QED BY <1>1, <2>1, <2>2, BoundsAssumption DEF Init, Types
<1>3. Sides /\ Addresses
  BY <1>1 DEF Init, Sides, Addresses, Mac
<1>4. InOrder
  <2>1. state.cseq = 0 /\ \A m \in Mac : inbox[m] = <<>>
    BY <1>1 DEF Init
  <2>2. [i \in 1..0 |-> i - 1] = <<>>
    OBVIOUS
  <2> QED BY <2>1, <2>2 DEF InOrder, EveryHostInOrder
<1> QED BY <1>1, <1>2, <1>3, <1>4 DEF IInv, Base, Init

-----------------------------------------------------------------------------

LEMMA NextIInv == IInv /\ [Next]_vars => IInv'
<1>1. ASSUME IInv, Next PROVE IInv'
  <2>1. Base' /\ \A e \in out' : GoesRight(e)
    BY <1>1, NextOK DEF IInv
  <2>2. Port' = Port
    <3>1. me' = me
      BY <1>1 DEF Next, Start, Background, Announce, Joined, MakeLeader, StartPump, AskAgain,
           Pump, GarbageCollect, ReceiveJoin, ReceiveLearn, ReceiveAsk, ReceiveAccept,
           LeaderNumbers, ReceiveClient, ClientPings, HostAsks, HostPings, PacketIn
    <3> QED BY <3>1, SidesStay
  <2> QED BY <2>1, <2>2 DEF IInv, GoesRight
<1>2. ASSUME IInv, UNCHANGED vars PROVE IInv'
  <2>1. UNCHANGED <<me, stage, N, tables, state, submitted, inbox, out>>
    BY <1>2 DEF vars
  <2>2. Types' /\ InOrder'
    BY <1>2, <2>1 DEF IInv, Base, Types, InOrder, EveryHostInOrder, tables
  <2>3. Sides' /\ Addresses'
    BY <1>2, <2>1, TablesStay DEF IInv, Base
  <2>4. Port' = Port
    BY <2>1, SidesStay
  <2> QED BY <1>2, <2>1, <2>2, <2>3, <2>4 DEF IInv, Base
<1> QED BY <1>1, <1>2

\* The invariant holds, wherever in whatever topology the switch is.
THEOREM Invariant == Spec => []IInv
<1> QED BY InitOK, NextIInv, PTL DEF Spec

\* Every variable holds a value of the kind the code gives it.
THEOREM TypeCorrect == Spec => []TypeOK
<1>1. IInv => TypeOK
  <2>1. SUFFICES ASSUME IInv PROVE TypeOK
    OBVIOUS
  <2>2. Types /\ Sides /\ \A e \in out : e.port \in Port
    BY <2>1 DEF IInv, Base
  <2>3. macip \subseteq Mac
    BY <2>1 DEF IInv, Base, Addresses, Mac
  <2>4. paxos_ports \in [Node -> Node \cup {None}]
    BY <2>2, Names DEF Types, Sides
  <2> QED BY <2>2, <2>3, <2>4 DEF TypeOK, Types, PaxosState
<1> QED BY <1>1, Invariant, PTL

\* Where the WAN switch's address is known before a client's frames come, a packet goes to
\* all hosts, or is postponed (process_message): each host gets all that count as
\* processed, in order and once, and nobody else gets any.
THEOREM AllHostsInOrder ==
  ASSUME WanAsks
  PROVE  Spec => []EveryHostInOrder
<1>1. IInv => EveryHostInOrder
  BY DEF IInv, Base, InOrder
<1> QED BY <1>1, Invariant, PTL

\* Once the network is joined, ACCEPTs and LEARNs leave only by the port that leads to
\* their node, those that the controller makes and those that it passes on (lookup_port,
\* learn_port in on_join).
THEOREM NoStrayFrames == Spec => PaxosFindsItsWay
<1>1. ASSUME IInv, [Next]_vars
      PROVE  [stage # "joining" =>
                \A e \in out' : e.frame.type \in {"ACCEPT", "LEARN"} =>
                                  e.port = Hop[me][e.frame.dst]]_vars
  BY <1>1, NextOK DEF IInv, GoesRight
<1> QED BY <1>1, Invariant, PTL DEF Spec, PaxosFindsItsWay

\* From then on it passes on what is for the node beyond it, in the right direction, and
\* does not take it for itself (handle_paxos, is_wan_port).
THEOREM Transit == Spec => []TransitPassesOn
<1>1. IInv => TransitPassesOn
  <2>1. SUFFICES ASSUME IInv, stage # "joining", NEW b \in Others, NEW c \in Beyond(b) \ {me}
                 PROVE  /\ ~Dispatches(Learn(b, c, NodeId[Leader], 0), Hop[me][b])
                        /\ LookupPort(c) = Hop[me][c]
    BY DEF TransitPassesOn
  <2>2. /\ ~IsWanPort(Hop[me][b]) /\ c \in Others /\ c # All
        /\ \A d \in Others : LookupPort(d) = Hop[me][d]
    BY <2>1, JoinedPorts, Names DEF IInv, Base, Beyond, Others, Mac
  <2> QED BY <2>1, <2>2 DEF Dispatches, Learn
<1> QED BY <1>1, Invariant, PTL
=============================================================================
