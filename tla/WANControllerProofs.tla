------------------------- MODULE WANControllerProofs -------------------------
(* Proofs about WANController, for any clients, hosts and number of frames.  *)
EXTENDS WANController, SequenceTheorems, TLAPS

-----------------------------------------------------------------------------
(* The inductive invariant *)

Upcall == [frame: Frame \cup {JoinMsg}, in: Port]

Types ==
  /\ paxos_port \in {None, Pax}
  /\ wan_macports \in [Client \cup Host -> Client \cup {None}]
  /\ upcalls \in Seq(Upcall)
  /\ toPaxos \in Seq(Frame)
  /\ sent \in Seq(Frame)
  /\ replies \in Nat

\* Where a frame comes from is where its sender is; of the WAN side, the sender of what
\* has got out is known, and so is whoever a host answers.
CameFrom(u) ==
  /\ u.frame.src \in Client => u.in = u.frame.src
  /\ u.frame.src \notin Client => u.in = Pax
  /\ u.frame.src \in Host /\ u.frame.dst \in Client => wan_macports[u.frame.dst] # None

Sides ==
  /\ \A h \in Host : wan_macports[h] = None
  /\ paxos_port = None => toPaxos = <<>>
  /\ \A i \in 1..Len(upcalls) : CameFrom(upcalls[i])
  /\ \A i \in 1..Len(toPaxos) :
       toPaxos[i].src \in Client => wan_macports[toPaxos[i].src] # None

\* The clients' frames are numbered as they are sent.
Numbered ==
  \A k \in 1..Len(sent) :
    sent[k].id = k /\ sent[k].src \in Client /\ sent[k].kind \in {"data", "other"}

FromClient(i) == i \in 1..Len(upcalls) /\ upcalls[i].frame.src \in Client

\* The clients' frames wait in the order they were sent, none missing.
Waiting ==
  \A i \in 1..Len(upcalls) : FromClient(i) =>
    /\ \E k \in 1..Len(sent) : upcalls[i].frame = sent[k]
    /\ \A j \in 1..Len(upcalls) :
         i < j /\ FromClient(j) => upcalls[i].frame.id < upcalls[j].frame.id
    /\ \A k \in 1..Len(sent) : k > upcalls[i].frame.id =>
         \E j \in 1..Len(upcalls) : upcalls[j].frame = sent[k]

\* What has come out was sent before what waits.
OutFirst ==
  \A i \in 1..Len(toPaxos) : ForHost(toPaxos[i]) =>
    \A j \in 1..Len(upcalls) : FromClient(j) => toPaxos[i].id < upcalls[j].frame.id

IInv ==
  Types /\ Sides /\ RepliesGetOut /\ Numbered /\ Waiting /\ OutFirst /\ OnlyThePrefixIsLost

-----------------------------------------------------------------------------
(* Frames *)

\* Names that differ.
LEMMA Names ==
  /\ JoinMsg \notin Frame /\ JoinMsg.src = Pax /\ JoinMsg.dst = All
  /\ Pax \notin Client /\ Pax \notin Host /\ None \notin Client /\ All \notin Client
  /\ All \notin Host /\ Pax # None /\ \A c \in Client : c \notin Host
<1>1. /\ Pax \notin Client /\ Pax \notin Host /\ None \notin Client /\ All \notin Client
      /\ All \notin Host /\ Pax # None /\ \A c \in Client : c \notin Host
  BY NameAssumption
<1>2. JoinMsg.src = Pax /\ JoinMsg.dst = All
  BY DEF JoinMsg
<1>3. JoinMsg \notin Frame
  BY <1>1, <1>2 DEF Frame
<1> QED BY <1>1, <1>2, <1>3

\* The oldest entry of a queue, and those behind it.
LEMMA First ==
  ASSUME NEW S, NEW q \in Seq(S), q # <<>>
  PROVE  /\ Head(q) \in S /\ Head(q) = q[1] /\ Tail(q) \in Seq(S)
         /\ Len(q) \in Nat /\ Len(q) > 0 /\ Len(Tail(q)) = Len(q) - 1
         /\ \A i \in 1..Len(Tail(q)) : i + 1 \in 1..Len(q) /\ Tail(q)[i] = q[i + 1]
         /\ \A i \in 1..Len(q) : i = 1 \/ (i - 1 \in 1..Len(Tail(q)) /\ Tail(q)[i - 1] = q[i])
<1>1. Len(q) \in Nat /\ Len(q) > 0
  BY EmptySeq
<1>2. /\ Tail(q) \in Seq(S) /\ Len(Tail(q)) = Len(q) - 1
      /\ \A i \in 1..Len(Tail(q)) : Tail(q)[i] = q[i + 1]
  BY HeadTailProperties
<1>3. Head(q) = q[1] /\ Head(q) \in S
  BY HeadTailProperties
<1>4. ASSUME NEW i \in 1..Len(q), i # 1
      PROVE  i - 1 \in 1..Len(Tail(q)) /\ Tail(q)[i - 1] = q[i]
  BY <1>1, <1>2, <1>4
<1> QED BY <1>1, <1>2, <1>3, <1>4

\* A queue with one more entry.
LEMMA Last ==
  ASSUME NEW S, NEW q \in Seq(S), NEW x \in S
  PROVE  /\ Append(q, x) \in Seq(S) /\ Len(q) \in Nat /\ Len(Append(q, x)) = Len(q) + 1
         /\ Append(q, x)[Len(q) + 1] = x
         /\ \A i \in 1..Len(q) : i \in 1..Len(Append(q, x)) /\ Append(q, x)[i] = q[i]
         /\ \A i \in 1..Len(Append(q, x)) : i \in 1..Len(q) \/ i = Len(q) + 1
<1>1. /\ Append(q, x) \in Seq(S) /\ Len(q) \in Nat /\ Len(Append(q, x)) = Len(q) + 1
      /\ Append(q, x)[Len(q) + 1] = x /\ \A i \in 1..Len(q) : Append(q, x)[i] = q[i]
  BY AppendProperties, LenProperties
<1> QED BY <1>1

\* What wrapping does to a frame.
LEMMA WrappedFacts ==
  ASSUME NEW f \in Frame
  PROVE  /\ Wrapped(f) \in Frame /\ Wrapped(f).src = f.src /\ Wrapped(f).dst = f.dst
         /\ Wrapped(f).id = f.id /\ Wrapped(f).kind = "client"
BY DEF Frame, Wrapped

\* The fields of a frame.
LEMMA FrameFacts ==
  ASSUME NEW f \in Frame
  PROVE  /\ f.src \in Client \cup Host /\ f.dst \in Client \cup Host \cup {All}
         /\ f.id \in Nat
BY BoundsAssumption DEF Frame

\* What the controller makes of a frame once it knows the port of the Paxos network.
LEMMA DispatchFacts ==
  ASSUME Types, Sides, paxos_port = Pax, NEW f \in Frame, NEW in, Dispatch(f, in),
         f.src \in Client => in = f.src, f.src \in Host => in = Pax
  PROVE  /\ wan_macports' \in [Client \cup Host -> Client \cup {None}]
         /\ \A a \in Client \cup Host :
              wan_macports[a] # None => wan_macports'[a] = wan_macports[a]
         /\ \A h \in Host : wan_macports'[h] = None
         /\ f.src \in Client => wan_macports'[f.src] # None
         /\ \/ toPaxos' = toPaxos
            \/ toPaxos' = Append(toPaxos, f) /\ f.kind # "data"
            \/ toPaxos' = Append(toPaxos, Wrapped(f)) /\ f.kind = "data"
         /\ f.kind = "data" /\ f.dst \in Host => toPaxos' = Append(toPaxos, Wrapped(f))
         /\ f.src \in Host /\ f.dst \in Client /\ wan_macports[f.dst] # None =>
              toPaxos' = toPaxos
<1>1. f.src \in Client \cup Host /\ f.dst \in Client \cup Host \cup {All}
  BY FrameFacts
<1>2. wan_macports' = Learn(wan_macports, f, in)
  BY DEF Dispatch
<1>3. /\ wan_macports' \in [Client \cup Host -> Client \cup {None}]
      /\ \A a \in Client \cup Host :
           wan_macports[a] # None => wan_macports'[a] = wan_macports[a]
      /\ \A h \in Host : wan_macports'[h] = None
      /\ f.src \in Client => wan_macports'[f.src] # None
  <2>1. CASE f.src \in Client
    BY <1>1, <1>2, <2>1, Names DEF Learn, Types, Sides
  <2>2. CASE f.src \in Host
    BY <1>1, <1>2, <2>2, Names DEF Learn, Types, Sides
  <2> QED BY <1>1, <2>1, <2>2
<1>4. CASE ~ToWanAddr(f) /\ f.kind = "data"
  <2>1. toPaxos' = Append(toPaxos, Wrapped(f))
    BY <1>4 DEF Dispatch, Wrap
  <2>2. ~(f.dst \in Client /\ wan_macports[f.dst] # None)
    BY <1>3, <1>4, Names DEF ToWanAddr
  <2> QED BY <1>3, <1>4, <2>1, <2>2
<1>5. CASE ToWanAddr(f)
  <2>1. Forward(f, in, {wan_macports'[f.dst]})
    BY <1>5 DEF Dispatch, ToWanAddr
  <2>2. f.dst \in Client /\ wan_macports'[f.dst] \in Client
    BY <1>1, <1>3, <1>5 DEF ToWanAddr
  <2>3. toPaxos' = toPaxos
    BY <2>1, <2>2, Names DEF Forward
  <2> QED BY <1>3, <2>2, <2>3, Names
<1>6. CASE ~ToWanAddr(f) /\ f.kind # "data"
  <2>1. \E P : Forward(f, in, P)
    BY <1>6 DEF Dispatch
  <2>2. toPaxos' = toPaxos \/ toPaxos' = Append(toPaxos, f)
    BY <2>1 DEF Forward
  <2>3. ~(f.dst \in Client /\ wan_macports[f.dst] # None)
    BY <1>3, <1>6, Names DEF ToWanAddr
  <2> QED BY <1>3, <1>6, <2>2, <2>3
<1> QED BY <1>4, <1>5, <1>6

-----------------------------------------------------------------------------
(* A frame joins the queue *)

\* The surroundings send x to the controller.
Arrives(x) ==
  /\ x \in Upcall /\ CameFrom(x)
  /\ upcalls' = Append(upcalls, x)
  /\ replies' \in Nat
  /\ UNCHANGED <<paxos_port, wan_macports, toPaxos>>

\* It is no client's, or it is the next frame of the clients.
NextFrame(x) ==
  \/ x.frame.src \notin Client /\ sent' = sent
  \/ /\ x.frame \in Frame /\ x.frame.src \in Client /\ x.frame.id = Len(sent) + 1
     /\ x.frame.kind \in {"data", "other"} /\ sent' = Append(sent, x.frame)

\* The queues then.
LEMMA ArrivesFacts ==
  ASSUME Types, NEW x, Arrives(x), NextFrame(x)
  PROVE  /\ upcalls' \in Seq(Upcall) /\ Len(upcalls) \in Nat
         /\ Len(upcalls') = Len(upcalls) + 1 /\ upcalls'[Len(upcalls) + 1] = x
         /\ \A i \in 1..Len(upcalls) : i \in 1..Len(upcalls') /\ upcalls'[i] = upcalls[i]
         /\ \A i \in 1..Len(upcalls') : i \in 1..Len(upcalls) \/ i = Len(upcalls) + 1
         /\ sent' \in Seq(Frame) /\ Len(sent) \in Nat
         /\ \A k \in 1..Len(sent) : k \in 1..Len(sent') /\ sent'[k] = sent[k]
         /\ x.frame.src \notin Client => sent' = sent
         /\ x.frame.src \in Client =>
              /\ Len(sent') = Len(sent) + 1 /\ sent'[Len(sent) + 1] = x.frame
              /\ \A k \in 1..Len(sent') : k \in 1..Len(sent) \/ k = Len(sent) + 1
              /\ x.frame \in Frame /\ x.frame.id = Len(sent) + 1
              /\ x.frame.kind \in {"data", "other"}
<1>1. /\ upcalls' \in Seq(Upcall) /\ Len(upcalls) \in Nat
      /\ Len(upcalls') = Len(upcalls) + 1 /\ upcalls'[Len(upcalls) + 1] = x
      /\ \A i \in 1..Len(upcalls) : i \in 1..Len(upcalls') /\ upcalls'[i] = upcalls[i]
      /\ \A i \in 1..Len(upcalls') : i \in 1..Len(upcalls) \/ i = Len(upcalls) + 1
  BY Last DEF Types, Arrives
<1>2. Len(sent) \in Nat /\ sent \in Seq(Frame)
  BY DEF Types
<1>3. CASE x.frame.src \notin Client
  BY <1>1, <1>2, <1>3 DEF NextFrame
<1>4. CASE x.frame.src \in Client
  <2>1. /\ x.frame \in Frame /\ x.frame.id = Len(sent) + 1
        /\ x.frame.kind \in {"data", "other"} /\ sent' = Append(sent, x.frame)
    BY <1>4 DEF NextFrame
  <2>2. /\ sent' \in Seq(Frame) /\ Len(sent') = Len(sent) + 1
        /\ sent'[Len(sent) + 1] = x.frame
        /\ \A k \in 1..Len(sent) : k \in 1..Len(sent') /\ sent'[k] = sent[k]
        /\ \A k \in 1..Len(sent') : k \in 1..Len(sent) \/ k = Len(sent) + 1
    BY <1>2, <2>1, Last
  <2> QED BY <1>1, <1>2, <1>4, <2>1, <2>2
<1> QED BY <1>3, <1>4

\* The invariant holds with one more frame.
LEMMA ArrivesIInv ==
  ASSUME IInv, NEW x, Arrives(x), NextFrame(x)
  PROVE  IInv'
<1> DEFINE n == Len(upcalls) + 1
<1>0. Types /\ Sides /\ Numbered /\ Waiting /\ OutFirst /\ OnlyThePrefixIsLost
  BY DEF IInv
<1>1. UNCHANGED <<paxos_port, wan_macports, toPaxos>> /\ CameFrom(x) /\ replies' \in Nat
  BY DEF Arrives
<1>2. /\ upcalls' \in Seq(Upcall) /\ Len(upcalls) \in Nat
      /\ Len(upcalls') = n /\ upcalls'[n] = x
      /\ \A i \in 1..Len(upcalls) : i \in 1..Len(upcalls') /\ upcalls'[i] = upcalls[i]
      /\ \A i \in 1..Len(upcalls') : i \in 1..Len(upcalls) \/ i = n
  BY <1>0, ArrivesFacts
<1>3. /\ sent' \in Seq(Frame) /\ Len(sent) \in Nat
      /\ \A k \in 1..Len(sent) : k \in 1..Len(sent') /\ sent'[k] = sent[k]
      /\ x.frame.src \notin Client => sent' = sent
  BY <1>0, ArrivesFacts
<1>4. x.frame.src \in Client =>
        /\ Len(sent') = Len(sent) + 1 /\ sent'[Len(sent) + 1] = x.frame
        /\ \A k \in 1..Len(sent') : k \in 1..Len(sent) \/ k = Len(sent) + 1
        /\ x.frame \in Frame /\ x.frame.id = Len(sent) + 1
        /\ x.frame.kind \in {"data", "other"}
  BY <1>0, ArrivesFacts
<1>5. Types'
  BY <1>0, <1>1, <1>2, <1>3 DEF Types
<1>6. Sides'
  <2>1. ASSUME NEW i \in 1..Len(upcalls')
        PROVE  CameFrom(upcalls'[i])
    BY <1>0, <1>1, <1>2 DEF Sides
  <2>2. \A i \in 1..Len(upcalls') : CameFrom(upcalls[i])'
    BY <1>1, <2>1 DEF CameFrom
  <2> QED BY <1>0, <1>1, <2>2 DEF Sides
<1>7. RepliesGetOut'
  BY <1>1 DEF IInv, RepliesGetOut
<1>8. Numbered'
  BY <1>0, <1>3, <1>4 DEF Numbered
<1>9. \A i \in 1..Len(upcalls) : FromClient(i)' <=> FromClient(i)
  BY <1>2 DEF FromClient
<1>10. ASSUME NEW i \in 1..Len(upcalls), FromClient(i)
       PROVE  upcalls[i].frame.id \in 1..Len(sent)
  BY <1>0, <1>10 DEF Waiting, Numbered
<1>11. \A k \in 1..Len(sent') : k \in 1..Len(sent) \/ (x.frame.src \in Client /\ k = Len(sent) + 1)
  BY <1>3, <1>4
<1>12. n \in 1..Len(upcalls')
  BY <1>2
<1>13. Waiting'
  <2> SUFFICES ASSUME NEW i \in 1..Len(upcalls'), FromClient(i)'
               PROVE  /\ \E k \in 1..Len(sent') : upcalls'[i].frame = sent'[k]
                      /\ \A j \in 1..Len(upcalls') :
                           i < j /\ FromClient(j)' => upcalls'[i].frame.id < upcalls'[j].frame.id
                      /\ \A k \in 1..Len(sent') : k > upcalls'[i].frame.id =>
                           \E j \in 1..Len(upcalls') : upcalls'[j].frame = sent'[k]
    BY DEF Waiting
  <2>1. CASE i \in 1..Len(upcalls)
    <3>1. \E k \in 1..Len(sent') : upcalls'[i].frame = sent'[k]
      BY <1>0, <1>2, <1>3, <1>9, <2>1 DEF Waiting
    <3>2. ASSUME NEW j \in 1..Len(upcalls'), i < j, FromClient(j)'
          PROVE  upcalls'[i].frame.id < upcalls'[j].frame.id
      <4>1. CASE j \in 1..Len(upcalls)
        BY <1>0, <1>2, <1>9, <2>1, <3>2, <4>1 DEF Waiting
      <4>2. CASE j = n
        <5>1. x.frame.src \in Client
          BY <1>2, <3>2, <4>2 DEF FromClient
        <5>2. upcalls[i].frame.id \in 1..Len(sent)
          BY <1>9, <1>10, <2>1
        <5> QED BY <1>2, <1>3, <1>4, <2>1, <4>2, <5>1, <5>2
      <4> QED BY <1>2, <4>1, <4>2
    <3>3. ASSUME NEW k \in 1..Len(sent'), k > upcalls'[i].frame.id
          PROVE  \E j \in 1..Len(upcalls') : upcalls'[j].frame = sent'[k]
      <4>1. CASE k \in 1..Len(sent)
        BY <1>0, <1>2, <1>3, <1>9, <2>1, <3>3, <4>1 DEF Waiting
      <4>2. CASE x.frame.src \in Client /\ k = Len(sent) + 1
        BY <1>2, <1>4, <1>12, <4>2
      <4> QED BY <1>11, <4>1, <4>2
    <3> QED BY <3>1, <3>2, <3>3
  <2>2. CASE i = n
    <3>1. x.frame.src \in Client /\ upcalls'[i] = x
      BY <1>2, <2>2 DEF FromClient
    <3>2. Len(sent) + 1 \in 1..Len(sent')
      BY <1>3, <1>4, <3>1
    <3>3. \A j \in 1..Len(upcalls') : ~(i < j)
      BY <1>2, <2>2
    <3>4. \A k \in 1..Len(sent') : ~(k > x.frame.id)
      BY <1>3, <1>4, <3>1
    <3> QED BY <1>4, <3>1, <3>2, <3>3, <3>4
  <2> QED BY <1>2, <2>1, <2>2
<1>14. ASSUME NEW i \in 1..Len(toPaxos), ForHost(toPaxos[i])
       PROVE  toPaxos[i].id \in 1..Len(sent)
  <2>1. PICK k \in DOMAIN sent : toPaxos[i] = Wrapped(sent[k])
    BY <1>0, <1>14, LenProperties DEF OnlyThePrefixIsLost, Types
  <2>2. k \in 1..Len(sent) /\ sent[k] \in Frame
    BY <1>0, LenProperties, ElementOfSeq DEF Types
  <2> QED BY <1>0, <2>1, <2>2, WrappedFacts DEF Numbered
<1>15. OutFirst'
  <2> SUFFICES ASSUME NEW i \in 1..Len(toPaxos), ForHost(toPaxos[i]),
                      NEW j \in 1..Len(upcalls'), FromClient(j)'
               PROVE  toPaxos[i].id < upcalls'[j].frame.id
    BY <1>1 DEF OutFirst
  <2>1. CASE j \in 1..Len(upcalls)
    BY <1>0, <1>2, <1>9, <2>1 DEF OutFirst
  <2>2. CASE j = n
    <3>1. x.frame.src \in Client /\ upcalls'[j] = x
      BY <1>2, <2>2 DEF FromClient
    <3> QED BY <1>3, <1>4, <1>14, <3>1
  <2> QED BY <1>2, <2>1, <2>2
<1>16. OnlyThePrefixIsLost'
  <2>1. /\ DOMAIN toPaxos = 1..Len(toPaxos) /\ DOMAIN sent = 1..Len(sent)
        /\ DOMAIN sent' = 1..Len(sent') /\ DOMAIN upcalls = 1..Len(upcalls)
        /\ DOMAIN upcalls' = 1..Len(upcalls')
    BY <1>0, <1>5, LenProperties DEF Types
  <2> SUFFICES ASSUME NEW i \in DOMAIN toPaxos, ForHost(toPaxos[i])
               PROVE  /\ \E k \in DOMAIN sent' :
                           sent'[k].kind = "data" /\ toPaxos[i] = Wrapped(sent'[k])
                      /\ \A j \in DOMAIN toPaxos :
                           j < i /\ ForHost(toPaxos[j]) => toPaxos[j].id < toPaxos[i].id
                      /\ \A k \in DOMAIN sent' : k > toPaxos[i].id /\ ForHost(sent'[k]) =>
                           \/ \E j \in DOMAIN toPaxos : j > i /\ toPaxos[j] = Wrapped(sent'[k])
                           \/ \E j \in DOMAIN upcalls' : upcalls'[j].frame = sent'[k]
    BY <1>1 DEF OnlyThePrefixIsLost
  <2>2. \E k \in DOMAIN sent' : sent'[k].kind = "data" /\ toPaxos[i] = Wrapped(sent'[k])
    BY <1>0, <1>3, <2>1 DEF OnlyThePrefixIsLost
  <2>3. \A j \in DOMAIN toPaxos :
          j < i /\ ForHost(toPaxos[j]) => toPaxos[j].id < toPaxos[i].id
    BY <1>0 DEF OnlyThePrefixIsLost
  <2>4. ASSUME NEW k \in DOMAIN sent', k > toPaxos[i].id, ForHost(sent'[k])
        PROVE  \/ \E j \in DOMAIN toPaxos : j > i /\ toPaxos[j] = Wrapped(sent'[k])
               \/ \E j \in DOMAIN upcalls' : upcalls'[j].frame = sent'[k]
    <3>1. CASE k \in 1..Len(sent)
      <4>1. \/ \E j \in DOMAIN toPaxos : j > i /\ toPaxos[j] = Wrapped(sent[k])
            \/ \E j \in DOMAIN upcalls : upcalls[j].frame = sent[k]
        BY <1>0, <1>3, <2>1, <2>4, <3>1 DEF OnlyThePrefixIsLost
      <4> QED BY <1>2, <1>3, <2>1, <3>1, <4>1
    <3>2. CASE x.frame.src \in Client /\ k = Len(sent) + 1
      BY <1>2, <1>4, <1>12, <2>1, <3>2
    <3> QED BY <1>11, <2>1, <3>1, <3>2
  <2> QED BY <2>2, <2>3, <2>4
<1> QED BY <1>5, <1>6, <1>7, <1>8, <1>13, <1>15, <1>16 DEF IInv

-----------------------------------------------------------------------------
(* A frame leaves the queue *)

\* The controller takes the oldest frame f, learns nothing of hosts, and
Takes(f) ==
  /\ upcalls # <<>> /\ f = Head(upcalls).frame /\ upcalls' = Tail(upcalls)
  /\ UNCHANGED <<sent, replies>>
  /\ paxos_port' \in {None, Pax} /\ (paxos_port = Pax => paxos_port' = Pax)
  /\ wan_macports' \in [Client \cup Host -> Client \cup {None}]
  /\ \A a \in Client \cup Host : wan_macports[a] # None => wan_macports'[a] = wan_macports[a]
  /\ \A h \in Host : wan_macports'[h] = None

\* puts nothing out, which may be f only if nothing has come out yet,
Holds(f) ==
  /\ toPaxos' = toPaxos
  /\ f.src \in Client /\ f.kind = "data" /\ f.dst \in Host => toPaxos = <<>>

\* or puts out f as g, which is wrapped if it is data.
PutsOut(f, g) ==
  /\ f \in Frame /\ paxos_port = Pax
  /\ f.src \in Client => wan_macports'[f.src] # None
  /\ ~(f.src \in Host /\ f.dst \in Client)
  /\ g = IF f.kind = "data" THEN Wrapped(f) ELSE f
  /\ toPaxos' = Append(toPaxos, g)

\* The queue then.
LEMMA TakesFacts ==
  ASSUME Types, NEW f, Takes(f)
  PROVE  /\ upcalls' \in Seq(Upcall) /\ f = upcalls[1].frame /\ 1 \in 1..Len(upcalls)
         /\ f \in Frame \cup {JoinMsg} /\ Len(upcalls) \in Nat
         /\ \A i \in 1..Len(upcalls') : i + 1 \in 1..Len(upcalls) /\ upcalls'[i] = upcalls[i + 1]
         /\ \A i \in 1..Len(upcalls) :
              i = 1 \/ (i - 1 \in 1..Len(upcalls') /\ upcalls'[i - 1] = upcalls[i])
<1>1. upcalls \in Seq(Upcall) /\ upcalls # <<>> /\ f = Head(upcalls).frame /\ upcalls' = Tail(upcalls)
  BY DEF Takes, Types
<1>2. /\ Head(upcalls) \in Upcall /\ Head(upcalls) = upcalls[1]
      /\ Tail(upcalls) \in Seq(Upcall) /\ Len(upcalls) \in Nat /\ Len(upcalls) > 0
      /\ \A i \in 1..Len(Tail(upcalls)) :
           i + 1 \in 1..Len(upcalls) /\ Tail(upcalls)[i] = upcalls[i + 1]
      /\ \A i \in 1..Len(upcalls) :
           i = 1 \/ (i - 1 \in 1..Len(Tail(upcalls)) /\ Tail(upcalls)[i - 1] = upcalls[i])
  BY <1>1, First
<1>3. f \in Frame \cup {JoinMsg}
  BY <1>1, <1>2 DEF Upcall
<1> QED BY <1>1, <1>2, <1>3

\* What waits is still in order.
LEMMA TakesWaiting ==
  ASSUME IInv, NEW f, Takes(f)
  PROVE  Waiting'
<1>0. Types /\ Numbered /\ Waiting /\ sent' = sent
  BY DEF IInv, Takes
<1>1. /\ f = upcalls[1].frame /\ 1 \in 1..Len(upcalls) /\ Len(upcalls) \in Nat
      /\ \A i \in 1..Len(upcalls') : i + 1 \in 1..Len(upcalls) /\ upcalls'[i] = upcalls[i + 1]
      /\ \A i \in 1..Len(upcalls) :
           i = 1 \/ (i - 1 \in 1..Len(upcalls') /\ upcalls'[i - 1] = upcalls[i])
  BY <1>0, TakesFacts
<1>2. \A i \in 1..Len(upcalls') : FromClient(i)' => FromClient(i + 1)
  BY <1>1 DEF FromClient
<1> SUFFICES ASSUME NEW i \in 1..Len(upcalls'), FromClient(i)'
             PROVE  /\ \E k \in 1..Len(sent) : upcalls'[i].frame = sent[k]
                    /\ \A j \in 1..Len(upcalls') :
                         i < j /\ FromClient(j)' => upcalls'[i].frame.id < upcalls'[j].frame.id
                    /\ \A k \in 1..Len(sent) : k > upcalls'[i].frame.id =>
                         \E j \in 1..Len(upcalls') : upcalls'[j].frame = sent[k]
  BY <1>0 DEF Waiting
<1>3. i + 1 \in 1..Len(upcalls) /\ upcalls'[i] = upcalls[i + 1] /\ FromClient(i + 1)
  BY <1>1, <1>2
<1>4. \E k \in 1..Len(sent) : upcalls'[i].frame = sent[k]
  BY <1>0, <1>3 DEF Waiting
<1>5. ASSUME NEW j \in 1..Len(upcalls'), i < j, FromClient(j)'
      PROVE  upcalls'[i].frame.id < upcalls'[j].frame.id
  <2>1. j + 1 \in 1..Len(upcalls) /\ upcalls'[j] = upcalls[j + 1] /\ FromClient(j + 1)
    BY <1>1, <1>2, <1>5
  <2>2. i + 1 < j + 1
    BY <1>5
  <2> QED BY <1>0, <1>3, <2>1, <2>2 DEF Waiting
<1>6. ASSUME NEW k \in 1..Len(sent), k > upcalls'[i].frame.id
      PROVE  \E j \in 1..Len(upcalls') : upcalls'[j].frame = sent[k]
  <2>1. PICK j \in 1..Len(upcalls) : upcalls[j].frame = sent[k]
    BY <1>0, <1>3, <1>6 DEF Waiting
  <2>2. upcalls[j].frame.id = k /\ FromClient(j)
    BY <1>0, <2>1 DEF Numbered, FromClient
  <2>3. j # 1
    <3> SUFFICES ASSUME j = 1 PROVE FALSE
      OBVIOUS
    <3>1. 1 < i + 1 /\ FromClient(1)
      BY <2>2
    <3>2. k < upcalls[i + 1].frame.id
      BY <1>0, <1>1, <1>3, <2>2, <3>1 DEF Waiting
    <3>3. PICK l \in 1..Len(sent) : upcalls'[i].frame = sent[l]
      BY <1>4
    <3>4. upcalls[i + 1].frame.id = l
      BY <1>0, <1>3, <3>3 DEF Numbered
    <3> QED BY <1>3, <1>6, <3>2, <3>4
  <2>4. j - 1 \in 1..Len(upcalls') /\ upcalls'[j - 1] = upcalls[j]
    BY <1>1, <2>3
  <2> QED BY <2>1, <2>4
<1> QED BY <1>4, <1>5, <1>6

\* If it is nothing to be ordered that is taken, or if nothing has come out, then what
\* has come out is in order still.
LEMMA HoldsIInv ==
  ASSUME IInv, NEW f, Takes(f), Holds(f)
  PROVE  IInv'
<1>0. Types /\ Sides /\ Numbered /\ OutFirst /\ OnlyThePrefixIsLost /\ RepliesGetOut
  BY DEF IInv
<1>1. /\ f = upcalls[1].frame /\ 1 \in 1..Len(upcalls) /\ upcalls' \in Seq(Upcall)
      /\ \A i \in 1..Len(upcalls') : i + 1 \in 1..Len(upcalls) /\ upcalls'[i] = upcalls[i + 1]
      /\ \A i \in 1..Len(upcalls) :
           i = 1 \/ (i - 1 \in 1..Len(upcalls') /\ upcalls'[i - 1] = upcalls[i])
  BY <1>0, TakesFacts
<1>2. /\ UNCHANGED <<sent, replies, toPaxos>> /\ paxos_port' \in {None, Pax}
      /\ paxos_port = Pax => paxos_port' = Pax
      /\ wan_macports' \in [Client \cup Host -> Client \cup {None}]
      /\ \A a \in Client \cup Host : wan_macports[a] # None => wan_macports'[a] # None
      /\ \A h \in Host : wan_macports'[h] = None
  BY DEF Takes, Holds
<1>3. Types'
  BY <1>0, <1>1, <1>2 DEF Types
<1>4. Sides'
  <2>1. ASSUME NEW i \in 1..Len(upcalls')
        PROVE  CameFrom(upcalls[i])'
    <3>1. CameFrom(upcalls[i + 1]) /\ upcalls'[i] = upcalls[i + 1]
      BY <1>0, <1>1 DEF Sides
    <3> QED BY <1>2, <3>1 DEF CameFrom
  <2> QED BY <1>0, <1>2, <2>1 DEF Sides, Types
<1>5. RepliesGetOut' /\ Numbered'
  BY <1>0, <1>2 DEF RepliesGetOut, Numbered
<1>6. OutFirst'
  BY <1>0, <1>1, <1>2 DEF OutFirst, FromClient
<1>7. OnlyThePrefixIsLost'
  <2>1. /\ DOMAIN toPaxos = 1..Len(toPaxos) /\ DOMAIN sent = 1..Len(sent)
        /\ DOMAIN upcalls = 1..Len(upcalls) /\ DOMAIN upcalls' = 1..Len(upcalls')
    BY <1>0, <1>3, LenProperties DEF Types
  <2>2. ASSUME NEW i \in DOMAIN toPaxos, ForHost(toPaxos[i]), NEW k \in DOMAIN sent,
               k > toPaxos[i].id, ForHost(sent[k])
        PROVE  \/ \E j \in DOMAIN toPaxos : j > i /\ toPaxos[j] = Wrapped(sent[k])
               \/ \E j \in DOMAIN upcalls' : upcalls'[j].frame = sent[k]
    <3>1. CASE \E j \in DOMAIN toPaxos : j > i /\ toPaxos[j] = Wrapped(sent[k])
      BY <3>1
    <3>2. CASE \E j \in DOMAIN upcalls : upcalls[j].frame = sent[k]
      <4>1. PICK j \in 1..Len(upcalls) : upcalls[j].frame = sent[k]
        BY <2>1, <3>2
      <4>2. j # 1
        <5> SUFFICES ASSUME j = 1 PROVE FALSE
          OBVIOUS
        <5>1. f.src \in Client /\ f.kind = "data" /\ f.dst \in Host
          BY <1>0, <1>1, <2>1, <2>2, <4>1 DEF Numbered, ForHost
        <5>2. toPaxos = <<>>
          BY <5>1 DEF Holds
        <5> QED BY <5>2
      <4>3. j - 1 \in DOMAIN upcalls' /\ upcalls'[j - 1].frame = sent[k]
        BY <1>1, <2>1, <4>1, <4>2
      <4> QED BY <4>3
    <3> QED BY <1>0, <2>2, <3>1, <3>2 DEF OnlyThePrefixIsLost
  <2> QED BY <1>0, <1>2, <2>2 DEF OnlyThePrefixIsLost
<1> QED BY <1>3, <1>4, <1>5, <1>6, <1>7, TakesWaiting DEF IInv

\* What is put out was sent after all that has come out, and before all that waits.
LEMMA PutsOutIInv ==
  ASSUME IInv, NEW f, NEW g, Takes(f), PutsOut(f, g)
  PROVE  IInv'
<1> DEFINE n == Len(toPaxos) + 1
<1>0. /\ Types /\ Sides /\ Numbered /\ Waiting /\ OutFirst /\ OnlyThePrefixIsLost
      /\ RepliesGetOut
  BY DEF IInv
<1>1. /\ f = upcalls[1].frame /\ 1 \in 1..Len(upcalls) /\ upcalls' \in Seq(Upcall)
      /\ \A i \in 1..Len(upcalls') : i + 1 \in 1..Len(upcalls) /\ upcalls'[i] = upcalls[i + 1]
      /\ \A i \in 1..Len(upcalls) :
           i = 1 \/ (i - 1 \in 1..Len(upcalls') /\ upcalls'[i - 1] = upcalls[i])
  BY <1>0, TakesFacts
<1>2. /\ UNCHANGED <<sent, replies>> /\ paxos_port' = Pax
      /\ wan_macports' \in [Client \cup Host -> Client \cup {None}]
      /\ \A a \in Client \cup Host : wan_macports[a] # None => wan_macports'[a] # None
      /\ \A h \in Host : wan_macports'[h] = None
      /\ f.src \in Client => wan_macports'[f.src] # None
  BY DEF Takes, PutsOut
<1>3. /\ f \in Frame /\ g \in Frame /\ g.src = f.src /\ g.dst = f.dst /\ g.id = f.id
      /\ ~(f.src \in Host /\ f.dst \in Client) /\ f.id \in Nat
      /\ g = IF f.kind = "data" THEN Wrapped(f) ELSE f
  BY WrappedFacts, FrameFacts DEF PutsOut
<1>4. /\ toPaxos' \in Seq(Frame) /\ Len(toPaxos) \in Nat /\ Len(toPaxos') = n
      /\ toPaxos'[n] = g
      /\ \A i \in 1..Len(toPaxos) : i \in 1..Len(toPaxos') /\ toPaxos'[i] = toPaxos[i]
      /\ \A i \in 1..Len(toPaxos') : i \in 1..Len(toPaxos) \/ i = n
  BY <1>0, <1>3, Last DEF PutsOut, Types
<1> HIDE DEF n
<1>5. Types'
  BY <1>0, <1>1, <1>2, <1>4 DEF Types
<1>6. Sides'
  <2>1. ASSUME NEW i \in 1..Len(upcalls')
        PROVE  CameFrom(upcalls[i])'
    <3>1. CameFrom(upcalls[i + 1]) /\ upcalls'[i] = upcalls[i + 1]
      BY <1>0, <1>1 DEF Sides
    <3> QED BY <1>2, <3>1 DEF CameFrom
  <2>2. ASSUME NEW i \in 1..Len(toPaxos'), toPaxos'[i].src \in Client
        PROVE  wan_macports'[toPaxos'[i].src] # None
    <3>1. CASE i \in 1..Len(toPaxos)
      BY <1>0, <1>2, <1>4, <2>2, <3>1 DEF Sides
    <3>2. CASE i = n
      BY <1>2, <1>3, <1>4, <2>2, <3>2
    <3> QED BY <1>4, <3>1, <3>2
  <2>3. paxos_port' # None
    BY <1>2, Names
  <2> QED BY <1>2, <2>1, <2>2, <2>3 DEF Sides
<1>7. /\ DOMAIN toPaxos = 1..Len(toPaxos) /\ DOMAIN toPaxos' = 1..Len(toPaxos')
      /\ DOMAIN sent = 1..Len(sent) /\ DOMAIN upcalls = 1..Len(upcalls)
      /\ DOMAIN upcalls' = 1..Len(upcalls')
  BY <1>0, <1>5, LenProperties DEF Types
<1>8. RepliesGetOut'
  BY <1>0, <1>3, <1>4, <1>7 DEF RepliesGetOut
<1>9. Numbered'
  BY <1>0, <1>2 DEF Numbered
<1>10. ASSUME ForHost(g)
       PROVE  /\ FromClient(1) /\ g = Wrapped(f)
              /\ \E k \in 1..Len(sent) : f = sent[k] /\ sent[k].kind = "data"
  <2>1. FromClient(1)
    BY <1>1, <1>3, <1>10 DEF ForHost, FromClient
  <2>2. PICK k \in 1..Len(sent) : f = sent[k]
    BY <1>0, <1>1, <2>1 DEF Waiting
  <2>3. f.kind \in {"data", "other"}
    BY <1>0, <2>2 DEF Numbered
  <2>4. f.kind = "data"
    BY <1>3, <1>10, <2>3 DEF ForHost
  <2> QED BY <1>3, <2>1, <2>2, <2>4
<1>11. ASSUME NEW j \in 1..Len(upcalls'), FromClient(j)', FromClient(1)
       PROVE  f.id < upcalls'[j].frame.id
  <2>1. FromClient(j + 1) /\ j + 1 \in 1..Len(upcalls) /\ upcalls'[j] = upcalls[j + 1] /\ 1 < j + 1
    BY <1>1, <1>11 DEF FromClient
  <2> QED BY <1>0, <1>1, <1>11, <2>1 DEF Waiting
<1>12. OutFirst'
  <2> SUFFICES ASSUME NEW i \in 1..Len(toPaxos'), ForHost(toPaxos'[i]),
                      NEW j \in 1..Len(upcalls'), FromClient(j)'
               PROVE  toPaxos'[i].id < upcalls'[j].frame.id
    BY DEF OutFirst
  <2>1. CASE i \in 1..Len(toPaxos)
    <3>1. FromClient(j + 1) /\ j + 1 \in 1..Len(upcalls) /\ upcalls'[j] = upcalls[j + 1]
      BY <1>1 DEF FromClient
    <3> QED BY <1>0, <1>4, <2>1, <3>1 DEF OutFirst
  <2>2. CASE i = n
    BY <1>3, <1>4, <1>10, <1>11, <2>2
  <2> QED BY <1>4, <2>1, <2>2
<1>13. OnlyThePrefixIsLost'
  <2> SUFFICES ASSUME NEW i \in DOMAIN toPaxos', ForHost(toPaxos'[i])
               PROVE  /\ \E k \in DOMAIN sent :
                           sent[k].kind = "data" /\ toPaxos'[i] = Wrapped(sent[k])
                      /\ \A j \in DOMAIN toPaxos' :
                           j < i /\ ForHost(toPaxos'[j]) => toPaxos'[j].id < toPaxos'[i].id
                      /\ \A k \in DOMAIN sent : k > toPaxos'[i].id /\ ForHost(sent[k]) =>
                           \/ \E j \in DOMAIN toPaxos' : j > i /\ toPaxos'[j] = Wrapped(sent[k])
                           \/ \E j \in DOMAIN upcalls' : upcalls'[j].frame = sent[k]
    BY <1>2 DEF OnlyThePrefixIsLost
  <2>1. CASE i \in 1..Len(toPaxos)
    <3>1. ForHost(toPaxos[i]) /\ toPaxos'[i] = toPaxos[i] /\ i \in DOMAIN toPaxos
      BY <1>4, <1>7, <2>1
    <3>2. \E k \in DOMAIN sent : sent[k].kind = "data" /\ toPaxos'[i] = Wrapped(sent[k])
      BY <1>0, <3>1 DEF OnlyThePrefixIsLost
    <3>3. ASSUME NEW j \in DOMAIN toPaxos', j < i, ForHost(toPaxos'[j])
          PROVE  toPaxos'[j].id < toPaxos'[i].id
      <4>1. j \in DOMAIN toPaxos /\ toPaxos'[j] = toPaxos[j]
        BY <1>4, <1>7, <2>1, <3>3
      <4> QED BY <1>0, <3>1, <3>3, <4>1 DEF OnlyThePrefixIsLost
    <3>4. ASSUME NEW k \in DOMAIN sent, k > toPaxos'[i].id, ForHost(sent[k])
          PROVE  \/ \E j \in DOMAIN toPaxos' : j > i /\ toPaxos'[j] = Wrapped(sent[k])
                 \/ \E j \in DOMAIN upcalls' : upcalls'[j].frame = sent[k]
      <4>1. CASE \E j \in DOMAIN toPaxos : j > i /\ toPaxos[j] = Wrapped(sent[k])
        BY <1>4, <1>7, <4>1
      <4>2. ASSUME NEW j \in DOMAIN upcalls, upcalls[j].frame = sent[k], j # 1
            PROVE  \E l \in DOMAIN upcalls' : upcalls'[l].frame = sent[k]
        <5>1. j - 1 \in DOMAIN upcalls' /\ upcalls'[j - 1].frame = sent[k]
          BY <1>1, <1>7, <4>2
        <5> QED BY <5>1
      <4>3. ASSUME f = sent[k]
            PROVE  \E j \in DOMAIN toPaxos' : j > i /\ toPaxos'[j] = Wrapped(sent[k])
        <5>1. f.kind = "data"
          BY <1>0, <1>7, <3>4, <4>3 DEF Numbered, ForHost
        <5>2. n \in DOMAIN toPaxos' /\ n > i /\ toPaxos'[n] = Wrapped(sent[k])
          BY <1>3, <1>4, <1>7, <2>1, <4>3, <5>1 DEF n
        <5> QED BY <5>2
      <4>4. \/ \E j \in DOMAIN toPaxos : j > i /\ toPaxos[j] = Wrapped(sent[k])
            \/ \E j \in DOMAIN upcalls : upcalls[j].frame = sent[k]
        BY <1>0, <3>1, <3>4 DEF OnlyThePrefixIsLost
      <4> QED BY <1>1, <4>1, <4>2, <4>3, <4>4
    <3> QED BY <3>2, <3>3, <3>4
  <2>2. CASE i = n
    <3>1. FromClient(1) /\ g = Wrapped(f) /\ toPaxos'[i] = g
      BY <1>4, <1>10, <2>2
    <3>2. \E k \in DOMAIN sent : sent[k].kind = "data" /\ toPaxos'[i] = Wrapped(sent[k])
      BY <1>4, <1>7, <1>10, <2>2
    <3>3. ASSUME NEW j \in DOMAIN toPaxos', j < i, ForHost(toPaxos'[j])
          PROVE  toPaxos'[j].id < toPaxos'[i].id
      <4>1. j \in 1..Len(toPaxos) /\ toPaxos'[j] = toPaxos[j]
        BY <1>4, <1>7, <2>2, <3>3
      <4> QED BY <1>0, <1>1, <1>3, <3>1, <3>3, <4>1 DEF OutFirst
    <3>4. ASSUME NEW k \in DOMAIN sent, k > toPaxos'[i].id, ForHost(sent[k])
          PROVE  \E j \in DOMAIN upcalls' : upcalls'[j].frame = sent[k]
      <4>0. k \in 1..Len(sent) /\ k > upcalls[1].frame.id
        BY <1>1, <1>3, <1>7, <3>1, <3>4
      <4>1. PICK j \in 1..Len(upcalls) : upcalls[j].frame = sent[k]
        BY <1>0, <1>1, <3>1, <4>0 DEF Waiting
      <4>2. sent[k].id = k
        BY <1>0, <1>7 DEF Numbered
      <4>3. j # 1
        BY <1>1, <1>3, <1>7, <3>1, <3>4, <4>1, <4>2
      <4>4. j - 1 \in DOMAIN upcalls' /\ upcalls'[j - 1].frame = sent[k]
        BY <1>1, <1>7, <4>1, <4>3
      <4> QED BY <4>4
    <3> QED BY <3>2, <3>3, <3>4
  <2> QED BY <1>4, <1>7, <2>1, <2>2
<1> QED BY <1>5, <1>6, <1>8, <1>9, <1>12, <1>13, TakesWaiting DEF IInv

-----------------------------------------------------------------------------
(* Each step keeps the invariant *)

\* The invariant holds before anything is sent.
LEMMA InitIInv == Init => IInv
<1> SUFFICES ASSUME Init PROVE IInv
  OBVIOUS
<1>1. \A S : <<>> \in Seq(S) /\ Len(<<>>) = 0
  BY EmptySeq
<1>2. Types
  BY <1>1 DEF Init, Types
<1>3. Sides
  BY <1>1 DEF Init, Sides
<1>4. Numbered /\ Waiting /\ OutFirst
  BY <1>1 DEF Init, Numbered, Waiting, OutFirst
<1>5. DOMAIN toPaxos = 1..0
  BY <1>1, LenProperties DEF Init
<1>6. RepliesGetOut /\ OnlyThePrefixIsLost
  BY <1>5 DEF RepliesGetOut, OnlyThePrefixIsLost
<1> QED BY <1>2, <1>3, <1>4, <1>6 DEF IInv

\* A frame of a client gets the next number.
LEMMA ClientSendsIInv ==
  ASSUME IInv, NEW c \in Client, NEW d \in Client \cup Host \cup {All},
         NEW kind \in {"data", "other"}, ClientSends(c, d, kind)
  PROVE  IInv'
<1> DEFINE f == [src |-> c, dst |-> d, kind |-> kind, id |-> Len(sent) + 1]
           x == [frame |-> f, in |-> c]
<1>1. Types
  BY DEF IInv
<1>2. Len(sent) \in Nat /\ Len(sent) < MaxSent /\ MaxSent \in Nat /\ MaxReplies \in Nat
  BY <1>1, BoundsAssumption DEF Types, ClientSends
<1>3. Len(sent) + 1 \in 1..(MaxSent + MaxReplies)
  BY <1>2
<1>4. f \in Frame
  BY <1>3 DEF Frame
<1>5. x \in Upcall
  BY <1>4 DEF Upcall, Port
<1>6. CameFrom(x)
  BY Names DEF CameFrom
<1>7. /\ upcalls' = Append(upcalls, x) /\ sent' = Append(sent, f)
      /\ UNCHANGED <<paxos_port, wan_macports, toPaxos, replies>>
  BY DEF ClientSends
<1>8. Arrives(x)
  BY <1>1, <1>5, <1>6, <1>7 DEF Arrives, Types
<1>9. NextFrame(x)
  BY <1>4, <1>7 DEF NextFrame
<1> QED BY <1>8, <1>9, ArrivesIInv

\* A host answers somebody whose frame has got out.
LEMMA HostSendsIInv ==
  ASSUME IInv, NEW h \in Host, NEW d \in Client \cup {All}, NEW kind \in {"data", "other"},
         HostSends(h, d, kind)
  PROVE  IInv'
<1> DEFINE f == [src |-> h, dst |-> d, kind |-> kind, id |-> MaxSent + replies + 1]
           x == [frame |-> f, in |-> Pax]
<1>1. Types /\ Sides
  BY DEF IInv
<1>2. replies \in Nat /\ replies < MaxReplies /\ MaxSent \in Nat /\ MaxReplies \in Nat
  BY <1>1, BoundsAssumption DEF Types, HostSends
<1>3. MaxSent + replies + 1 \in 1..(MaxSent + MaxReplies)
  BY <1>2
<1>4. f \in Frame
  BY <1>3 DEF Frame
<1>5. x \in Upcall
  BY <1>4 DEF Upcall, Port
<1>6. CameFrom(x)
  <2>1. d \in Client => wan_macports[d] # None
    <3>1. d = All \/ \E i \in DOMAIN toPaxos : toPaxos[i].src = d
      BY DEF HostSends
    <3>2. DOMAIN toPaxos = 1..Len(toPaxos)
      BY <1>1, LenProperties DEF Types
    <3> QED BY <1>1, <3>1, <3>2, Names DEF Sides
  <2> QED BY <2>1, Names DEF CameFrom
<1>7. /\ upcalls' = Append(upcalls, x) /\ sent' = sent /\ replies' = replies + 1
      /\ UNCHANGED <<paxos_port, wan_macports, toPaxos>>
  BY DEF HostSends
<1>8. Arrives(x)
  BY <1>2, <1>5, <1>6, <1>7 DEF Arrives
<1>9. NextFrame(x)
  BY <1>7, Names DEF NextFrame
<1> QED BY <1>8, <1>9, ArrivesIInv

\* The Paxos network announces itself.
LEMMA JoinIInv ==
  ASSUME IInv, upcalls' = Append(upcalls, [frame |-> JoinMsg, in |-> Pax]),
         UNCHANGED <<paxos_port, wan_macports, toPaxos, sent, replies>>
  PROVE  IInv'
<1> DEFINE x == [frame |-> JoinMsg, in |-> Pax]
<1>1. x \in Upcall /\ x.frame = JoinMsg /\ x.in = Pax
  BY DEF Upcall, Port
<1>2. CameFrom(x)
  BY <1>1, Names DEF CameFrom
<1>3. Arrives(x)
  BY <1>1, <1>2 DEF Arrives, IInv, Types
<1>4. NextFrame(x)
  BY <1>1, Names DEF NextFrame
<1> QED BY <1>3, <1>4, ArrivesIInv

\* The controller handles an upcall.
LEMMA PacketInIInv ==
  ASSUME IInv, PacketIn
  PROVE  IInv'
<1> DEFINE u == Head(upcalls)
           f == u.frame
<1>0. Types /\ Sides
  BY DEF IInv
<1>1. upcalls # <<>> /\ upcalls' = Tail(upcalls) /\ UNCHANGED <<sent, replies>>
  BY DEF PacketIn
<1>2. u \in Upcall /\ u = upcalls[1] /\ 1 \in 1..Len(upcalls)
  BY <1>0, <1>1, First DEF Types
<1>3. CameFrom(u)
  BY <1>0, <1>2 DEF Sides
<1>4. /\ wan_macports \in [Client \cup Host -> Client \cup {None}]
      /\ \A h \in Host : wan_macports[h] = None
  BY <1>0 DEF Types, Sides
<1>5. CASE f = JoinMsg
  <2>1. u.in = Pax /\ f.src \notin Client
    BY <1>3, <1>5, Names DEF CameFrom
  <2>2. OnJoin(u.in)
    BY <1>5 DEF PacketIn
  <2>3. paxos_port' \in {None, Pax} /\ (paxos_port = Pax => paxos_port' = Pax)
    BY <1>0, <2>1, <2>2 DEF OnJoin, Types
  <2>4. Takes(f)
    BY <1>1, <1>4, <2>2, <2>3 DEF Takes, OnJoin
  <2>5. Holds(f)
    BY <2>1, <2>2 DEF Holds, OnJoin
  <2> QED BY <2>4, <2>5, HoldsIInv
<1>6. CASE f # JoinMsg /\ paxos_port = None
  <2>1. Drop
    BY <1>6 DEF PacketIn
  <2>2. Takes(f)
    BY <1>0, <1>1, <1>4, <2>1 DEF Takes, Drop, Types
  <2>3. Holds(f)
    BY <1>0, <1>6, <2>1 DEF Holds, Drop, Sides
  <2> QED BY <2>2, <2>3, HoldsIInv
<1>7. CASE f # JoinMsg /\ paxos_port # None
  <2>1. Dispatch(f, u.in) /\ paxos_port' = paxos_port
    BY <1>7 DEF PacketIn, Dispatch
  <2>2. f \in Frame /\ paxos_port = Pax
    BY <1>0, <1>2, <1>7 DEF Upcall, Types
  <2>3. f.src \in Client \/ f.src \in Host
    BY <2>2, FrameFacts
  <2>4. (f.src \in Client => u.in = f.src) /\ (f.src \in Host => u.in = Pax)
    BY <1>3, Names DEF CameFrom
  <2>5. /\ wan_macports' \in [Client \cup Host -> Client \cup {None}]
        /\ \A a \in Client \cup Host :
             wan_macports[a] # None => wan_macports'[a] = wan_macports[a]
        /\ \A h \in Host : wan_macports'[h] = None
        /\ f.src \in Client => wan_macports'[f.src] # None
        /\ \/ toPaxos' = toPaxos
           \/ toPaxos' = Append(toPaxos, f) /\ f.kind # "data"
           \/ toPaxos' = Append(toPaxos, Wrapped(f)) /\ f.kind = "data"
        /\ f.kind = "data" /\ f.dst \in Host => toPaxos' = Append(toPaxos, Wrapped(f))
        /\ f.src \in Host /\ f.dst \in Client /\ wan_macports[f.dst] # None =>
             toPaxos' = toPaxos
    <3> HIDE DEF u
    <3> QED BY <1>0, <2>1, <2>2, <2>4, DispatchFacts
  <2>6. Takes(f)
    BY <1>0, <1>1, <2>1, <2>5 DEF Takes, Types
  <2>7. toPaxos \in Seq(Frame) /\ Append(toPaxos, f) # toPaxos /\ Append(toPaxos, Wrapped(f)) # toPaxos
    BY <1>0, <2>2, Last, WrappedFacts DEF Types
  <2>8. CASE toPaxos' = toPaxos
    <3>1. Holds(f)
      BY <2>5, <2>7, <2>8 DEF Holds
    <3> QED BY <2>6, <3>1, HoldsIInv
  <2>9. CASE toPaxos' # toPaxos
    <3>1. ~(f.src \in Host /\ f.dst \in Client)
      BY <1>3, <2>5, <2>9 DEF CameFrom
    <3>2. PutsOut(f, IF f.kind = "data" THEN Wrapped(f) ELSE f)
      BY <2>2, <2>5, <2>9, <3>1 DEF PutsOut
    <3> QED BY <2>6, <3>2, PutsOutIInv
  <2> QED BY <2>8, <2>9
<1> QED BY <1>5, <1>6, <1>7

\* Every step keeps the invariant.
LEMMA NextIInv == IInv /\ [Next]_vars => IInv'
<1> SUFFICES ASSUME IInv, [Next]_vars PROVE IInv'
  OBVIOUS
<1>1. CASE UNCHANGED <<paxos_port, wan_macports, upcalls, toPaxos, sent, replies>>
  <2>1. Types' /\ Sides' /\ RepliesGetOut'
    BY <1>1 DEF IInv, Types, Sides, CameFrom, RepliesGetOut
  <2>2. Numbered' /\ Waiting' /\ OutFirst'
    BY <1>1 DEF IInv, Numbered, Waiting, OutFirst, FromClient
  <2>3. OnlyThePrefixIsLost'
    BY <1>1 DEF IInv, OnlyThePrefixIsLost
  <2> QED BY <2>1, <2>2, <2>3 DEF IInv
<1>2. CASE GatewayUp
  BY <1>2, JoinIInv DEF GatewayUp
<1>3. CASE Announce
  <2>1. CASE gateway
    BY <1>3, <2>1, JoinIInv DEF Announce
  <2>2. CASE ~gateway
    BY <1>1, <1>3, <2>2 DEF Announce
  <2> QED BY <2>1, <2>2
<1>4. CASE UNCHANGED vars
  BY <1>1, <1>4 DEF vars
<1> QED BY <1>2, <1>3, <1>4, PacketInIInv, ClientSendsIInv, HostSendsIInv DEF Next

\* The invariant holds.
THEOREM Invariant == Spec => []IInv
<1> QED BY InitIInv, NextIInv, PTL DEF Spec

\* Only a first part of what the clients send to the hosts is lost (_handle_PacketIn
\* before the first JOIN): all others come out once, in order, and wrapped.
THEOREM PrefixLost == Spec => []OnlyThePrefixIsLost
<1>1. IInv => OnlyThePrefixIsLost
  BY DEF IInv
<1> QED BY <1>1, Invariant, PTL

\* What a host answers a client is never taken for something to be ordered, for the
\* address of the client is known by then.
THEOREM AnswersGetOut == Spec => []RepliesGetOut
<1>1. IInv => RepliesGetOut
  BY DEF IInv
<1> QED BY <1>1, Invariant, PTL
=============================================================================
