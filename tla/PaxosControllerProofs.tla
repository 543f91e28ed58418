------------------------ MODULE PaxosControllerProofs ------------------------
(***************************************************************************)
(* Proofs about PaxosController, for any number of nodes, packets and      *)
(* slots, and about the line of switches of PaxosChain that runs it.       *)
(***************************************************************************)
EXTENDS PaxosChain, FiniteSetTheorems, SequenceTheorems, WellFoundedInduction, TLAPS

USE DEF Seqno

(***************************************************************************)
(* The inductive invariant, about one controller's state p and what its    *)
(* hosts got (h), given the frames ms and the numbered packets sub.        *)
(***************************************************************************)

\* The controller's own packets are the numbered ones.
StoredOK(p, sub) ==
  \A s \in Seqno : p.slots[s].vval # NoPacket =>
    s < Len(sub) /\ p.slots[s].vval = sub[s + 1]

\* A vote counted for a slot was cast.
LearnsOK(p, ms) ==
  \A s \in Seqno : \A b \in p.slots[s].learns : Learn(b, p.slots[s].hrnd, s) \in ms

\* Only numbers below the head of the queue were processed.
ProcessedOK(p) == \A e \in p.processed : e[2] < p.cseq

\* Slot s has a majority of LEARNs of one round.
Chosen(s, ms) ==
  \E m \in ms : \E Q \in SUBSET Node :
    /\ 2 * Cardinality(Q) > Cardinality(Node)
    /\ \A b \in Q : Learn(b, m.n, s) \in ms

\* One entry e, the i-th, of what the hosts got.
EntryOK(e, i, ms, sub) ==
  /\ e.seqno = i - 1
  /\ e.v # NoPacket => i <= Len(sub) /\ e.v = sub[i]
  /\ Chosen(i - 1, ms)

HostsOK(p, h, ms, sub) ==
  /\ Len(h) = p.cseq
  /\ \A i \in 1..Len(h) : EntryOK(h[i], i, ms, sub)

\* Frames are about given numbers; an ACCEPT carries the packet of its number.
FramesOK(ms, sub) ==
  \A m \in ms : /\ m.seqno < Len(sub)
                /\ m.type = "ACCEPT" => m.v = sub[m.seqno + 1]

FrameSeq == Seq([seqno: Seqno, v: Packet \cup {NoPacket}])

\* All of the above for one controller, with its types.
NodeOK(p, h, ms, sub) ==
  /\ p \in PaxosState
  /\ h \in FrameSeq
  /\ StoredOK(p, sub)
  /\ LearnsOK(p, ms)
  /\ ProcessedOK(p)
  /\ HostsOK(p, h, ms, sub)

IInv ==
  /\ TypeOK
  /\ Len(submitted) = seqno + 1
  /\ FramesOK(msgs, submitted)
  /\ \A a \in Node : NodeOK(state[a], hosts[a], msgs, submitted)

-----------------------------------------------------------------------------
(* Lemmas about one controller *)

LEMMA NodeFacts ==
  /\ Cardinality(Node) \in Nat
  /\ \A Q \in SUBSET Node : IsFiniteSet(Q) /\ Cardinality(Q) \in Nat
  BY NodeAssumption, FS_CardinalityType, FS_Subset

\* More frames and more numbered packets invalidate nothing.
LEMMA NodeOKGrows ==
  ASSUME NEW p, NEW h, NEW ms, NEW sub, NEW ms2, NEW sub2,
         NodeOK(p, h, ms, sub), ms \subseteq ms2,
         Len(sub) \in Nat, Len(sub2) \in Nat, Len(sub) <= Len(sub2),
         \A i \in 1..Len(sub) : sub2[i] = sub[i]
  PROVE  NodeOK(p, h, ms2, sub2)
<1>1. StoredOK(p, sub2)
  BY MaxSeqnoAssumption DEF NodeOK, StoredOK
<1>2. LearnsOK(p, ms2)
  BY DEF NodeOK, LearnsOK
<1>3. HostsOK(p, h, ms2, sub2)
  <2>1. ASSUME NEW i \in 1..Len(h) PROVE EntryOK(h[i], i, ms2, sub2)
    <3>1. EntryOK(h[i], i, ms, sub)
      BY DEF NodeOK, HostsOK
    <3>2. Chosen(i - 1, ms2)
      BY <3>1 DEF EntryOK, Chosen
    <3>3. Len(h) \in Nat
      BY DEF NodeOK, FrameSeq
    <3> QED BY <3>1, <3>2, <3>3 DEF EntryOK
  <2> QED BY <2>1 DEF NodeOK, HostsOK
<1> QED BY <1>1, <1>2, <1>3 DEF NodeOK

LEMMA GetSlotOK ==
  ASSUME NEW p, NEW h, NEW ms, NEW sub, NEW s \in Seqno, NodeOK(p, h, ms, sub)
  PROVE  /\ NodeOK(GetSlot(p, s), h, ms, sub)
         /\ GetSlot(p, s) \in PaxosState
         /\ GetSlot(p, s).slots = p.slots
         /\ GetSlot(p, s).crnd = p.crnd
  BY DEF NodeOK, GetSlot, PaxosState, StoredOK, LearnsOK, ProcessedOK, HostsOK

\* A slot that is ready to be forwarded has a majority behind it.
LEMMA ReadyChosen ==
  ASSUME NEW p \in PaxosState, NEW ms, NEW s \in Seqno, LearnsOK(p, ms), Ready(p, s)
  PROVE  Chosen(s, ms)
<1> DEFINE Q == p.slots[s].learns
           r == p.slots[s].hrnd
<1>1. Q \in SUBSET Node /\ r \in Nat
  BY DEF PaxosState, Slot
<1>2. Cardinality(Q) >= 1 + (Cardinality(Node) \div 2)
  BY DEF Ready, Learned
<1>3. 2 * Cardinality(Q) > Cardinality(Node)
  BY <1>1, <1>2, NodeFacts
<1>4. Q # {}
  BY <1>2, <1>1, NodeFacts, FS_EmptySet
<1>5. PICK b \in Q : TRUE
  BY <1>4
<1>6. \A c \in Q : Learn(c, r, s) \in ms
  BY DEF LearnsOK
<1>7. Learn(b, r, s).n = r
  BY DEF Learn
<1> QED BY <1>1, <1>3, <1>5, <1>6, <1>7 DEF Chosen

\* What a step of controller a must establish.
StepOK(a, ms, sub) ==
  /\ state' \in [Node -> PaxosState]
  /\ hosts' \in [Node -> FrameSeq]
  /\ NodeOK(state'[a], hosts'[a], ms, sub)
  /\ \A b \in Node \ {a} : state'[b] = state[b] /\ hosts'[b] = hosts[b]

\* What is given of the maps that the step changes at a.
MapsOK == state \in [Node -> PaxosState] /\ hosts \in [Node -> FrameSeq]

LEMMA SetStateOK ==
  ASSUME NEW a \in Node, NEW p, NEW ms, NEW sub, MapsOK,
         NodeOK(p, hosts[a], ms, sub), SetState(a, p)
  PROVE  StepOK(a, ms, sub)
  BY DEF MapsOK, SetState, StepOK, NodeOK

\* The frames forwarded by one turn of the queue.
LEMMA ForwardedOK ==
  ASSUME NEW p \in PaxosState, NEW ms, NEW sub, NEW k \in 0..MaxSeqno + 1, k >= p.cseq,
         StoredOK(p, sub), LearnsOK(p, ms), Len(sub) \in Nat,
         \A s \in p.cseq..k - 1 : Ready(p, s)
  PROVE  /\ Forwarded(p, k) \in FrameSeq
         /\ Len(Forwarded(p, k)) = k - p.cseq
         /\ \A i \in 1..k - p.cseq : EntryOK(Forwarded(p, k)[i], p.cseq + i, ms, sub)
<1>1. p.cseq \in 0..MaxSeqno + 1 /\ k \in Nat /\ p.cseq \in Nat
  BY MaxSeqnoAssumption DEF PaxosState
<1>2. \A i \in 1..k - p.cseq : p.cseq + i - 1 \in Seqno /\ p.cseq + i - 1 \in p.cseq..k - 1
  BY <1>1, MaxSeqnoAssumption
<1>3. Forwarded(p, k) \in FrameSeq /\ Len(Forwarded(p, k)) = k - p.cseq
  <2> DEFINE R == [seqno: Seqno, v: Packet \cup {NoPacket}]
             j == k - p.cseq
  <2>1. j \in Nat
    BY <1>1
  <2>2. \A s \in Seqno : p.slots[s].vval \in Packet \cup {NoPacket}
    BY DEF PaxosState, Slot
  <2>3. Forwarded(p, k) \in [1..j -> R]
    BY <1>2, <2>2 DEF Forwarded
  <2>4. \A g \in [1..j -> R] : g \in Seq(R) /\ Len(g) = j
    <3> HIDE DEF R, j
    <3> QED BY <2>1
  <2> QED BY <2>3, <2>4 DEF FrameSeq
<1>4. ASSUME NEW i \in 1..k - p.cseq
      PROVE  EntryOK(Forwarded(p, k)[i], p.cseq + i, ms, sub)
  <2> DEFINE s == p.cseq + i - 1
  <2>1. s \in Seqno /\ Ready(p, s) /\ p.cseq + i = s + 1
    BY <1>1, <1>2
  <2>2. Chosen(s, ms)
    BY <2>1, ReadyChosen
  <2>3. Forwarded(p, k)[i] = [seqno |-> s, v |-> p.slots[s].vval]
    BY DEF Forwarded
  <2>4. p.slots[s].vval # NoPacket => s + 1 <= Len(sub) /\ p.slots[s].vval = sub[s + 1]
    BY <2>1, MaxSeqnoAssumption DEF StoredOK
  <2>5. (s + 1) - 1 = s
    BY <2>1, MaxSeqnoAssumption
  <2> HIDE DEF s
  <2> QED BY <2>1, <2>2, <2>3, <2>4, <2>5 DEF EntryOK
<1> QED BY <1>3, <1>4

LEMMA ProcessQueueOK ==
  ASSUME NEW a \in Node, NEW p, NEW n \in Nat, NEW ms, NEW sub, MapsOK, Len(sub) \in Nat,
         NodeOK(p, hosts[a], ms, sub), ProcessQueue(a, p, n)
  PROVE  StepOK(a, ms, sub)
<1>1. PICK k \in 0..MaxSeqno + 1 :
        /\ QueueEnd(a, p, k)
        /\ state' = [state EXCEPT ![a] =
                       [p EXCEPT !.cseq = k,
                                 !.processed = @ \cup {<<n, s>> : s \in p.cseq..k - 1}]]
        /\ hosts' = [hosts EXCEPT ![a] = @ \o Forwarded(p, k)]
  BY DEF ProcessQueue
<1> DEFINE q == [p EXCEPT !.cseq = k,
                          !.processed = @ \cup {<<n, s>> : s \in p.cseq..k - 1}]
           f == Forwarded(p, k)
           h == hosts[a] \o f
<1>2. p \in PaxosState /\ hosts[a] \in FrameSeq /\ p.cseq \in Nat /\ k \in Nat
  BY MaxSeqnoAssumption DEF NodeOK, MapsOK, PaxosState
<1>3. k >= p.cseq /\ \A s \in p.cseq..k - 1 : Ready(p, s)
  BY <1>1 DEF QueueEnd
<1>4. /\ f \in FrameSeq /\ Len(f) = k - p.cseq
      /\ \A i \in 1..k - p.cseq : EntryOK(f[i], p.cseq + i, ms, sub)
  BY <1>2, <1>3, ForwardedOK DEF NodeOK
<1>5. q \in PaxosState /\ q.slots = p.slots /\ q.cseq = k
  <2>1. {<<n, s>> : s \in p.cseq..k - 1} \subseteq Nat \X Seqno
    BY <1>2, MaxSeqnoAssumption
  <2> QED BY <1>2, <2>1 DEF PaxosState
<1>6. ProcessedOK(q)
  BY <1>2, <1>3, MaxSeqnoAssumption DEF ProcessedOK, NodeOK, PaxosState
<1>7. StoredOK(q, sub) /\ LearnsOK(q, ms)
  BY <1>5 DEF NodeOK, StoredOK, LearnsOK
<1>8. h \in FrameSeq /\ HostsOK(q, h, ms, sub)
  <2>1. Len(hosts[a]) = p.cseq /\ \A i \in 1..p.cseq : EntryOK(hosts[a][i], i, ms, sub)
    BY DEF NodeOK, HostsOK
  <2>2. /\ h \in FrameSeq /\ Len(h) = k
        /\ \A i \in 1..k : h[i] = IF i <= p.cseq THEN hosts[a][i] ELSE f[i - p.cseq]
    <3> DEFINE g == hosts[a]
               R == [seqno: Seqno, v: Packet \cup {NoPacket}]
    <3>1. g \in Seq(R) /\ f \in Seq(R) /\ FrameSeq = Seq(R)
      BY <1>2, <1>4 DEF FrameSeq
    <3>2. Len(g) = p.cseq /\ Len(f) = k - p.cseq
      BY <1>4, <2>1
    <3>3. Len(g) + Len(f) = k
      BY <1>2, <1>3, <3>2
    <3>4. h = g \o f
      OBVIOUS
    <3> HIDE DEF f, R, g, h
    <3>5. /\ h \in Seq(R) /\ Len(h) = Len(g) + Len(f)
          /\ \A i \in 1..Len(g) + Len(f) :
               h[i] = IF i <= Len(g) THEN g[i] ELSE f[i - Len(g)]
      BY <3>1, <3>4, ConcatProperties
    <3>6. h \in FrameSeq /\ Len(h) = k
      BY <3>1, <3>3, <3>5
    <3>7. \A i \in 1..k : h[i] = IF i <= p.cseq THEN g[i] ELSE f[i - p.cseq]
      BY <3>2, <3>3, <3>5
    <3> QED BY <3>6, <3>7 DEF g
  <2>3. ASSUME NEW i \in 1..k PROVE EntryOK(h[i], i, ms, sub)
    <3>1. CASE i <= p.cseq
      <4>1. h[i] = hosts[a][i]
        BY <2>2, <3>1
      <4> QED BY <4>1, <2>1, <3>1, <1>2
    <3>2. CASE i > p.cseq
      <4>1. h[i] = f[i - p.cseq]
        BY <1>2, <2>2, <3>2
      <4>2. i - p.cseq \in 1..k - p.cseq /\ p.cseq + (i - p.cseq) = i
        BY <1>2, <1>3, <3>2
      <4> HIDE DEF h, f
      <4>3. \A j \in 1..k - p.cseq : \A x : x = p.cseq + j => EntryOK(f[j], x, ms, sub)
        BY <1>4
      <4>4. \A e : e = f[i - p.cseq] => EntryOK(e, i, ms, sub)
        BY <4>2, <4>3
      <4> QED BY <4>1, <4>4
    <3>3. i <= p.cseq \/ i > p.cseq
      BY <1>2
    <3> QED BY <3>1, <3>2, <3>3
  <2> QED BY <2>2, <2>3, <1>5 DEF HostsOK
<1>9. state'[a] = q /\ hosts'[a] = h
  BY <1>1 DEF MapsOK
<1>10. NodeOK(q, h, ms, sub)
  BY <1>5, <1>6, <1>7, <1>8 DEF NodeOK
<1>11. state' \in [Node -> PaxosState] /\ hosts' \in [Node -> FrameSeq]
  BY <1>1, <1>5, <1>8 DEF MapsOK
<1> QED BY <1>1, <1>9, <1>10, <1>11 DEF StepOK

\* Counting a LEARN keeps the controller's state right, given that it was sent.
LEMMA AddLearnOK ==
  ASSUME NEW p, NEW h, NEW ms, NEW sub, NEW s \in Seqno, NEW n \in Nat, NEW b \in Node,
         NodeOK(p, h, ms, sub), Learn(b, n, s) \in ms,
         CountsLearn(p.slots[s], b, n)
  PROVE  NodeOK([p EXCEPT !.slots[s] = AddLearn(@, b, n)], h, ms, sub)
<1> DEFINE sl == AddLearn(p.slots[s], b, n)
           q == [p EXCEPT !.slots[s] = sl]
<1>1. p \in PaxosState /\ p.slots[s] \in Slot
  BY DEF NodeOK, PaxosState
<1>2. /\ sl \in Slot /\ sl.vval = p.slots[s].vval /\ sl.hrnd = n
      /\ \A c \in sl.learns : Learn(c, n, s) \in ms
  <2>1. CASE n > p.slots[s].hrnd
    BY <1>1, <2>1 DEF AddLearn, Slot
  <2>2. CASE n = p.slots[s].hrnd
    BY <1>1, <2>2 DEF AddLearn, Slot, NodeOK, LearnsOK
  <2>3. n >= p.slots[s].hrnd /\ p.slots[s].hrnd \in Nat
    BY <1>1 DEF CountsLearn, Slot
  <2> QED BY <2>1, <2>2, <2>3
<1> HIDE DEF sl
<1>3. /\ q \in PaxosState /\ q.cseq = p.cseq /\ q.processed = p.processed
      /\ \A t \in Seqno : q.slots[t] = IF t = s THEN sl ELSE p.slots[t]
  BY <1>1, <1>2 DEF PaxosState
<1>4. StoredOK(q, sub) /\ LearnsOK(q, ms)
  BY <1>2, <1>3 DEF NodeOK, StoredOK, LearnsOK
<1>5. ProcessedOK(q) /\ HostsOK(q, h, ms, sub)
  BY <1>3 DEF NodeOK, ProcessedOK, HostsOK
<1> QED BY <1>3, <1>4, <1>5 DEF NodeOK, sl

LEMMA OnLearnOK ==
  ASSUME NEW a \in Node, NEW p, NEW ms, NEW sub, NEW b \in Node, NEW n \in Nat,
         NEW s \in Seqno, MapsOK, Len(sub) \in Nat, NodeOK(p, hosts[a], ms, sub),
         Learn(b, n, s) \in ms, OnLearn(a, p, b, n, s)
  PROVE  StepOK(a, ms, sub)
<1> DEFINE q == GetSlot(p, s)
<1>1. NodeOK(q, hosts[a], ms, sub)
  BY GetSlotOK
<1>2. CASE CountsLearn(q.slots[s], b, n)
  <2>1. NodeOK([q EXCEPT !.slots[s] = AddLearn(@, b, n)], hosts[a], ms, sub)
    BY <1>1, <1>2, AddLearnOK
  <2>2. ProcessQueue(a, [q EXCEPT !.slots[s] = AddLearn(@, b, n)], n)
    BY <1>2 DEF OnLearn
  <2> QED BY <2>1, <2>2, ProcessQueueOK
<1>3. CASE ~CountsLearn(q.slots[s], b, n)
  BY <1>1, <1>3, SetStateOK DEF OnLearn
<1> QED BY <1>2, <1>3

LEMMA StoreShape ==
  ASSUME NEW p \in PaxosState, NEW s \in Seqno, NEW n \in Nat, NEW v \in Packet
  PROVE  /\ Store(p, n, s, v) \in PaxosState
         /\ Store(p, n, s, v).cseq = p.cseq
         /\ Store(p, n, s, v).processed = p.processed
         /\ Store(p, n, s, v).keys = p.keys \cup {s}
         /\ \A t \in Seqno :
              /\ Store(p, n, s, v).slots[t].hrnd = p.slots[t].hrnd
              /\ Store(p, n, s, v).slots[t].learns = p.slots[t].learns
              /\ Store(p, n, s, v).slots[t].vval = IF t = s THEN v ELSE p.slots[t].vval
<1> DEFINE g == GetSlot(p, s)
           q == Store(p, n, s, v)
           sl == [g.slots[s] EXCEPT !.vrnd = n, !.vval = v]
<1>1. g \in PaxosState
  BY DEF GetSlot, PaxosState
<1>2. g.slots[s] \in Slot
  BY <1>1 DEF PaxosState
<1>3. sl \in Slot /\ sl.hrnd = g.slots[s].hrnd /\ sl.learns = g.slots[s].learns /\ sl.vval = v
  BY <1>2 DEF Slot
<1>4. q = [g EXCEPT !.crnd = n, !.slots[s].vrnd = n, !.slots[s].vval = v]
  BY DEF Store
<1> HIDE DEF g, q
<1>5. q = [g EXCEPT !.crnd = n, !.slots = [g.slots EXCEPT ![s] = sl]]
  BY <1>1, <1>2, <1>4 DEF PaxosState, Slot
<1>6. g.cseq = p.cseq /\ g.processed = p.processed /\ g.keys = p.keys \cup {s}
      /\ g.slots = p.slots
  BY DEF GetSlot, PaxosState, g
<1> HIDE DEF sl
<1>7. /\ q \in PaxosState
      /\ q.cseq = g.cseq /\ q.processed = g.processed /\ q.keys = g.keys
      /\ \A t \in Seqno : q.slots[t] = IF t = s THEN sl ELSE g.slots[t]
  BY <1>1, <1>3, <1>5 DEF PaxosState
<1> QED BY <1>3, <1>6, <1>7 DEF q

\* Storing the packet that an ACCEPT brings for its number.
LEMMA StoreOK ==
  ASSUME NEW p, NEW h, NEW ms, NEW sub, NEW s \in Seqno, NEW n \in Nat, NEW v \in Packet,
         NodeOK(p, h, ms, sub), s < Len(sub), v = sub[s + 1]
  PROVE  NodeOK(Store(p, n, s, v), h, ms, sub)
<1> DEFINE q == Store(p, n, s, v)
<1>0. p \in PaxosState
  BY DEF NodeOK
<1>1. /\ q \in PaxosState /\ q.cseq = p.cseq /\ q.processed = p.processed
      /\ \A t \in Seqno : /\ q.slots[t].hrnd = p.slots[t].hrnd
                          /\ q.slots[t].learns = p.slots[t].learns
                          /\ q.slots[t].vval = IF t = s THEN v ELSE p.slots[t].vval
  BY ONLY <1>0, StoreShape, s \in Seqno, n \in Nat, v \in Packet
<1> HIDE DEF q
<1>2. StoredOK(q, sub) /\ LearnsOK(q, ms)
  BY <1>1 DEF NodeOK, StoredOK, LearnsOK
<1>3. ProcessedOK(q) /\ HostsOK(q, h, ms, sub)
  BY <1>1 DEF NodeOK, ProcessedOK, HostsOK
<1>4. NodeOK(q, h, ms, sub)
  BY <1>1, <1>2, <1>3 DEF NodeOK
<1> QED BY <1>4 DEF q

\* on_accept, by a controller that was given the packet numbered s.
LEMMA OnAcceptOK ==
  ASSUME NEW a \in Node, NEW p, NEW sub, NEW sent, NEW n \in Nat, NEW s \in Seqno,
         NEW v \in Packet, MapsOK, Len(sub) \in Nat, NodeOK(p, hosts[a], msgs, sub),
         s < Len(sub), v = sub[s + 1], OnAccept(a, p, n, s, v, sent)
  PROVE  /\ StepOK(a, msgs', sub)
         /\ msgs \subseteq msgs'
         /\ msgs' \subseteq msgs \cup sent \cup {Learn(a, n, s)}
<1>1. msgs \subseteq msgs' /\ msgs' \subseteq msgs \cup sent \cup {Learn(a, n, s)}
  BY DEF OnAccept
<1>2. NodeOK(p, hosts[a], msgs', sub)
  BY <1>1, NodeOKGrows
<1>3. CASE Accepts(p, n, s)
  <2>1. Learn(a, n, s) \in msgs' /\ OnLearn(a, Store(p, n, s, v), a, n, s)
    BY <1>3 DEF OnAccept
  <2>2. NodeOK(Store(p, n, s, v), hosts[a], msgs', sub)
    BY <1>2, StoreOK
  <2> QED BY <1>1, <2>1, <2>2, OnLearnOK
<1>4. CASE ~Accepts(p, n, s)
  <2>1. SetState(a, GetSlot(p, s))
    BY <1>4 DEF OnAccept
  <2>2. NodeOK(GetSlot(p, s), hosts[a], msgs', sub)
    BY <1>2, GetSlotOK
  <2> QED BY <1>1, <2>1, <2>2, SetStateOK
<1> QED BY <1>3, <1>4

\* A collection evicts slots and changes nothing else.
LEMMA EvictOK ==
  ASSUME NEW p, NEW h, NEW ms, NEW sub, NodeOK(p, h, ms, sub)
  PROVE  NodeOK(Evict(p), h, ms, sub)
<1> DEFINE q == Evict(p)
<1>1. NewSlot \in Slot /\ NewSlot.vval = NoPacket /\ NewSlot.learns = {}
  BY DEF NewSlot, Slot
<1>2. /\ q \in PaxosState /\ q.cseq = p.cseq /\ q.processed = p.processed
      /\ \A s \in Seqno : q.slots[s] = p.slots[s] \/ q.slots[s] = NewSlot
  BY <1>1 DEF NodeOK, Evict, PaxosState
<1> HIDE DEF q
<1>3. StoredOK(q, sub) /\ LearnsOK(q, ms)
  BY <1>1, <1>2 DEF NodeOK, StoredOK, LearnsOK
<1>4. ProcessedOK(q) /\ HostsOK(q, h, ms, sub)
  BY <1>2 DEF NodeOK, ProcessedOK, HostsOK
<1>5. NodeOK(q, h, ms, sub)
  BY <1>2, <1>3, <1>4 DEF NodeOK
<1> QED BY <1>5 DEF q

-----------------------------------------------------------------------------
(* The invariant *)

\* The parts of TypeOK that a handler leaves to its own variables.
OthersOK ==
  /\ stage \in [Node -> Stage]
  /\ seqno \in -1..MaxSeqno
  /\ known \in [Node -> BOOLEAN]
  /\ msgs \subseteq AcceptMsg \cup LearnMsg
  /\ submitted \in Seq(Packet)
  /\ Len(submitted) = seqno + 1
  /\ FramesOK(msgs, submitted)

LEMMA IInvParts ==
  IInv <=> OthersOK /\ MapsOK /\ \A a \in Node : NodeOK(state[a], hosts[a], msgs, submitted)
  BY DEF IInv, OthersOK, MapsOK, TypeOK, FrameSeq

\* A step of one controller keeps what holds of the others.
LEMMA StepKeepsAll ==
  ASSUME NEW a \in Node, IInv, OthersOK', StepOK(a, msgs', submitted'), msgs \subseteq msgs',
         Len(submitted) <= Len(submitted'),
         \A i \in 1..Len(submitted) : submitted'[i] = submitted[i]
  PROVE  IInv'
<1>1. MapsOK'
  BY DEF StepOK, MapsOK
<1>2. ASSUME NEW b \in Node
      PROVE  NodeOK(state'[b], hosts'[b], msgs', submitted')
  <2>1. CASE b = a
    BY <2>1 DEF StepOK
  <2>2. CASE b # a
    <3>1. NodeOK(state[b], hosts[b], msgs, submitted)
      BY IInvParts
    <3>2. Len(submitted) \in Nat /\ Len(submitted') \in Nat
      <4>1. submitted \in Seq(Packet)
        BY IInvParts DEF OthersOK
      <4>2. submitted' \in Seq(Packet)
        BY DEF OthersOK
      <4> QED BY <4>1, <4>2, LenProperties
    <3>3. state'[b] = state[b] /\ hosts'[b] = hosts[b]
      BY <2>2 DEF StepOK
    <3>4. NodeOK(state[b], hosts[b], msgs', submitted')
      BY <3>1, <3>2, NodeOKGrows
    <3> QED BY <3>3, <3>4
  <2> QED BY <2>1, <2>2
<1> QED BY <1>1, <1>2 DEF IInv, OthersOK, MapsOK, TypeOK, FrameSeq

LEMMA InitIInv == Init => IInv
<1> SUFFICES ASSUME Init PROVE IInv
  OBVIOUS
<1> DEFINE e == [a \in Node |-> <<>>]
<1>1. NewSlot \in Slot /\ NewSlot.vval = NoPacket /\ NewSlot.learns = {}
  BY DEF NewSlot, Slot
<1>2. OthersOK
  BY MaxSeqnoAssumption DEF Init, OthersOK, Stage, FramesOK
<1>3. <<>> \in FrameSeq /\ Len(<<>>) = 0
  BY DEF FrameSeq
<1>4. MapsOK
  BY <1>1, <1>3, NodeIdAssumption, MaxSeqnoAssumption DEF Init, MapsOK, PaxosState
<1>5. ASSUME NEW a \in Node
      PROVE  NodeOK(state[a], hosts[a], msgs, submitted)
  <2> DEFINE p == state[a]
  <2>1. p \in PaxosState /\ p.cseq = 0 /\ p.processed = {}
        /\ p.slots = [s \in Seqno |-> NewSlot]
    BY <1>4 DEF MapsOK, Init
  <2> HIDE DEF p
  <2>2. StoredOK(p, submitted) /\ LearnsOK(p, msgs) /\ ProcessedOK(p)
    BY <1>1, <2>1 DEF StoredOK, LearnsOK, ProcessedOK
  <2>3. HostsOK(p, <<>>, msgs, submitted)
    BY <1>3, <2>1 DEF HostsOK
  <2>4. hosts[a] = <<>>
    BY DEF Init
  <2> QED BY <1>3, <2>1, <2>2, <2>3, <2>4 DEF NodeOK, p
<1> QED BY <1>2, <1>4, <1>5, IInvParts

\* A message in msgs has the type that its type field says.
LEMMA MsgTypes ==
  ASSUME OthersOK, NEW m \in msgs
  PROVE  /\ m.type = "ACCEPT" => m \in AcceptMsg /\ m.n \in Nat /\ m.seqno \in Seqno
                                 /\ m.v \in Packet
         /\ m.type = "LEARN" => /\ m \in LearnMsg /\ m.n \in Nat /\ m.seqno \in Seqno
                                /\ m.src \in Node /\ Learn(m.src, m.n, m.seqno) = m
  BY DEF OthersOK, AcceptMsg, LearnMsg, Learn

LEMMA OnClientIInv ==
  ASSUME IInv, NEW v \in Packet, OnClient(v)
  PROVE  IInv'
<1> DEFINE p == state[Leader]
           s == seqno + 1
           m == Accept(p.crnd, s, v)
<1>1. OthersOK /\ MapsOK /\ NodeOK(p, hosts[Leader], msgs, submitted)
  BY IInvParts, NodeAssumption
<1>2. s \in Seqno /\ s = Len(submitted) /\ p.crnd \in Nat /\ seqno' = s
  BY <1>1 DEF OnClient, NextSeqno, OthersOK, NodeOK, PaxosState
<1>3. /\ submitted' \in Seq(Packet) /\ Len(submitted') = s + 1
      /\ \A i \in 1..Len(submitted) : submitted'[i] = submitted[i]
      /\ submitted'[s + 1] = v
  BY <1>1, <1>2 DEF OnClient, NextSeqno, OthersOK
<1>4. NodeOK(p, hosts[Leader], msgs, submitted')
  BY <1>1, <1>2, <1>3, NodeOKGrows, MaxSeqnoAssumption
<1>5. /\ StepOK(Leader, msgs', submitted')
      /\ msgs \subseteq msgs'
      /\ msgs' \subseteq msgs \cup {m} \cup {Learn(Leader, p.crnd, s)}
  <2>1. OnAccept(Leader, p, p.crnd, s, v, {m})
    BY DEF OnClient, NextSeqno
  <2>2. Len(submitted') \in Nat /\ s < Len(submitted')
    BY <1>2, <1>3, MaxSeqnoAssumption
  <2> HIDE DEF p, s, m
  <2> QED BY <1>1, <1>2, <1>3, <1>4, <2>1, <2>2, OnAcceptOK, NodeAssumption
<1>6. OthersOK'
  <2>1. m \in AcceptMsg /\ Learn(Leader, p.crnd, s) \in LearnMsg
        /\ m.type = "ACCEPT" /\ m.seqno = s /\ m.v = v
        /\ Learn(Leader, p.crnd, s).type = "LEARN" /\ Learn(Leader, p.crnd, s).seqno = s
    BY <1>2, NodeAssumption DEF Accept, Learn, AcceptMsg, LearnMsg
  <2> HIDE DEF m, p, s
  <2>2. msgs' \subseteq AcceptMsg \cup LearnMsg
    BY <1>1, <1>5, <2>1 DEF OthersOK
  <2>3. FramesOK(msgs', submitted')
    <3> SUFFICES ASSUME NEW x \in msgs'
                 PROVE  /\ x.seqno < Len(submitted')
                        /\ x.type = "ACCEPT" => x.v = submitted'[x.seqno + 1]
      BY DEF FramesOK
    <3>1. CASE x \in msgs
      <4>1. /\ x.seqno < Len(submitted) /\ x.seqno \in Seqno
            /\ x.type = "ACCEPT" => x.v = submitted[x.seqno + 1]
        BY <1>1, <3>1 DEF OthersOK, FramesOK, AcceptMsg, LearnMsg
      <4> QED BY <1>2, <1>3, <4>1, MaxSeqnoAssumption
    <3>2. CASE x = m
      BY <1>2, <1>3, <2>1, <3>2, MaxSeqnoAssumption
    <3>3. CASE x = Learn(Leader, p.crnd, s)
      BY <1>2, <1>3, <2>1, <3>3, MaxSeqnoAssumption
    <3> QED BY <1>5, <3>1, <3>2, <3>3
  <2>4. stage' = stage /\ known' = known
    BY DEF OnClient, NextSeqno
  <2>5. seqno' \in -1..MaxSeqno
    BY <1>2, MaxSeqnoAssumption
  <2> QED BY <1>1, <1>2, <1>3, <2>2, <2>3, <2>4, <2>5 DEF OthersOK
<1>7. Len(submitted) <= Len(submitted')
  BY <1>2, <1>3, MaxSeqnoAssumption
<1> QED BY <1>3, <1>5, <1>6, <1>7, StepKeepsAll, NodeAssumption

LEMMA ReceiveAcceptIInv ==
  ASSUME IInv, NEW a \in Node, NEW m \in msgs, ReceiveAccept(a, m)
  PROVE  IInv'
<1>1. OthersOK /\ MapsOK /\ NodeOK(state[a], hosts[a], msgs, submitted)
  BY IInvParts
<1>2. m.type = "ACCEPT" /\ m.n \in Nat /\ m.seqno \in Seqno /\ m.v \in Packet
  BY <1>1, MsgTypes DEF ReceiveAccept
<1>3. m.seqno < Len(submitted) /\ m.v = submitted[m.seqno + 1] /\ Len(submitted) \in Nat
  BY <1>1, <1>2 DEF OthersOK, FramesOK
<1>4. OnAccept(a, state[a], m.n, m.seqno, m.v, {})
  BY DEF ReceiveAccept
<1>5. /\ StepOK(a, msgs', submitted)
      /\ msgs \subseteq msgs'
      /\ msgs' \subseteq msgs \cup {} \cup {Learn(a, m.n, m.seqno)}
  BY <1>1, <1>2, <1>3, <1>4, OnAcceptOK
<1>6. UNCHANGED <<stage, seqno, known, submitted>>
  BY DEF ReceiveAccept
<1>7. OthersOK'
  <2>1. /\ Learn(a, m.n, m.seqno) \in LearnMsg /\ Learn(a, m.n, m.seqno).type = "LEARN"
        /\ Learn(a, m.n, m.seqno).seqno = m.seqno
    BY <1>2 DEF Learn, LearnMsg
  <2> QED BY <1>1, <1>3, <1>5, <1>6, <2>1 DEF OthersOK, FramesOK
<1> QED BY <1>3, <1>5, <1>6, <1>7, StepKeepsAll

LEMMA ReceiveLearnIInv ==
  ASSUME IInv, NEW a \in Node, NEW m \in msgs, ReceiveLearn(a, m)
  PROVE  IInv'
<1>1. OthersOK /\ MapsOK /\ NodeOK(state[a], hosts[a], msgs, submitted)
  BY IInvParts
<1>2. m.n \in Nat /\ m.seqno \in Seqno /\ m.src \in Node /\ Learn(m.src, m.n, m.seqno) \in msgs
  BY <1>1, MsgTypes DEF ReceiveLearn
<1>3. OnLearn(a, state[a], m.src, m.n, m.seqno)
      /\ UNCHANGED <<stage, seqno, known, msgs, submitted>>
  BY DEF ReceiveLearn
<1>4. Len(submitted) \in Nat
  BY <1>1 DEF OthersOK
<1>5. StepOK(a, msgs, submitted)
  BY <1>1, <1>2, <1>3, <1>4, OnLearnOK
<1>6. OthersOK'
  BY <1>1, <1>3 DEF OthersOK
<1> QED BY <1>3, <1>4, <1>5, <1>6, StepKeepsAll

\* The other steps leave the frames and the numbered packets alone.
LEMMA LocalIInv ==
  ASSUME IInv, NEW a \in Node, StepOK(a, msgs, submitted), UNCHANGED <<seqno, msgs, submitted>>,
         stage' \in [Node -> Stage], known' \in [Node -> BOOLEAN]
  PROVE  IInv'
<1>1. OthersOK /\ Len(submitted) \in Nat
  BY IInvParts DEF OthersOK
<1>2. OthersOK'
  BY <1>1 DEF OthersOK
<1> QED BY <1>1, <1>2, StepKeepsAll

LEMMA NextIInv == IInv /\ [Next]_vars => IInv'
<1> SUFFICES ASSUME IInv, [Next]_vars PROVE IInv'
  OBVIOUS
<1>0. OthersOK /\ MapsOK /\ Leader \in Node /\ Len(submitted) \in Nat
      /\ \A a \in Node : NodeOK(state[a], hosts[a], msgs, submitted)
  BY IInvParts, NodeAssumption DEF OthersOK
<1>1. ASSUME NEW a \in Node, UNCHANGED <<state, hosts>> PROVE StepOK(a, msgs, submitted)
  BY <1>0, <1>1 DEF StepOK, MapsOK
<1>2. CASE MakeLeader
  <2>1. StepOK(Leader, msgs, submitted)
    BY <1>0, <1>1, <1>2 DEF MakeLeader
  <2> QED BY <1>0, <1>2, <2>1, LocalIInv DEF MakeLeader, OthersOK, Stage
<1>3. CASE PickNext
  <2> DEFINE p == state[Leader]
             q == [p EXCEPT !.crnd = @ + Cardinality(Node)]
  <2>1. p \in PaxosState /\ NodeOK(p, hosts[Leader], msgs, submitted)
    BY <1>0 DEF NodeOK
  <2>2. /\ q \in PaxosState /\ q.slots = p.slots /\ q.cseq = p.cseq
        /\ q.processed = p.processed
    BY <2>1, NodeFacts DEF PaxosState
  <2>3. NodeOK(q, hosts[Leader], msgs, submitted)
    BY <2>1, <2>2 DEF NodeOK, StoredOK, LearnsOK, ProcessedOK, HostsOK
  <2>4. SetState(Leader, q)
    BY <1>0, <1>3, <2>1 DEF PickNext, SetState, MapsOK, PaxosState
  <2>5. StepOK(Leader, msgs, submitted)
    BY <1>0, <2>3, <2>4, SetStateOK
  <2> QED BY <1>0, <1>3, <2>5, LocalIInv DEF PickNext, OthersOK, Stage
<1>4. ASSUME NEW v \in Packet, OnClient(v) PROVE IInv'
  BY <1>4, OnClientIInv
<1>5. ASSUME NEW a \in Node, Join(a) \/ StartPump(a) \/ HostsChange(a) PROVE IInv'
  <2>1. StepOK(a, msgs, submitted)
    BY <1>0, <1>1, <1>5 DEF Join, StartPump, HostsChange
  <2> QED BY <1>0, <1>5, <2>1, LocalIInv DEF Join, StartPump, HostsChange, OthersOK, Stage
<1>6. ASSUME NEW a \in Node, NEW m \in msgs, ReceiveAccept(a, m) \/ ReceiveLearn(a, m)
      PROVE  IInv'
  BY <1>6, ReceiveAcceptIInv, ReceiveLearnIInv
<1>7. ASSUME NEW a \in Node, Pump(a) PROVE IInv'
  <2>1. state[a].crnd \in Nat
    BY <1>0 DEF NodeOK, PaxosState
  <2>2. StepOK(a, msgs, submitted)
    BY <1>0, <1>7, <2>1, ProcessQueueOK DEF Pump
  <2> QED BY <1>0, <1>7, <2>2, LocalIInv DEF Pump, OthersOK, Stage
<1>8. ASSUME NEW a \in Node, GarbageCollect(a) PROVE IInv'
  <2>1. NodeOK(Evict(state[a]), hosts[a], msgs, submitted)
    BY <1>0, EvictOK
  <2>2. StepOK(a, msgs, submitted)
    BY <1>0, <1>8, <2>1, SetStateOK DEF GarbageCollect
  <2> QED BY <1>0, <1>8, <2>2, LocalIInv DEF GarbageCollect, OthersOK, Stage
<1>9. CASE UNCHANGED vars
  <2>1. StepOK(Leader, msgs, submitted)
    BY <1>0, <1>1, <1>9 DEF vars
  <2> QED BY <1>0, <1>9, <2>1, LocalIInv DEF vars, OthersOK
<1> QED BY <1>2, <1>3, <1>4, <1>5, <1>6, <1>7, <1>8, <1>9 DEF Next

\* The invariant holds in every reachable state.
THEOREM Invariance == Spec => []IInv
<1>1. Init => IInv
  BY InitIInv
<1>2. IInv /\ [Next]_vars => IInv'
  BY NextIInv
<1> QED BY <1>1, <1>2, PTL DEF Spec

-----------------------------------------------------------------------------
(* The safety properties *)

\* TypeOK, for every network, number of packets and bound of the numbers.
THEOREM TypeCorrect == Spec => []TypeOK
<1>1. IInv => TypeOK
  BY DEF IInv
<1> QED BY <1>1, Invariance, PTL

\* process_queue forwards the slots 0, 1, 2, ... and each exactly once.
THEOREM Ordered == Spec => []InOrderExactlyOnce
<1>1. IInv => InOrderExactlyOnce
  BY DEF IInv, NodeOK, HostsOK, EntryOK, InOrderExactlyOnce
<1> QED BY <1>1, Invariance, PTL

\* Two switches never send their hosts different packets at the same place.
THEOREM Agreement == Spec => []SamePackets
<1>1. IInv => SamePackets
  BY DEF IInv, NodeOK, HostsOK, EntryOK, SamePackets
<1> QED BY <1>1, Invariance, PTL

\* The assertions in queue and process_queue do not fail.
THEOREM Assertions == Spec => []HeadNotProcessed
<1>1. IInv => HeadNotProcessed
  BY DEF IInv, NodeOK, ProcessedOK, HeadNotProcessed
<1> QED BY <1>1, Invariance, PTL

\* Nothing is forwarded that less than a majority of the nodes has accepted.
THEOREM Majority == Spec => []MajorityAccepted
<1>1. IInv => MajorityAccepted
  <2> SUFFICES ASSUME IInv, NEW a \in Node, NEW i \in 1..Len(hosts[a])
               PROVE  \E n \in {m.n : m \in msgs} :
                        2 * Cardinality({b \in Node : Accepted(b, n, i - 1)})
                          > Cardinality(Node)
    BY DEF MajorityAccepted
  <2>1. Chosen(i - 1, msgs)
    BY DEF IInv, NodeOK, HostsOK, EntryOK
  <2>2. PICK m \in msgs, Q \in SUBSET Node :
          /\ 2 * Cardinality(Q) > Cardinality(Node)
          /\ \A b \in Q : Learn(b, m.n, i - 1) \in msgs
    BY <2>1 DEF Chosen
  <2> DEFINE S == {b \in Node : Accepted(b, m.n, i - 1)}
  <2>3. Q \subseteq S /\ S \subseteq Node
    BY <2>2 DEF Accepted
  <2>4. Cardinality(Q) <= Cardinality(S) /\ Cardinality(S) \in Nat /\ Cardinality(Q) \in Nat
    BY <2>3, NodeFacts, FS_Subset
  <2>5. 2 * Cardinality(S) > Cardinality(Node)
    BY <2>2, <2>4, NodeFacts
  <2> QED BY <2>5
<1> QED BY <1>1, Invariance, PTL

-----------------------------------------------------------------------------
(* What a step keeps: learned slots, and the frames that hosts already got *)

\* From p to q, no learned slot at or above q's head is lost.
Keeps(p, q) == \A s \in Seqno : Ready(p, s) /\ q.cseq <= s => Ready(q, s)

\* Controller a goes from state p to its next one and keeps its slots; the
\* hosts of a get more frames, those of the others do not.
GrowOK(a, p) ==
  /\ Keeps(p, state'[a])
  /\ \A b \in Node \ {a} : state'[b] = state[b]
  /\ \E f \in FrameSeq : hosts' = [hosts EXCEPT ![a] = @ \o f]

LEMMA SetStateGrows ==
  ASSUME NEW a \in Node, NEW p, NEW q, MapsOK, Keeps(p, q), SetState(a, q)
  PROVE  GrowOK(a, p)
<1>1. hosts[a] \in FrameSeq /\ <<>> \in FrameSeq
  <2>1. hosts[a] \in FrameSeq
    BY DEF MapsOK
  <2>2. <<>> \in FrameSeq
    BY DEF FrameSeq
  <2> QED BY <2>1, <2>2
<1>2. hosts[a] \o <<>> = hosts[a]
  BY <1>1, ConcatEmptySeq DEF FrameSeq
<1>3. hosts' = [hosts EXCEPT ![a] = @ \o <<>>]
  BY <1>2 DEF SetState, MapsOK
<1> QED BY <1>1, <1>3 DEF SetState, GrowOK, MapsOK

LEMMA ProcessQueueGrows ==
  ASSUME NEW a \in Node, NEW p, NEW q, NEW n \in Nat, NEW ms, NEW sub, MapsOK,
         NodeOK(q, hosts[a], ms, sub), Len(sub) \in Nat, ProcessQueue(a, q, n),
         Keeps(p, q), p.cseq = q.cseq
  PROVE  GrowOK(a, p)
<1>1. PICK k \in 0..MaxSeqno + 1 :
        /\ QueueEnd(a, q, k)
        /\ state' = [state EXCEPT ![a] =
                       [q EXCEPT !.cseq = k,
                                 !.processed = @ \cup {<<n, s>> : s \in q.cseq..k - 1}]]
        /\ hosts' = [hosts EXCEPT ![a] = @ \o Forwarded(q, k)]
  BY DEF ProcessQueue
<1>2. q \in PaxosState
  BY DEF NodeOK
<1>3. Forwarded(q, k) \in FrameSeq
  BY <1>1, <1>2, ForwardedOK DEF QueueEnd, NodeOK
<1>4. /\ state'[a].cseq = k /\ state'[a].slots = q.slots /\ state'[a].keys = q.keys
      /\ k >= q.cseq /\ q.cseq \in Nat /\ k \in Nat
  BY <1>1, <1>2, MaxSeqnoAssumption DEF MapsOK, PaxosState, QueueEnd
<1>5. Keeps(p, state'[a])
  BY <1>4, MaxSeqnoAssumption DEF Keeps, Ready
<1> QED BY <1>1, <1>3, <1>5 DEF GrowOK, MapsOK

LEMMA OnLearnGrows ==
  ASSUME NEW a \in Node, NEW p, NEW q, NEW ms, NEW sub, NEW b \in Node, NEW n \in Nat,
         NEW s \in Seqno, MapsOK, Len(sub) \in Nat, NodeOK(q, hosts[a], ms, sub),
         Learn(b, n, s) \in ms, OnLearn(a, q, b, n, s), Keeps(p, q), p.cseq = q.cseq
  PROVE  GrowOK(a, p)
<1> DEFINE g == GetSlot(q, s)
           r == [g EXCEPT !.slots[s] = AddLearn(@, b, n)]
<1>1. NodeOK(g, hosts[a], ms, sub) /\ g.slots = q.slots /\ g \in PaxosState
  BY GetSlotOK
<1>2. g.cseq = q.cseq /\ g.keys = q.keys \cup {s} /\ Keeps(p, g)
  BY <1>1 DEF GetSlot, NodeOK, PaxosState, Keeps, Ready
<1>3. CASE CountsLearn(g.slots[s], b, n)
  <2>1. NodeOK(r, hosts[a], ms, sub)
    BY <1>1, <1>3, AddLearnOK
  <2>2. ~Learned(g.slots[s])
    BY <1>3 DEF CountsLearn
  <2>3. /\ r.keys = g.keys /\ r.cseq = g.cseq
        /\ \A t \in Seqno \ {s} : r.slots[t] = g.slots[t]
    BY <1>1 DEF PaxosState
  <2>4. Keeps(p, r)
    BY <1>2, <2>2, <2>3 DEF Keeps, Ready
  <2>5. ProcessQueue(a, r, n)
    BY <1>3 DEF OnLearn
  <2> HIDE DEF r, g
  <2> QED BY <1>2, <2>1, <2>3, <2>4, <2>5, ProcessQueueGrows
<1>4. CASE ~CountsLearn(g.slots[s], b, n)
  BY <1>2, <1>4, SetStateGrows DEF OnLearn
<1> QED BY <1>3, <1>4

LEMMA OnAcceptGrows ==
  ASSUME NEW a \in Node, NEW p, NEW sub, NEW sent, NEW n \in Nat, NEW s \in Seqno,
         NEW v \in Packet, MapsOK, Len(sub) \in Nat, NodeOK(p, hosts[a], msgs, sub),
         s < Len(sub), v = sub[s + 1], OnAccept(a, p, n, s, v, sent)
  PROVE  GrowOK(a, p)
<1> DEFINE g == GetSlot(p, s)
           q == Store(p, n, s, v)
<1>1. g.slots = p.slots /\ g \in PaxosState /\ p \in PaxosState
  BY GetSlotOK DEF NodeOK
<1>2. g.cseq = p.cseq /\ g.keys = p.keys \cup {s} /\ Keeps(p, g)
  BY <1>1 DEF GetSlot, PaxosState, Keeps, Ready
<1>3. CASE Accepts(p, n, s)
  <2>1. Learn(a, n, s) \in msgs' /\ OnLearn(a, q, a, n, s) /\ msgs \subseteq msgs'
    BY <1>3 DEF OnAccept
  <2>2. NodeOK(q, hosts[a], msgs', sub)
    BY <2>1, NodeOKGrows, StoreOK
  <2>3. /\ q.keys = p.keys \cup {s} /\ q.cseq = p.cseq
        /\ \A t \in Seqno : q.slots[t].learns = p.slots[t].learns
    BY <1>1, StoreShape
  <2>4. Keeps(p, q)
    BY <2>3 DEF Keeps, Ready, Learned
  <2> HIDE DEF g, q
  <2> QED BY <1>2, <2>1, <2>2, <2>3, <2>4, OnLearnGrows
<1>4. CASE ~Accepts(p, n, s)
  BY <1>2, <1>4, SetStateGrows DEF OnAccept
<1> QED BY <1>3, <1>4

LEMMA EvictKeeps ==
  ASSUME NEW p \in PaxosState, ProcessedOK(p)
  PROVE  Keeps(p, Evict(p))
  BY MaxSeqnoAssumption DEF Keeps, Ready, Evict, ProcessedOK, PaxosState

\* Every step is a step of one controller that keeps its learned slots.
LEMMA NextGrows ==
  ASSUME IInv, [Next]_vars
  PROVE  \E a \in Node : GrowOK(a, state[a])
<1>0. /\ OthersOK /\ MapsOK /\ Leader \in Node /\ Len(submitted) \in Nat
      /\ \A a \in Node : /\ NodeOK(state[a], hosts[a], msgs, submitted)
                         /\ state[a] \in PaxosState
                         /\ state[a].crnd \in Nat
                         /\ Keeps(state[a], state[a])
  BY IInvParts, NodeAssumption DEF OthersOK, NodeOK, PaxosState, Keeps
<1>1. ASSUME NEW a \in Node, UNCHANGED <<state, hosts>> PROVE GrowOK(a, state[a])
  <2>1. SetState(a, state[a])
    BY <1>0, <1>1 DEF SetState, MapsOK
  <2> QED BY <1>0, <2>1, SetStateGrows
<1>2. CASE UNCHANGED <<state, hosts>>
  BY <1>0, <1>1, <1>2
<1>3. CASE PickNext
  <2> DEFINE p == state[Leader]
             q == [p EXCEPT !.crnd = @ + Cardinality(Node)]
  <2>1. SetState(Leader, q)
    BY <1>0, <1>3 DEF PickNext, SetState, MapsOK, PaxosState
  <2>2. Keeps(p, q)
    BY <1>0 DEF Keeps, Ready, PaxosState
  <2> QED BY <1>0, <2>1, <2>2, SetStateGrows
<1>4. ASSUME NEW v \in Packet, OnClient(v) PROVE GrowOK(Leader, state[Leader])
  <2> DEFINE p == state[Leader]
             s == seqno + 1
  <2>1. OnAccept(Leader, p, p.crnd, s, v, {Accept(p.crnd, s, v)}) /\ s \in Seqno
    BY <1>4 DEF OnClient, NextSeqno
  <2>2. /\ Len(submitted') \in Nat /\ Len(submitted) <= Len(submitted')
        /\ s < Len(submitted') /\ v = submitted'[s + 1]
        /\ \A i \in 1..Len(submitted) : submitted'[i] = submitted[i]
    BY <1>0, <1>4, MaxSeqnoAssumption DEF OnClient, NextSeqno, OthersOK
  <2>3. NodeOK(p, hosts[Leader], msgs, submitted')
    BY <1>0, <2>2, NodeOKGrows
  <2> HIDE DEF p, s
  <2>4. p.crnd \in Nat
    BY <1>0 DEF p
  <2>5. GrowOK(Leader, p)
    BY <1>0, <2>1, <2>2, <2>3, <2>4, OnAcceptGrows
  <2> QED BY <2>5 DEF p
<1>5. ASSUME NEW a \in Node, NEW m \in msgs, ReceiveAccept(a, m) PROVE GrowOK(a, state[a])
  <2>1. m.type = "ACCEPT" /\ m.n \in Nat /\ m.seqno \in Seqno /\ m.v \in Packet
    BY <1>0, <1>5, MsgTypes DEF ReceiveAccept
  <2>2. m.seqno < Len(submitted) /\ m.v = submitted[m.seqno + 1]
    BY <1>0, <2>1 DEF OthersOK, FramesOK
  <2>3. OnAccept(a, state[a], m.n, m.seqno, m.v, {})
    BY <1>5 DEF ReceiveAccept
  <2> QED BY <1>0, <2>1, <2>2, <2>3, OnAcceptGrows
<1>6. ASSUME NEW a \in Node, NEW m \in msgs, ReceiveLearn(a, m) PROVE GrowOK(a, state[a])
  <2>1. /\ m.n \in Nat /\ m.seqno \in Seqno /\ m.src \in Node
        /\ Learn(m.src, m.n, m.seqno) \in msgs
    BY <1>0, <1>6, MsgTypes DEF ReceiveLearn
  <2>2. OnLearn(a, state[a], m.src, m.n, m.seqno)
    BY <1>6 DEF ReceiveLearn
  <2> QED BY <1>0, <2>1, <2>2, OnLearnGrows
<1>7. ASSUME NEW a \in Node, Pump(a) PROVE GrowOK(a, state[a])
  BY <1>0, <1>7, ProcessQueueGrows DEF Pump
<1>8. ASSUME NEW a \in Node, GarbageCollect(a) PROVE GrowOK(a, state[a])
  <2>1. Keeps(state[a], Evict(state[a]))
    BY <1>0, EvictKeeps DEF NodeOK
  <2> QED BY <1>0, <1>8, <2>1, SetStateGrows DEF GarbageCollect
<1>9. CASE MakeLeader \/ UNCHANGED vars \/ \E a \in Node : Join(a) \/ StartPump(a) \/ HostsChange(a)
  BY <1>2, <1>9 DEF MakeLeader, vars, Join, StartPump, HostsChange
<1> QED BY <1>0, <1>3, <1>4, <1>5, <1>6, <1>7, <1>8, <1>9 DEF Next

\* A slot that was learned and not forwarded stays until it is forwarded.
THEOREM KeptUntilForwarded == Spec => LearnedKept
<1>1. ASSUME IInv, [Next]_vars
      PROVE  [\A a \in Node : \A s \in Seqno :
                Ready(state[a], s) /\ state'[a].cseq <= s => Ready(state'[a], s)]_vars
  <2>1. PICK a \in Node : GrowOK(a, state[a])
    BY <1>1, NextGrows
  <2>2. ASSUME NEW b \in Node, NEW s \in Seqno, Ready(state[b], s), state'[b].cseq <= s
        PROVE  Ready(state'[b], s)
    BY <2>1, <2>2 DEF GrowOK, Keeps
  <2> QED BY <2>2
<1> QED BY <1>1, Invariance, PTL DEF Spec, LearnedKept

-----------------------------------------------------------------------------
(* PaxosController implements PacketOrder *)

\* The packets of a sequence of frames.
Packets(h) == [i \in 1..Len(h) |-> h[i].v]

PacketOrNone == Packet \cup {NoPacket}

LEMMA PacketsSeq ==
  ASSUME NEW h \in FrameSeq
  PROVE  /\ Packets(h) \in Seq(PacketOrNone)
         /\ Packets(h) \in [1..Len(h) -> PacketOrNone]
         /\ Len(Packets(h)) = Len(h)
         /\ \A i \in 1..Len(h) : Packets(h)[i] = h[i].v
<1> DEFINE R == [seqno: Seqno, v: PacketOrNone]
           k == Len(h)
           g == Packets(h)
<1>1. h \in Seq(R) /\ k \in Nat
  BY LenProperties DEF FrameSeq, PacketOrNone
<1>2. \A i \in 1..k : h[i] \in R
  BY <1>1, ElementOfSeq
<1>3. \A i \in 1..k : h[i].v \in PacketOrNone
  BY <1>2
<1>4. g \in [1..k -> PacketOrNone] /\ \A i \in 1..k : g[i] = h[i].v
  BY <1>3 DEF Packets
<1> HIDE DEF g, k
<1>5. g \in Seq(PacketOrNone) /\ Len(g) = k
  BY <1>1, <1>4
<1> QED BY <1>4, <1>5 DEF g, k

LEMMA PacketsConcat ==
  ASSUME NEW g \in FrameSeq, NEW f \in FrameSeq
  PROVE  Packets(g \o f) = Packets(g) \o Packets(f)
<1> DEFINE R == [seqno: Seqno, v: PacketOrNone]
           h == g \o f
           l == Packets(h)
           r == Packets(g) \o Packets(f)
<1>1. FrameSeq = Seq(R)
  BY DEF FrameSeq, PacketOrNone
<1>2. Len(g) \in Nat /\ Len(f) \in Nat
  BY <1>1, LenProperties
<1> HIDE DEF R
<1>3. /\ h \in FrameSeq /\ Len(h) = Len(g) + Len(f)
      /\ \A i \in 1..Len(g) + Len(f) : h[i] = IF i <= Len(g) THEN g[i] ELSE f[i - Len(g)]
  BY <1>1, ConcatProperties
<1>4. /\ l \in Seq(PacketOrNone) /\ Len(l) = Len(g) + Len(f)
      /\ \A i \in 1..Len(g) + Len(f) : l[i] = h[i].v
  <2> HIDE DEF h
  <2> QED BY <1>3, PacketsSeq
<1>5. /\ r \in Seq(PacketOrNone) /\ Len(r) = Len(g) + Len(f)
      /\ \A i \in 1..Len(g) + Len(f) :
           r[i] = IF i <= Len(g) THEN Packets(g)[i] ELSE Packets(f)[i - Len(g)]
  <2> DEFINE pg == Packets(g)
             pf == Packets(f)
  <2>1. pg \in Seq(PacketOrNone) /\ pf \in Seq(PacketOrNone)
    BY PacketsSeq
  <2>2. Len(pg) = Len(g) /\ Len(pf) = Len(f)
    BY PacketsSeq
  <2>3. r = pg \o pf
    OBVIOUS
  <2> HIDE DEF pg, pf, r
  <2>4. /\ r \in Seq(PacketOrNone) /\ Len(r) = Len(pg) + Len(pf)
        /\ \A i \in 1..Len(pg) + Len(pf) :
             r[i] = IF i <= Len(pg) THEN pg[i] ELSE pf[i - Len(pg)]
    BY <2>1, <2>3, ConcatProperties
  <2> QED BY <2>2, <2>4 DEF pg, pf
<1> HIDE DEF h, l, r
<1>6. ASSUME NEW i \in 1..Len(g) + Len(f) PROVE l[i] = r[i]
  <2>1. CASE i <= Len(g)
    <3>1. l[i] = g[i].v /\ r[i] = Packets(g)[i] /\ i \in 1..Len(g)
      BY <1>2, <1>3, <1>4, <1>5, <2>1
    <3> QED BY <3>1, PacketsSeq
  <2>2. CASE i > Len(g)
    <3> DEFINE j == i - Len(g)
    <3>1. j \in 1..Len(f)
      BY <1>2, <2>2
    <3>2. l[i] = f[j].v /\ r[i] = Packets(f)[j]
      BY <1>2, <1>3, <1>4, <1>5, <2>2
    <3> HIDE DEF j
    <3> QED BY <3>1, <3>2, PacketsSeq
  <2>3. i <= Len(g) \/ i > Len(g)
    BY <1>2
  <2> QED BY <2>1, <2>2, <2>3
<1>7. l = r
  BY <1>4, <1>5, <1>6, SeqEqual
<1> QED BY <1>7 DEF l, r, h

LEMMA InitOrder == Init => Order!Init
<1> SUFFICES ASSUME Init PROVE Order!Init
  OBVIOUS
<1>1. \A a \in Node : Packets(hosts[a]) = <<>>
  <2>1. Packets(<<>>) = <<>>
    BY DEF Packets
  <2> QED BY <2>1 DEF Init
<1>2. Sent = [a \in Node |-> <<>>]
  BY <1>1 DEF Sent, Packets
<1> QED BY <1>2 DEF Init, Order!Init

\* A place with a majority of LEARNs is that of a numbered packet.
LEMMA ChosenNumbered ==
  ASSUME NEW x \in Nat, NEW ms, NEW sub, Chosen(x - 1, ms), FramesOK(ms, sub),
         Len(sub) \in Nat
  PROVE  x <= Len(sub)
<1>1. PICK m \in ms, Q \in SUBSET Node :
        /\ 2 * Cardinality(Q) > Cardinality(Node)
        /\ \A b \in Q : Learn(b, m.n, x - 1) \in ms
  BY DEF Chosen
<1>2. Q # {}
  BY <1>1, NodeFacts, FS_EmptySet
<1>3. PICK b \in Q : Learn(b, m.n, x - 1) \in ms
  BY <1>1, <1>2
<1>4. x - 1 < Len(sub)
  BY <1>3 DEF FramesOK, Learn
<1> QED BY <1>4

LEMMA NextOrder ==
  ASSUME IInv, IInv', [Next]_vars
  PROVE  [Order!Next]_<<submitted, Sent>>
<1>1. PICK a \in Node : GrowOK(a, state[a])
  BY NextGrows
<1>2. PICK f \in FrameSeq : hosts' = [hosts EXCEPT ![a] = @ \o f]
  BY <1>1 DEF GrowOK
<1> DEFINE k == Len(f)
           new == Packets(f)
<1>3. hosts \in [Node -> FrameSeq] /\ hosts[a] \in FrameSeq /\ k \in Nat /\ Len(hosts[a]) \in Nat
  BY LenProperties DEF IInv, TypeOK, FrameSeq
<1>4. Sent' = [Sent EXCEPT ![a] = @ \o new]
  <2>1. Packets(hosts[a] \o f) = Packets(hosts[a]) \o new
    BY <1>3, PacketsConcat
  <2>2. \A b \in Node : Sent[b] = Packets(hosts[b]) /\ Sent'[b] = Packets(hosts'[b])
    BY DEF Sent, Packets
  <2>3. \A b \in Node : Sent'[b] = IF b = a THEN Sent[a] \o new ELSE Sent[b]
    <3> HIDE DEF new
    <3> QED BY <1>2, <1>3, <2>1, <2>2
  <2>4. Sent = [b \in Node |-> Sent[b]] /\ Sent' = [b \in Node |-> Sent'[b]]
    BY DEF Sent
  <2> HIDE DEF new
  <2> QED BY <2>3, <2>4
<1>5. new \in [1..k -> PacketOrNone] /\ \A i \in 1..k : new[i] = f[i].v
  BY PacketsSeq
<1>6. Len(Sent[a]) = Len(hosts[a])
  <2>1. Sent[a] = Packets(hosts[a])
    BY DEF Sent, Packets
  <2> QED BY <1>3, <2>1, PacketsSeq
<1>7. \A i \in 1..k :
        /\ Len(hosts[a]) + i <= Len(submitted')
        /\ f[i].v # NoPacket => f[i].v = submitted'[Len(hosts[a]) + i]
  <2> DEFINE h == hosts[a] \o f
             R == [seqno: Seqno, v: Packet \cup {NoPacket}]
  <2>1. hosts'[a] = h
    BY <1>2, <1>3
  <2>2. HostsOK(state'[a], h, msgs', submitted') /\ FramesOK(msgs', submitted')
    BY <2>1 DEF IInv, NodeOK
  <2>3. FrameSeq = Seq(R)
    BY DEF FrameSeq
  <2> HIDE DEF R
  <2>4. /\ Len(h) = Len(hosts[a]) + k
        /\ \A i \in 1..Len(hosts[a]) + k :
             h[i] = IF i <= Len(hosts[a]) THEN hosts[a][i] ELSE f[i - Len(hosts[a])]
    BY <1>3, <2>3, ConcatProperties
  <2> HIDE DEF h, k
  <2>5. ASSUME NEW i \in 1..k
        PROVE  /\ Len(hosts[a]) + i <= Len(submitted')
               /\ f[i].v # NoPacket => f[i].v = submitted'[Len(hosts[a]) + i]
    <3> DEFINE x == Len(hosts[a]) + i
    <3>1. x \in 1..Len(h) /\ ~(x <= Len(hosts[a])) /\ x - Len(hosts[a]) = i /\ x \in Nat
      BY <1>3, <2>4
    <3>2. h[x] = f[i]
      BY <2>4, <3>1
    <3> HIDE DEF x
    <3>3. EntryOK(h[x], x, msgs', submitted')
      BY <2>2, <3>1 DEF HostsOK
    <3>4. f[i].v # NoPacket => f[i].v = submitted'[x]
      BY <3>2, <3>3 DEF EntryOK
    <3>5. x <= Len(submitted')
      BY <2>2, <3>1, <3>3, ChosenNumbered DEF EntryOK, IInv, TypeOK
    <3> QED BY <3>4, <3>5 DEF x
  <2> QED BY <2>5
<1>8. submitted' = submitted \/ \E v \in Packet : submitted' = Append(submitted, v)
  BY DEF Next, vars, MakeLeader, PickNext, OnClient, Join, StartPump, ReceiveAccept,
         ReceiveLearn, Pump, GarbageCollect, HostsChange
<1>9. k \in 0..Len(submitted') /\ Len(hosts[a]) + k <= Len(submitted')
  <2>1. Len(submitted') \in Nat /\ Len(submitted) \in Nat
    BY LenProperties DEF IInv, TypeOK
  <2>2. CASE k = 0
    <3>1. Len(hosts[a]) <= Len(submitted)
      <4>1. CASE Len(hosts[a]) = 0
        BY <2>1, <4>1
      <4>2. CASE Len(hosts[a]) > 0
        <5> DEFINE x == Len(hosts[a])
        <5>1. EntryOK(hosts[a][x], x, msgs, submitted) /\ FramesOK(msgs, submitted)
          BY <1>3, <4>2 DEF IInv, NodeOK, HostsOK
        <5> QED BY <1>3, <5>1, ChosenNumbered DEF EntryOK, IInv, TypeOK
      <4> QED BY <1>3, <4>1, <4>2
    <3>2. Len(submitted) <= Len(submitted')
      <4>1. \A v \in Packet : Len(Append(submitted, v)) = Len(submitted) + 1
        BY DEF IInv, TypeOK
      <4> QED BY <1>8, <2>1, <4>1
    <3> QED BY <1>3, <2>1, <2>2, <3>1, <3>2
  <2>3. CASE k # 0
    BY <1>3, <1>7, <2>1, <2>3
  <2> QED BY <2>2, <2>3
<1> HIDE DEF k, new
<1>10. Order!Forward(a)
  BY <1>4, <1>5, <1>6, <1>7, <1>9 DEF Order!Forward, PacketOrNone
<1> QED BY <1>8, <1>10 DEF Order!Next, Order!Submit

\* The hosts' view is PacketOrder's, with empty frames in place of packets
\* that a switch forwards without having them.
THEOREM Refinement == Spec => ImplementsPacketOrder
<1>1. IInv /\ IInv' /\ [Next]_vars => [Order!Next]_<<submitted, Sent>>
  BY NextOrder
<1> QED BY <1>1, Invariance, InitOrder, PTL DEF Spec, ImplementsPacketOrder, Order!Spec

-----------------------------------------------------------------------------
(* Induction, and what Only selects *)

\* A set of natural numbers has a least one.
LEMMA LeastNatural ==
  ASSUME NEW T, T \subseteq Nat, T # {}
  PROVE  \E m \in T : \A k \in T : m <= k
<1>1. PICK n \in T : TRUE
  OBVIOUS
<1> DEFINE S == 0..n
           F == {0..k : k \in T \cap S}
<1>2. IsWellFoundedOn(StrictSubsetOrdering(S), SUBSET S)
  <2>1. IsFiniteSet(S)
    BY <1>1, FS_Interval
  <2> HIDE DEF S
  <2>2. FiniteSubsetsOf(S) = SUBSET S
    BY <2>1, FS_FiniteSubsetsOfFinite
  <2>3. IsWellFoundedOn(StrictSubsetOrdering(S), FiniteSubsetsOf(S))
    BY FS_StrictSubsetOrderingWellFounded
  <2> QED BY <2>2, <2>3
<1>3. F \subseteq SUBSET S /\ F # {}
  BY <1>1
<1>4. PICK x \in F : \A y \in F : ~ (<<y, x>> \in StrictSubsetOrdering(S))
  <2> HIDE DEF F, S
  <2> QED BY <1>2, <1>3, WFMin
<1>5. PICK m \in T \cap S : x = 0..m
  BY <1>4
<1>6. ASSUME NEW k \in T, k < m PROVE FALSE
  <2>1. k \in Nat /\ m \in Nat /\ k \in S /\ 0..k \in F
    BY <1>1, <1>5, <1>6
  <2>2. 0..k \subseteq 0..m /\ m \in 0..m /\ m \notin 0..k
    BY <1>6, <2>1
  <2>3. <<0..k, 0..m>> \in StrictSubsetOrdering(S)
    <3>1. 0..k \in SUBSET S /\ 0..m \in SUBSET S
      BY <1>3, <1>5, <2>1
    <3> QED BY <2>2, <3>1 DEF StrictSubsetOrdering
  <2> QED BY <1>4, <1>5, <2>1, <2>3
<1> QED BY <1>5, <1>6

\* What holds of 0, and of n + 1 when of n, holds of all natural numbers.
LEMMA Induction ==
  ASSUME NEW I, 0 \in I, \A n \in Nat : n \in I => n + 1 \in I
  PROVE  Nat \subseteq I
<1> SUFFICES ASSUME Nat \ I # {} PROVE FALSE
  OBVIOUS
<1>1. PICK m \in Nat \ I : \A k \in Nat \ I : m <= k
  BY LeastNatural
<1>2. m # 0 /\ m - 1 \in Nat
  BY <1>1
<1>3. m - 1 \in I /\ (m - 1) + 1 = m
  BY <1>1, <1>2
<1> QED BY <1>1, <1>2, <1>3

\* f is the recursive function in Only, up to n.
Selects(f, s, T, n) ==
  f = [i \in 0..n |-> IF i = 0 THEN <<>>
                      ELSE IF s[i] \in T THEN Append(f[i - 1], s[i]) ELSE f[i - 1]]

LEMMA SelectsExists ==
  ASSUME NEW s, NEW T, NEW n \in Nat
  PROVE  \E f : Selects(f, s, T, n)
<1> DEFINE I == {k \in Nat : \E f : Selects(f, s, T, k)}
<1>1. 0 \in I
  <2>1. Selects([i \in 0..0 |-> <<>>], s, T, 0)
    BY DEF Selects
  <2> QED BY <2>1
<1>2. ASSUME NEW k \in Nat, k \in I PROVE k + 1 \in I
  <2>1. PICK f : Selects(f, s, T, k)
    BY <1>2
  <2> DEFINE g == [i \in 0..k + 1 |->
                     IF i = k + 1
                     THEN IF s[k + 1] \in T THEN Append(f[k], s[k + 1]) ELSE f[k]
                     ELSE f[i]]
  <2>2. ASSUME NEW i \in 0..k + 1
        PROVE  g[i] = IF i = 0 THEN <<>>
                      ELSE IF s[i] \in T THEN Append(g[i - 1], s[i]) ELSE g[i - 1]
    <3>1. CASE i = k + 1
      BY <1>2, <3>1
    <3>2. CASE i # k + 1
      <4>1. i \in 0..k /\ g[i] = f[i] /\ (i # 0 => i - 1 \in 0..k /\ g[i - 1] = f[i - 1])
        BY <1>2, <3>2
      <4> QED BY <2>1, <4>1 DEF Selects
    <3> QED BY <3>1, <3>2
  <2>3. g = [i \in 0..k + 1 |-> g[i]]
    OBVIOUS
  <2> HIDE DEF g
  <2>4. Selects(g, s, T, k + 1)
    BY <2>2, <2>3 DEF Selects
  <2> QED BY <2>4
<1> HIDE DEF I
<1>3. n \in I
  BY <1>1, <1>2, Induction
<1> QED BY <1>3 DEF I

\* g says where the elements of r stand in s[1], ..., s[n]: all those in T, in order.
Picks(g, r, s, T, n) ==
  /\ g \in [1..Len(r) -> 1..n]
  /\ \A i, j \in 1..Len(r) : i < j => g[i] < g[j]
  /\ \A j \in 1..Len(r) : r[j] = s[g[j]]
  /\ \A k \in 1..n : s[k] \in T => \E j \in 1..Len(r) : g[j] = k

LEMMA PicksNext ==
  ASSUME NEW S, NEW s \in Seq(S), NEW T, NEW n \in Nat, n + 1 <= Len(s),
         NEW r \in Seq(S \cap T), NEW g, Picks(g, r, s, T, n)
  PROVE  /\ s[n + 1] \in T =>
              /\ Append(r, s[n + 1]) \in Seq(S \cap T)
              /\ \E h : Picks(h, Append(r, s[n + 1]), s, T, n + 1)
         /\ s[n + 1] \notin T => Picks(g, r, s, T, n + 1)
<1>1. s[n + 1] \in S
  BY LenProperties, ElementOfSeq
<1>2. Len(r) \in Nat
  BY LenProperties
<1>3. ASSUME s[n + 1] \notin T PROVE Picks(g, r, s, T, n + 1)
  BY <1>2, <1>3 DEF Picks
<1>4. ASSUME s[n + 1] \in T
      PROVE  /\ Append(r, s[n + 1]) \in Seq(S \cap T)
             /\ \E h : Picks(h, Append(r, s[n + 1]), s, T, n + 1)
  <2> DEFINE q == Append(r, s[n + 1])
             l == Len(r) + 1
             h == [j \in 1..l |-> IF j = l THEN n + 1 ELSE g[j]]
  <2>1. /\ q \in Seq(S \cap T) /\ Len(q) = l
        /\ \A i \in 1..Len(r) : q[i] = r[i]
        /\ q[l] = s[n + 1]
    BY <1>1, <1>4, AppendProperties
  <2> HIDE DEF q
  <2>2. Picks(h, q, s, T, n + 1)
    <3>0. l \in Nat /\ l \in 1..l /\ \A i \in 1..l : i = l \/ i \in 1..Len(r)
      BY <1>2
    <3>1. \A i \in 1..Len(r) : i \in 1..l /\ i < l /\ h[i] = g[i] /\ g[i] \in 1..n
      BY <1>2 DEF Picks
    <3>2. h[l] = n + 1
      BY <3>0
    <3>3. h \in [1..l -> 1..n + 1]
      <4>1. h = [j \in 1..l |-> h[j]]
        OBVIOUS
      <4> HIDE DEF h, l
      <4>2. ASSUME NEW i \in 1..l PROVE h[i] \in 1..n + 1
        <5>1. CASE i = l
          BY <3>2, <5>1
        <5>2. CASE i \in 1..Len(r)
          <6>1. h[i] \in 1..n
            BY <3>1, <5>2
          <6> QED BY <6>1
        <5> QED BY <3>0, <5>1, <5>2
      <4> QED BY <4>1, <4>2
    <3> HIDE DEF h, l
    <3>4. \A i, j \in 1..l : i < j => h[i] < h[j]
      <4> SUFFICES ASSUME NEW i \in 1..l, NEW j \in 1..l, i < j PROVE h[i] < h[j]
        OBVIOUS
      <4>1. i \in 1..Len(r)
        BY <3>0, <3>1
      <4>2. CASE j = l
        BY <3>1, <3>2, <4>1, <4>2
      <4>3. CASE j \in 1..Len(r)
        BY <3>1, <4>1, <4>3 DEF Picks
      <4> QED BY <3>0, <4>2, <4>3
    <3>5. \A j \in 1..l : q[j] = s[h[j]]
      BY <2>1, <3>0, <3>1, <3>2 DEF Picks, l
    <3>6. ASSUME NEW k \in 1..n + 1, s[k] \in T PROVE \E j \in 1..l : h[j] = k
      <4>1. CASE k = n + 1
        BY <3>0, <3>2, <4>1
      <4>2. CASE k # n + 1
        <5>1. PICK j \in 1..Len(r) : g[j] = k
          BY <3>6, <4>2 DEF Picks
        <5> QED BY <3>1, <5>1
      <4> QED BY <4>1, <4>2
    <3> QED BY <2>1, <3>3, <3>4, <3>5, <3>6 DEF Picks
  <2> QED BY <2>1, <2>2 DEF q
<1> QED BY <1>3, <1>4

\* Only keeps the elements of T, all of them, and their order.
LEMMA OnlyFacts ==
  ASSUME NEW S, NEW s \in Seq(S), NEW T
  PROVE  /\ Only(s, T) \in Seq(S \cap T)
         /\ \E g : Picks(g, Only(s, T), s, T, Len(s))
<1> DEFINE n == Len(s)
           f == CHOOSE f : Selects(f, s, T, n)
           I == {k \in Nat : k <= n => /\ f[k] \in Seq(S \cap T)
                                       /\ \E g : Picks(g, f[k], s, T, k)}
<1>1. n \in Nat
  BY LenProperties
<1>2. Selects(f, s, T, n)
  BY <1>1, SelectsExists
<1>3. Only(s, T) = f[n]
  BY DEF Only, Selects
<1> HIDE DEF f
<1>4. 0 \in I
  <2>1. f[0] = <<>>
    BY <1>1, <1>2 DEF Selects
  <2>2. <<>> \in Seq(S \cap T) /\ Len(<<>>) = 0
    BY EmptySeq
  <2>3. Picks([j \in 1..0 |-> 0], <<>>, s, T, 0)
    BY <2>2 DEF Picks
  <2> QED BY <2>1, <2>2, <2>3
<1>5. ASSUME NEW k \in Nat, k \in I PROVE k + 1 \in I
  <2> SUFFICES ASSUME k + 1 <= n
               PROVE  /\ f[k + 1] \in Seq(S \cap T)
                      /\ \E g : Picks(g, f[k + 1], s, T, k + 1)
    OBVIOUS
  <2>1. f[k + 1] = IF s[k + 1] \in T THEN Append(f[k], s[k + 1]) ELSE f[k]
    <3>1. k + 1 \in 0..n /\ k + 1 # 0 /\ (k + 1) - 1 = k
      BY <1>1
    <3> QED BY <1>2, <3>1 DEF Selects
  <2>2. f[k] \in Seq(S \cap T)
    BY <1>1, <1>5
  <2>3. PICK g : Picks(g, f[k], s, T, k)
    BY <1>1, <1>5
  <2>4. CASE s[k + 1] \in T
    <3>1. f[k + 1] = Append(f[k], s[k + 1])
      BY <2>1, <2>4
    <3>2. Append(f[k], s[k + 1]) \in Seq(S \cap T) /\ \E h : Picks(h, Append(f[k], s[k + 1]), s, T, k + 1)
      BY <2>2, <2>3, <2>4, PicksNext
    <3> QED BY <3>1, <3>2
  <2>5. CASE s[k + 1] \notin T
    BY <2>1, <2>2, <2>3, <2>5, PicksNext
  <2> QED BY <2>4, <2>5
<1> HIDE DEF I
<1>6. n \in I
  BY <1>1, <1>4, <1>5, Induction
<1> QED BY <1>1, <1>3, <1>6 DEF I

-----------------------------------------------------------------------------
(* The chain: no switch forwards a packet that it does not have *)

\* The round in which the leader sends its ACCEPTs, once all have started.
FirstRound == NodeId[Leader] + Cardinality(Node)

\* Clients wait for the switches to start, and the leader's round is not refused.
Orderly == EarlyClients = FALSE /\ \A a \in Node : NodeId[a] <= FirstRound

\* A majority is more than all nodes but two.
Few == Cardinality(Node) <= 4

\* Of the first n packets node a, whose state is p, has those that it has not
\* forwarded and whose ACCEPTs are not in U; for one that it does not have, it
\* has no vote of its own or of the leader.
ToldOK(a, p, U, n) ==
  /\ p.crnd <= FirstRound
  /\ \A s \in Seqno :
       /\ p.slots[s].vrnd # 0 => p.slots[s].vval # NoPacket
       /\ p.cseq <= s /\ p.slots[s].vval = NoPacket =>
            /\ s < n => s \in U
            /\ p.slots[s].learns \subseteq Node \ {a, Leader}

\* All of these frames have packets.
Full(h) == \A i \in 1..Len(h) : h[i].v # NoPacket

LEMMA RoundFacts == FirstRound \in Nat /\ FirstRound > 0 /\ NodeId[Leader] \in Nat /\ NodeId[Leader] > 0
  BY NodeFacts, NodeAssumption, NodeIdAssumption DEF FirstRound

LEMMA GetSlotTold ==
  ASSUME NEW a, NEW p \in PaxosState, NEW U, NEW n, NEW s \in Seqno, ToldOK(a, p, U, n)
  PROVE  ToldOK(a, GetSlot(p, s), U, n)
  BY DEF ToldOK, GetSlot, PaxosState

LEMMA AddLearnTold ==
  ASSUME NEW a, NEW p \in PaxosState, NEW U, NEW n, NEW s \in Seqno, NEW b \in Node,
         NEW r \in Nat, ToldOK(a, p, U, n),
         b \in {a, Leader} => p.slots[s].vval # NoPacket \/ s < p.cseq
  PROVE  ToldOK(a, [p EXCEPT !.slots[s] = AddLearn(@, b, r)], U, n)
<1> DEFINE sl == AddLearn(p.slots[s], b, r)
           q == [p EXCEPT !.slots[s] = sl]
<1>1. p.slots[s] \in Slot
  BY DEF PaxosState
<1>2. /\ sl.vval = p.slots[s].vval /\ sl.vrnd = p.slots[s].vrnd
      /\ sl.learns \subseteq p.slots[s].learns \cup {b}
  BY <1>1 DEF AddLearn, Slot
<1> HIDE DEF sl
<1>3. /\ q.crnd = p.crnd /\ q.cseq = p.cseq
      /\ \A t \in Seqno : q.slots[t] = IF t = s THEN sl ELSE p.slots[t]
  BY DEF PaxosState
<1> HIDE DEF q
<1>4. p.cseq <= s => (b \in {a, Leader} => p.slots[s].vval # NoPacket)
  BY MaxSeqnoAssumption DEF PaxosState
<1>5. ToldOK(a, q, U, n)
  <2> SUFFICES ASSUME NEW t \in Seqno
               PROVE  /\ q.slots[t].vrnd # 0 => q.slots[t].vval # NoPacket
                      /\ q.cseq <= t /\ q.slots[t].vval = NoPacket =>
                           /\ t < n => t \in U
                           /\ q.slots[t].learns \subseteq Node \ {a, Leader}
    BY <1>3 DEF ToldOK
  <2>1. CASE t = s /\ p.cseq <= s
    BY <1>2, <1>3, <1>4, <2>1 DEF ToldOK
  <2>2. CASE t = s /\ ~(p.cseq <= s)
    BY <1>2, <1>3, <2>2 DEF ToldOK
  <2>3. CASE t # s
    BY <1>3, <2>3 DEF ToldOK
  <2> QED BY <2>1, <2>2, <2>3
<1> QED BY <1>5 DEF q, sl

\* With the packet numbered s stored, other ACCEPTs may be under way.
LEMMA StoreTold ==
  ASSUME NEW a, NEW p \in PaxosState, NEW U, NEW V, NEW n, NEW k, NEW s \in Seqno,
         NEW v \in Packet, NEW r \in Nat, r <= FirstRound, ToldOK(a, p, U, n),
         \A t \in Seqno \ {s} : t < k /\ (t < n => t \in U) => t \in V
  PROVE  /\ ToldOK(a, Store(p, r, s, v), V, k)
         /\ Store(p, r, s, v).slots[s].vval # NoPacket
<1> DEFINE g == GetSlot(p, s)
           q == Store(p, r, s, v)
           sl == [g.slots[s] EXCEPT !.vrnd = r, !.vval = v]
<1>1. g \in PaxosState /\ g.slots = p.slots /\ g.cseq = p.cseq
  BY DEF GetSlot, PaxosState
<1>2. g.slots[s] \in Slot
  BY <1>1 DEF PaxosState
<1>3. sl.vval # NoPacket
  BY <1>2, PacketAssumption DEF Slot
<1>4. q = [g EXCEPT !.crnd = r, !.slots = [g.slots EXCEPT ![s] = sl]]
  <2>1. q = [g EXCEPT !.crnd = r, !.slots[s].vrnd = r, !.slots[s].vval = v]
    BY DEF Store
  <2> HIDE DEF g, q
  <2> QED BY <1>1, <1>2, <2>1 DEF PaxosState, Slot
<1> HIDE DEF g, q, sl
<1>5. /\ q.crnd = r /\ q.cseq = p.cseq
      /\ \A t \in Seqno : q.slots[t] = IF t = s THEN sl ELSE p.slots[t]
  BY <1>1, <1>4 DEF PaxosState
<1>6. ToldOK(a, q, V, k)
  <2> SUFFICES ASSUME NEW t \in Seqno
               PROVE  /\ q.slots[t].vrnd # 0 => q.slots[t].vval # NoPacket
                      /\ q.cseq <= t /\ q.slots[t].vval = NoPacket =>
                           /\ t < k => t \in V
                           /\ q.slots[t].learns \subseteq Node \ {a, Leader}
    BY <1>5 DEF ToldOK
  <2>1. CASE t = s
    BY <1>3, <1>5, <2>1
  <2>2. CASE t # s
    BY <1>5, <2>2 DEF ToldOK
  <2> QED BY <2>1, <2>2
<1> QED BY <1>3, <1>5, <1>6 DEF q

\* Nothing is missing that was not, and what is numbered is under way.
LEMMA ToldGrows ==
  ASSUME NEW a, NEW p, NEW U, NEW V, NEW n, NEW k, ToldOK(a, p, U, n),
         \A t \in Seqno : p.slots[t].vval = NoPacket /\ t < k /\ (t < n => t \in U) => t \in V
  PROVE  ToldOK(a, p, V, k)
  BY DEF ToldOK

LEMMA EvictTold ==
  ASSUME NEW a, NEW p \in PaxosState, NEW U, NEW n, ProcessedOK(p), ToldOK(a, p, U, n)
  PROVE  ToldOK(a, Evict(p), U, n)
<1> DEFINE q == Evict(p)
<1>1. /\ q.crnd = p.crnd /\ q.cseq = p.cseq /\ p.cseq \in Nat
      /\ \A t \in Seqno : q.slots[t] = IF <<p.crnd, t>> \in p.processed THEN NewSlot ELSE p.slots[t]
  BY MaxSeqnoAssumption DEF Evict, PaxosState
<1>2. NewSlot.vrnd = 0
  BY DEF NewSlot
<1> HIDE DEF q
<1>3. ASSUME NEW t \in Seqno, <<p.crnd, t>> \in p.processed PROVE ~(p.cseq <= t)
  BY <1>1, <1>3, MaxSeqnoAssumption DEF ProcessedOK
<1>4. ToldOK(a, q, U, n)
  BY <1>1, <1>2, <1>3 DEF ToldOK
<1> QED BY <1>4 DEF q

\* What a majority has voted for, the node has.
LEMMA ReadyHasPacket ==
  ASSUME Few, NEW a \in Node, NEW p \in PaxosState, NEW U, NEW n, NEW s \in Seqno,
         ToldOK(a, p, U, n), p.cseq <= s, Learned(p.slots[s]),
         a = Leader => U = {}, p.slots[s].learns # {} => s < n
  PROVE  p.slots[s].vval # NoPacket
<1> SUFFICES ASSUME p.slots[s].vval = NoPacket PROVE FALSE
  OBVIOUS
<1> DEFINE Q == p.slots[s].learns
<1>1. Q \subseteq Node \ {a, Leader} /\ (s < n => s \in U)
  BY DEF ToldOK
<1>2. Cardinality(Q) >= 1 + (Cardinality(Node) \div 2) /\ Cardinality(Q) \in Nat
  BY <1>1, NodeFacts DEF Learned
<1>3. Q # {}
  BY <1>2, NodeFacts, FS_EmptySet
<1>4. a # Leader
  BY <1>1, <1>3
<1>5. Cardinality(Node \ {a, Leader}) = Cardinality(Node) - 2
  <2>1. IsFiniteSet(Node) /\ IsFiniteSet(Node \ {a})
    BY NodeAssumption, FS_RemoveElement
  <2>2. Cardinality(Node \ {a}) = Cardinality(Node) - 1
    BY <2>1, FS_RemoveElement
  <2>3. Cardinality((Node \ {a}) \ {Leader}) = Cardinality(Node \ {a}) - 1
    <3>1. Leader \in Node \ {a}
      BY <1>4, NodeAssumption
    <3> QED BY <2>1, <3>1, FS_RemoveElement
  <2>4. Cardinality((Node \ {a}) \ {Leader}) = Cardinality(Node) - 2
    <3>1. Cardinality(Node) \in Nat
      BY NodeFacts
    <3> QED BY <2>2, <2>3, <3>1
  <2>5. (Node \ {a}) \ {Leader} = Node \ {a, Leader}
    OBVIOUS
  <2> QED BY <2>4, <2>5
<1>6. Cardinality(Q) <= Cardinality(Node \ {a, Leader})
  <2>1. IsFiniteSet(Node \ {a, Leader})
    BY NodeFacts
  <2> QED BY <1>1, <2>1, FS_Subset
<1> QED BY <1>2, <1>5, <1>6, NodeFacts DEF Few

\* What a step of controller a must establish.
StepTold(a, U, n) == ToldOK(a, state'[a], U, n) /\ Full(hosts'[a])

LEMMA SetStateTold ==
  ASSUME NEW a \in Node, NEW p, NEW U, NEW n, MapsOK, ToldOK(a, p, U, n), Full(hosts[a]),
         SetState(a, p)
  PROVE  StepTold(a, U, n)
  BY DEF MapsOK, SetState, StepTold

LEMMA ProcessQueueTold ==
  ASSUME Few, NEW a \in Node, NEW p, NEW r \in Nat, NEW ms, NEW sub, NEW U, MapsOK,
         Len(sub) \in Nat, NodeOK(p, hosts[a], ms, sub), FramesOK(ms, sub),
         ToldOK(a, p, U, Len(sub)), a = Leader => U = {}, Full(hosts[a]),
         ProcessQueue(a, p, r)
  PROVE  StepTold(a, U, Len(sub))
<1> DEFINE n == Len(sub)
<1>1. PICK k \in 0..MaxSeqno + 1 :
        /\ QueueEnd(a, p, k)
        /\ state' = [state EXCEPT ![a] =
                       [p EXCEPT !.cseq = k,
                                 !.processed = @ \cup {<<r, s>> : s \in p.cseq..k - 1}]]
        /\ hosts' = [hosts EXCEPT ![a] = @ \o Forwarded(p, k)]
  BY DEF ProcessQueue
<1>2. p \in PaxosState /\ hosts[a] \in FrameSeq /\ p.cseq \in Nat /\ k \in Nat
  BY MaxSeqnoAssumption DEF NodeOK, MapsOK, PaxosState
<1>3. k >= p.cseq /\ \A s \in p.cseq..k - 1 : Ready(p, s)
  BY <1>1 DEF QueueEnd
<1>4. ToldOK(a, state'[a], U, n)
  <2>1. /\ state'[a].crnd = p.crnd /\ state'[a].cseq = k /\ state'[a].slots = p.slots
    BY <1>1, <1>2 DEF MapsOK, PaxosState
  <2> QED BY <1>2, <1>3, <2>1, MaxSeqnoAssumption DEF ToldOK
<1>5. ASSUME NEW s \in Seqno, p.cseq <= s, s < k PROVE p.slots[s].vval # NoPacket
  <2>1. Learned(p.slots[s])
    BY <1>2, <1>3, <1>5, MaxSeqnoAssumption DEF Ready
  <2>2. p.slots[s].learns # {} => s < n
    BY DEF NodeOK, LearnsOK, FramesOK, Learn
  <2> QED BY <1>2, <1>5, <2>1, <2>2, ReadyHasPacket
<1>6. Full(hosts'[a])
  <2> DEFINE f == Forwarded(p, k)
             g == hosts[a]
             R == [seqno: Seqno, v: Packet \cup {NoPacket}]
  <2>1. f \in FrameSeq /\ Len(f) = k - p.cseq
    BY <1>2, <1>3, ForwardedOK DEF NodeOK
  <2>2. \A i \in 1..k - p.cseq : f[i].v # NoPacket
    <3> SUFFICES ASSUME NEW i \in 1..k - p.cseq PROVE f[i].v # NoPacket
      OBVIOUS
    <3>1. p.cseq + i - 1 \in Seqno /\ p.cseq <= p.cseq + i - 1 /\ p.cseq + i - 1 < k
      BY <1>2, MaxSeqnoAssumption
    <3>2. f[i].v = p.slots[p.cseq + i - 1].vval
      BY DEF Forwarded
    <3> QED BY <1>5, <3>1, <3>2
  <2>3. hosts'[a] = g \o f
    BY <1>1 DEF MapsOK
  <2>4. g \in Seq(R) /\ f \in Seq(R)
    BY <1>2, <2>1 DEF FrameSeq
  <2> HIDE DEF f, R
  <2>5. Len(g) \in Nat /\ Len(f) \in Nat
    BY <2>4, LenProperties
  <2>6. /\ Len(g \o f) = Len(g) + Len(f)
        /\ \A i \in 1..Len(g) + Len(f) : (g \o f)[i] = IF i <= Len(g) THEN g[i] ELSE f[i - Len(g)]
    BY <2>4, ConcatProperties
  <2>7. ASSUME NEW i \in 1..Len(g) + Len(f) PROVE (g \o f)[i].v # NoPacket
    <3>1. CASE i <= Len(g)
      BY <2>5, <2>6, <3>1 DEF Full
    <3>2. CASE ~(i <= Len(g))
      <4>1. i - Len(g) \in 1..k - p.cseq
        BY <2>1, <2>5, <3>2
      <4> QED BY <2>2, <2>6, <3>2, <4>1
    <3> QED BY <3>1, <3>2
  <2> QED BY <2>3, <2>6, <2>7 DEF Full
<1> QED BY <1>4, <1>6 DEF StepTold

LEMMA OnLearnTold ==
  ASSUME Few, NEW a \in Node, NEW p, NEW ms, NEW sub, NEW b \in Node, NEW r \in Nat,
         NEW s \in Seqno, NEW U, MapsOK, Len(sub) \in Nat, NodeOK(p, hosts[a], ms, sub),
         FramesOK(ms, sub), ToldOK(a, p, U, Len(sub)), a = Leader => U = {}, Full(hosts[a]),
         Learn(b, r, s) \in ms, b \in {a, Leader} => p.slots[s].vval # NoPacket \/ s < p.cseq,
         OnLearn(a, p, b, r, s)
  PROVE  StepTold(a, U, Len(sub))
<1> DEFINE q == GetSlot(p, s)
           t == [q EXCEPT !.slots[s] = AddLearn(@, b, r)]
<1>1. /\ NodeOK(q, hosts[a], ms, sub) /\ q \in PaxosState
      /\ q.slots = p.slots /\ q.cseq = p.cseq
  <2>1. q.cseq = p.cseq
    BY DEF GetSlot, NodeOK, PaxosState
  <2> QED BY <2>1, GetSlotOK
<1>2. ToldOK(a, q, U, Len(sub))
  BY GetSlotTold DEF NodeOK
<1>3. CASE CountsLearn(q.slots[s], b, r)
  <2>1. NodeOK(t, hosts[a], ms, sub)
    BY <1>1, <1>3, AddLearnOK
  <2>2. ToldOK(a, t, U, Len(sub))
    BY <1>1, <1>2, AddLearnTold
  <2>3. ProcessQueue(a, t, r)
    BY <1>3 DEF OnLearn
  <2> HIDE DEF t
  <2> QED BY <2>1, <2>2, <2>3, ProcessQueueTold
<1>4. CASE ~CountsLearn(q.slots[s], b, r)
  BY <1>2, <1>4, SetStateTold DEF OnLearn
<1> QED BY <1>3, <1>4

\* An ACCEPT of the leader's round leaves the node with the packet.
LEMMA OnAcceptTold ==
  ASSUME Few, NEW a \in Node, NEW p, NEW sub, NEW sent, NEW s \in Seqno, NEW v \in Packet,
         NEW U, NEW V, NEW n, MapsOK, Len(sub) \in Nat, NodeOK(p, hosts[a], msgs, sub),
         FramesOK(msgs', sub), s < Len(sub), v = sub[s + 1], ToldOK(a, p, U, n),
         \A t \in Seqno \ {s} : t < Len(sub) /\ (t < n => t \in U) => t \in V,
         a = Leader => V = {}, Full(hosts[a]), OnAccept(a, p, FirstRound, s, v, sent)
  PROVE  StepTold(a, V, Len(sub))
<1> DEFINE r == FirstRound
           q == Store(p, r, s, v)
<1>0. r \in Nat /\ r > 0 /\ p \in PaxosState
  BY RoundFacts DEF NodeOK
<1>1. msgs \subseteq msgs' /\ NodeOK(p, hosts[a], msgs', sub)
  <2>1. msgs \subseteq msgs'
    BY DEF OnAccept
  <2> QED BY <2>1, NodeOKGrows
<1>2. CASE Accepts(p, r, s)
  <2>1. Learn(a, r, s) \in msgs' /\ OnLearn(a, q, a, r, s)
    BY <1>2 DEF OnAccept
  <2>2. NodeOK(q, hosts[a], msgs', sub)
    BY <1>0, <1>1, StoreOK
  <2>3. ToldOK(a, q, V, Len(sub)) /\ q.slots[s].vval # NoPacket
    <3>1. r <= FirstRound
      BY <1>0
    <3> QED BY <1>0, <3>1, StoreTold
  <2> HIDE DEF q, r
  <2> QED BY <1>0, <2>1, <2>2, <2>3, OnLearnTold
<1>3. CASE ~Accepts(p, r, s)
  <2>1. SetState(a, GetSlot(p, s))
    BY <1>3 DEF OnAccept
  <2>2. p.slots[s].vval # NoPacket
    <3>1. p.crnd <= r /\ p.crnd \in Nat
      BY <1>0 DEF ToldOK, PaxosState
    <3>2. p.slots[s].vrnd = r
      BY <1>0, <1>3, <3>1 DEF Accepts
    <3> QED BY <1>0, <3>2 DEF ToldOK
  <2>3. ToldOK(a, p, V, Len(sub))
    BY <2>2, ToldGrows
  <2>4. ToldOK(a, GetSlot(p, s), V, Len(sub))
    BY <1>0, <2>3, GetSlotTold
  <2> QED BY <2>1, <2>4, SetStateTold
<1> QED BY <1>2, <1>3

-----------------------------------------------------------------------------
(* The chain: an ACCEPT stays in front of the leader's LEARN *)

\* The switches that a frame for a still comes to once it has come to x.
Onward(x, a) ==
  {y \in Node : \A U \in SUBSET Node :
     x \in U /\ (\A z \in U \ {a} : Hop[z][a] \in U) => y \in U}

LEMMA OnwardFacts ==
  ASSUME NEW x \in Node, NEW a \in Node
  PROVE  /\ x \in Onward(x, a)
         /\ \A y \in Onward(x, a) \ {a} : Hop[y][a] \in Onward(x, a)
  BY HopAssumption DEF Onward

\* They are x itself and those that it comes to from the next switch.
LEMMA OnwardNext ==
  ASSUME NEW x \in Node, NEW a \in Node, NEW y \in Onward(x, a), y # x
  PROVE  x # a /\ y \in Onward(Hop[x][a], a)
<1> DEFINE W == IF x = a THEN {} ELSE Onward(Hop[x][a], a)
<1>1. Hop[x][a] \in Node
  BY HopAssumption
<1>2. W \subseteq Node
  BY DEF Onward
<1>3. x # a => Hop[x][a] \in W
  BY <1>1, OnwardFacts
<1>4. \A z \in W \ {a} : Hop[z][a] \in W
  BY <1>1, OnwardFacts
<1>5. \A z \in ({x} \cup W) \ {a} : Hop[z][a] \in {x} \cup W
  BY <1>3, <1>4
<1>6. {x} \cup W \in SUBSET Node
  BY <1>2
<1>7. y \in {x} \cup W
  <2> HIDE DEF W
  <2> QED BY <1>5, <1>6 DEF Onward
<1> QED BY <1>7

\* f is an ACCEPT, and h the LEARN of the leader about it to the same node.
Pair(f, h) ==
  /\ f.msg.type = "ACCEPT"
  /\ h.msg.type = "LEARN" /\ h.msg.src = Leader
  /\ f.dst = h.dst /\ f.msg.seqno = h.msg.seqno

\* The LEARN is behind its ACCEPT on the way.
AcceptsFirst(l) ==
  \A e, g \in Link : \A i \in 1..Len(l[e]), j \in 1..Len(l[g]) :
    Pair(l[e][i], l[g][j]) => (e = g /\ i < j) \/ e[1] \in Onward(g[2], l[e][i].dst)

\* Frame f, about what was sent, takes link e on its way.
FrameOK(e, f, ms) ==
  /\ f.msg \in ms
  /\ f.dst # e[1] /\ e[2] = Hop[e[1]][f.dst]
  /\ f.msg.type = "ACCEPT" => f.dst # Leader /\ f.msg.n = FirstRound

FramesSent(l, ms) == \A e \in Link : \A i \in 1..Len(l[e]) : FrameOK(e, l[e][i], ms)

LinkType == [Link -> Seq(Frame)]

\* The numbers of the ACCEPTs under way to a.
UnderWay(l, a) ==
  {s \in Seqno : \E e \in Link : \E i \in 1..Len(l[e]) :
     l[e][i].msg.type = "ACCEPT" /\ l[e][i].dst = a /\ l[e][i].msg.seqno = s}

LEMMA LinkFacts ==
  /\ \A e \in Link : e[1] \in Node /\ e[2] \in Node /\ e = <<e[1], e[2]>>
  /\ \A a, b \in Node : a # b => <<a, Hop[a][b]>> \in Link
  BY HopAssumption DEF Link

\* A turn of the loop over the other nodes leaves none out.
LEMMA ToOthersFacts ==
  ASSUME NEW a \in Node, NEW m \in AcceptMsg \cup LearnMsg
  PROVE  LET fs == ToOthers(a, m)
         IN  /\ fs \in Seq(Frame)
             /\ \A i \in 1..Len(fs) : fs[i].msg = m /\ fs[i].dst \in Node \ {a}
             /\ \A b \in Node \ {a} : \E i \in 1..Len(fs) : fs[i].dst = b
<1> DEFINE T == Node \ {a}
           o == Only(MacOrder, T)
           fs == ToOthers(a, m)
<1>1. MacOrder \in Seq(Node)
  BY MacOrderAssumption
<1>2. o \in Seq(Node \cap T) /\ \E g : Picks(g, o, MacOrder, T, Len(MacOrder))
  BY <1>1, OnlyFacts
<1>3. PICK g : Picks(g, o, MacOrder, T, Len(MacOrder))
  BY <1>2
<1>4. fs = [i \in 1..Len(o) |-> [dst |-> o[i], msg |-> m]]
  BY DEF ToOthers
<1> HIDE DEF o, fs
<1>5. Len(o) \in Nat /\ \A i \in 1..Len(o) : o[i] \in Node \cap T
  BY <1>2, LenProperties, ElementOfSeq
<1>6. \A i \in 1..Len(o) : [dst |-> o[i], msg |-> m] \in Frame
  BY <1>5 DEF Frame
<1>7. fs \in Seq(Frame) /\ Len(fs) = Len(o)
  BY <1>4, <1>5, <1>6, IsASeq
<1>8. \A i \in 1..Len(fs) : fs[i].msg = m /\ fs[i].dst = o[i]
  BY <1>4, <1>7
<1>9. ASSUME NEW b \in Node \ {a} PROVE \E i \in 1..Len(fs) : fs[i].dst = b
  <2>1. PICK k \in 1..Len(MacOrder) : MacOrder[k] = b
    BY MacOrderAssumption
  <2>2. PICK i \in 1..Len(o) : g[i] = k
    BY <1>3, <2>1 DEF Picks
  <2>3. o[i] = b
    BY <1>3, <2>1, <2>2 DEF Picks
  <2> QED BY <1>7, <1>8, <2>2, <2>3
<1> QED BY <1>5, <1>7, <1>8, <1>9 DEF fs

\* Push appends to the links out of a what takes them, in order.
LEMMA PushFacts ==
  ASSUME NEW l \in LinkType, NEW a \in Node, NEW fs \in Seq(Frame)
  PROVE  /\ Push(l, a, fs) \in LinkType
         /\ \A e \in Link : e[1] # a => Push(l, a, fs)[e] = l[e]
         /\ \A e \in Link : e[1] = a =>
              \E r \in Seq(Frame) : /\ Push(l, a, fs)[e] = l[e] \o r
                                    /\ \A j \in 1..Len(r) : r[j] \in Taking(e)
                                    /\ \E g : Picks(g, r, fs, Taking(e), Len(fs))
<1> DEFINE L == Push(l, a, fs)
<1>1. ASSUME NEW e \in Link
      PROVE  /\ L[e] \in Seq(Frame)
             /\ e[1] # a => L[e] = l[e]
             /\ e[1] = a =>
                  \E r \in Seq(Frame) : /\ L[e] = l[e] \o r
                                        /\ \A j \in 1..Len(r) : r[j] \in Taking(e)
                                        /\ \E g : Picks(g, r, fs, Taking(e), Len(fs))
  <2> DEFINE r == Only(fs, Taking(e))
  <2>1. L[e] = IF e[1] = a THEN l[e] \o r ELSE l[e]
    BY DEF Push
  <2>2. r \in Seq(Frame \cap Taking(e)) /\ \E g : Picks(g, r, fs, Taking(e), Len(fs))
    BY OnlyFacts
  <2>3. Frame \cap Taking(e) \subseteq Frame
    OBVIOUS
  <2> HIDE DEF r, L
  <2>4. r \in Seq(Frame) /\ \A j \in 1..Len(r) : r[j] \in Taking(e)
    <3>1. /\ Len(r) \in Nat /\ r = [i \in 1..Len(r) |-> r[i]]
          /\ \A i \in 1..Len(r) : r[i] \in Frame \cap Taking(e)
      BY <2>2, LenProperties, ElementOfSeq
    <3> QED BY <3>1, IsASeq
  <2>5. l[e] \in Seq(Frame)
    BY DEF LinkType
  <2>6. l[e] \o r \in Seq(Frame)
    BY <2>4, <2>5, ConcatProperties
  <2> QED BY <2>1, <2>2, <2>4, <2>5, <2>6
<1>2. L = [e \in Link |-> L[e]]
  BY DEF Push
<1> HIDE DEF L
<1>3. L \in [Link -> Seq(Frame)]
  BY <1>1, <1>2
<1> QED BY <1>1, <1>3 DEF L, LinkType

\* On link e the queue has grown from q to r by those of the frames fs that a
\* has sent that way; g says which they are.
Grown(q, r, e, a, fs, g) ==
  /\ Len(q) \in Nat /\ Len(r) \in Nat /\ Len(q) <= Len(r)
  /\ \A i \in 1..Len(q) : r[i] = q[i]
  /\ \A i \in 1..Len(r) : i > Len(q) =>
       /\ e[1] = a /\ g[i] \in 1..Len(fs)
       /\ r[i] = fs[g[i]] /\ e[2] = Hop[a][fs[g[i]].dst]
  /\ \A i, j \in 1..Len(r) : Len(q) < i /\ i < j => g[i] < g[j]
  /\ e[1] = a => \A k \in 1..Len(fs) : e[2] = Hop[a][fs[k].dst] =>
       \E i \in 1..Len(r) : r[i] = fs[k]

LEMMA PushEntries ==
  ASSUME NEW l \in LinkType, NEW a \in Node, NEW fs \in Seq(Frame), NEW e \in Link
  PROVE  \E g : Grown(l[e], Push(l, a, fs)[e], e, a, fs, g)
<1> DEFINE L == Push(l, a, fs)
<1>0. l[e] \in Seq(Frame) /\ Len(l[e]) \in Nat
  BY LenProperties DEF LinkType
<1>1. CASE e[1] # a
  <2>1. L[e] = l[e]
    BY <1>1, PushFacts
  <2> HIDE DEF L
  <2>2. Grown(l[e], L[e], e, a, fs, <<>>)
    BY <1>0, <1>1, <2>1 DEF Grown
  <2> QED BY <2>2 DEF L
<1>2. CASE e[1] = a
  <2>1. PICK r \in Seq(Frame) : /\ L[e] = l[e] \o r
                                /\ \A j \in 1..Len(r) : r[j] \in Taking(e)
                                /\ \E g : Picks(g, r, fs, Taking(e), Len(fs))
    BY <1>2, PushFacts
  <2>2. PICK g : Picks(g, r, fs, Taking(e), Len(fs))
    BY <2>1
  <2> HIDE DEF L
  <2> DEFINE m == Len(l[e])
             h == [i \in 1..Len(L[e]) |-> g[i - m]]
  <2>3. /\ Len(r) \in Nat /\ Len(L[e]) = m + Len(r)
        /\ \A i \in 1..m + Len(r) : L[e][i] = IF i <= m THEN l[e][i] ELSE r[i - m]
    BY <1>0, <2>1, LenProperties, ConcatProperties
  <2>4. Len(L[e]) \in Nat /\ m <= Len(L[e]) /\ \A i \in 1..m : L[e][i] = l[e][i]
    BY <1>0, <2>3
  <2>5. ASSUME NEW i \in 1..Len(L[e]), i > m
        PROVE  /\ i - m \in 1..Len(r) /\ h[i] = g[i - m] /\ h[i] \in 1..Len(fs)
               /\ L[e][i] = fs[h[i]] /\ e[2] = Hop[a][fs[h[i]].dst]
    <3>1. i - m \in 1..Len(r) /\ L[e][i] = r[i - m]
      BY <1>0, <2>3, <2>5
    <3>2. h[i] = g[i - m] /\ h[i] \in 1..Len(fs) /\ r[i - m] = fs[h[i]]
      BY <2>2, <3>1 DEF Picks
    <3>3. r[i - m] \in Taking(e)
      BY <2>1, <3>1
    <3> QED BY <1>2, <3>1, <3>2, <3>3 DEF Taking
  <2>6. ASSUME NEW i \in 1..Len(L[e]), NEW j \in 1..Len(L[e]), m < i, i < j
        PROVE  h[i] < h[j]
    <3>1. i - m < j - m /\ j > m
      BY <1>0, <2>4, <2>6
    <3> QED BY <2>2, <2>5, <2>6, <3>1 DEF Picks
  <2>7. ASSUME NEW k \in 1..Len(fs), e[2] = Hop[a][fs[k].dst]
        PROVE  \E i \in 1..Len(L[e]) : L[e][i] = fs[k]
    <3>1. fs[k] \in Taking(e)
      <4>1. fs[k] \in Frame
        BY ElementOfSeq
      <4> QED BY <1>2, <2>7, <4>1 DEF Taking
    <3>2. PICK j \in 1..Len(r) : g[j] = k
      BY <2>2, <3>1 DEF Picks
    <3>3. m + j \in 1..Len(L[e]) /\ L[e][m + j] = r[j]
      <4>1. m + j \in 1..m + Len(r) /\ ~(m + j <= m) /\ (m + j) - m = j
        BY <1>0, <2>3
      <4> QED BY <2>3, <4>1
    <3>4. r[j] = fs[k]
      BY <2>2, <3>2 DEF Picks
    <3> QED BY <3>3, <3>4
  <2> HIDE DEF h
  <2>8. Grown(l[e], L[e], e, a, fs, h)
    BY <1>0, <1>2, <2>4, <2>5, <2>6, <2>7 DEF Grown
  <2> QED BY <2>8 DEF L
<1> QED BY <1>1, <1>2

\* What is true of the frames on the links l, when ms were sent.
NetworkOK(l, ms) == l \in LinkType /\ FramesSent(l, ms) /\ AcceptsFirst(l)

\* Frames that do not overtake their ACCEPTs may be sent.
LEMMA PushOK ==
  ASSUME NEW l, NEW ms, NEW a \in Node, NEW fs \in Seq(Frame), NetworkOK(l, ms),
         \A k \in 1..Len(fs) : FrameOK(<<a, Hop[a][fs[k].dst]>>, fs[k], ms),
         \A e \in Link : \A i \in 1..Len(l[e]) : \A k \in 1..Len(fs) :
           /\ Pair(l[e][i], fs[k]) => \/ e = <<a, Hop[a][fs[k].dst]>>
                                      \/ e[1] \in Onward(Hop[a][fs[k].dst], fs[k].dst)
           /\ Pair(fs[k], l[e][i]) => a \in Onward(e[2], fs[k].dst),
         \A k, m \in 1..Len(fs) : Pair(fs[k], fs[m]) => k < m
  PROVE  NetworkOK(Push(l, a, fs), ms)
<1> DEFINE L == Push(l, a, fs)
<1>0. l \in LinkType /\ FramesSent(l, ms) /\ AcceptsFirst(l)
  BY DEF NetworkOK
<1>1. L \in LinkType
  BY <1>0, PushFacts
<1>2. \A e \in Link : \E g : Grown(l[e], L[e], e, a, fs, g)
  BY <1>0, PushEntries
<1> HIDE DEF L
<1>3. ASSUME NEW e \in Link, NEW i \in 1..Len(L[e]) PROVE FrameOK(e, L[e][i], ms)
  <2>1. PICK g : Grown(l[e], L[e], e, a, fs, g)
    BY <1>2
  <2>2. CASE i <= Len(l[e])
    <3>1. i \in 1..Len(l[e]) /\ L[e][i] = l[e][i]
      BY <2>1, <2>2 DEF Grown
    <3> QED BY <1>0, <3>1 DEF FramesSent
  <2>3. CASE i > Len(l[e])
    <3>1. e[1] = a /\ g[i] \in 1..Len(fs) /\ L[e][i] = fs[g[i]] /\ e[2] = Hop[a][fs[g[i]].dst]
      BY <2>1, <2>3 DEF Grown
    <3>2. e = <<a, Hop[a][fs[g[i]].dst]>>
      BY <3>1, LinkFacts
    <3> QED BY <3>1, <3>2
  <2> QED BY <2>1, <2>2, <2>3 DEF Grown
<1>4. ASSUME NEW e \in Link, NEW g \in Link, NEW i \in 1..Len(L[e]), NEW j \in 1..Len(L[g]),
             Pair(L[e][i], L[g][j])
      PROVE  (e = g /\ i < j) \/ e[1] \in Onward(g[2], L[e][i].dst)
  <2>0. L[e][i].dst = L[g][j].dst
    BY <1>4 DEF Pair
  <2>1. PICK x : Grown(l[e], L[e], e, a, fs, x)
    BY <1>2
  <2>2. PICK y : Grown(l[g], L[g], g, a, fs, y)
    BY <1>2
  <2>3. \/ i \in 1..Len(l[e]) /\ L[e][i] = l[e][i]
        \/ /\ i > Len(l[e]) /\ e[1] = a /\ x[i] \in 1..Len(fs) /\ L[e][i] = fs[x[i]]
           /\ e[2] = Hop[a][fs[x[i]].dst]
    BY <2>1 DEF Grown
  <2>4. \/ j \in 1..Len(l[g]) /\ L[g][j] = l[g][j]
        \/ /\ j > Len(l[g]) /\ g[1] = a /\ y[j] \in 1..Len(fs) /\ L[g][j] = fs[y[j]]
           /\ g[2] = Hop[a][fs[y[j]].dst]
    BY <2>2 DEF Grown
  <2>5. CASE i \in 1..Len(l[e]) /\ L[e][i] = l[e][i] /\ j \in 1..Len(l[g]) /\ L[g][j] = l[g][j]
    BY <1>0, <1>4, <2>5 DEF AcceptsFirst
  <2>6. CASE /\ i \in 1..Len(l[e]) /\ L[e][i] = l[e][i]
             /\ j > Len(l[g]) /\ g[1] = a /\ y[j] \in 1..Len(fs) /\ L[g][j] = fs[y[j]]
             /\ g[2] = Hop[a][fs[y[j]].dst]
    <3>1. g = <<a, Hop[a][fs[y[j]].dst]>>
      BY <2>6, LinkFacts
    <3>2. e = g \/ e[1] \in Onward(g[2], L[g][j].dst)
      BY <1>4, <2>6, <3>1
    <3>3. e = g => i < j
      BY <2>2, <2>6 DEF Grown
    <3> QED BY <2>0, <3>2, <3>3
  <2>7. CASE /\ i > Len(l[e]) /\ e[1] = a /\ x[i] \in 1..Len(fs) /\ L[e][i] = fs[x[i]]
             /\ j \in 1..Len(l[g]) /\ L[g][j] = l[g][j]
    BY <1>4, <2>7
  <2>8. CASE /\ i > Len(l[e]) /\ e[1] = a /\ x[i] \in 1..Len(fs) /\ L[e][i] = fs[x[i]]
             /\ e[2] = Hop[a][fs[x[i]].dst]
             /\ j > Len(l[g]) /\ g[1] = a /\ y[j] \in 1..Len(fs) /\ L[g][j] = fs[y[j]]
             /\ g[2] = Hop[a][fs[y[j]].dst]
    <3>1. e = g
      BY <2>0, <2>8, LinkFacts
    <3>2. L[g][i] = fs[x[i]] /\ i \in 1..Len(L[g]) /\ i > Len(l[g])
      BY <2>8, <3>1
    <3>3. y[i] \in 1..Len(fs) /\ L[g][i] = fs[y[i]]
      BY <2>2, <3>2 DEF Grown
    <3>4. y[i] < y[j]
      BY <1>4, <2>8, <3>1, <3>3
    <3>5. ~(j < i) /\ j # i
      BY <2>2, <2>8, <3>1, <3>2, <3>3, <3>4 DEF Grown
    <3>6. i < j
      BY <3>5
    <3> QED BY <3>1, <3>6
  <2> QED BY <2>3, <2>4, <2>5, <2>6, <2>7, <2>8
<1> QED BY <1>1, <1>3, <1>4 DEF NetworkOK, FramesSent, AcceptsFirst, L

\* What was under way stays under way, and what is sent is.
LEMMA PushUnderWay ==
  ASSUME NEW l \in LinkType, NEW a \in Node, NEW fs \in Seq(Frame), NEW b \in Node
  PROVE  /\ UnderWay(l, b) \subseteq UnderWay(Push(l, a, fs), b)
         /\ \A k \in 1..Len(fs) :
              fs[k].msg.type = "ACCEPT" /\ fs[k].dst = b /\ b # a /\ fs[k].msg.seqno \in Seqno
                => fs[k].msg.seqno \in UnderWay(Push(l, a, fs), b)
<1> DEFINE L == Push(l, a, fs)
<1>1. \A e \in Link : \E g : Grown(l[e], L[e], e, a, fs, g)
  BY PushEntries
<1> HIDE DEF L
<1>2. ASSUME NEW s \in UnderWay(l, b) PROVE s \in UnderWay(L, b)
  <2>1. PICK e \in Link : \E i \in 1..Len(l[e]) :
          l[e][i].msg.type = "ACCEPT" /\ l[e][i].dst = b /\ l[e][i].msg.seqno = s
    BY DEF UnderWay
  <2>2. PICK i \in 1..Len(l[e]) :
          l[e][i].msg.type = "ACCEPT" /\ l[e][i].dst = b /\ l[e][i].msg.seqno = s
    BY <2>1
  <2>3. i \in 1..Len(L[e]) /\ L[e][i] = l[e][i]
    BY <1>1, <2>2 DEF Grown
  <2>4. s \in Seqno
    BY DEF UnderWay
  <2> QED BY <2>2, <2>3, <2>4 DEF UnderWay
<1>3. ASSUME NEW k \in 1..Len(fs), fs[k].msg.type = "ACCEPT", fs[k].dst = b, b # a,
             fs[k].msg.seqno \in Seqno
      PROVE  fs[k].msg.seqno \in UnderWay(L, b)
  <2> DEFINE e == <<a, Hop[a][b]>>
  <2>1. e \in Link /\ e[1] = a /\ e[2] = Hop[a][fs[k].dst]
    BY <1>3, LinkFacts
  <2>2. PICK g : Grown(l[e], L[e], e, a, fs, g)
    BY <1>1, <2>1
  <2> HIDE DEF e
  <2>3. PICK i \in 1..Len(L[e]) : L[e][i] = fs[k]
    BY <2>1, <2>2 DEF Grown
  <2> QED BY <1>3, <2>1, <2>3 DEF UnderWay
<1> QED BY <1>2, <1>3 DEF L

\* The links after the first frame has left link x.
Popped(l, x) == [l EXCEPT ![x] = Tail(@)]

LEMMA PopFacts ==
  ASSUME NEW l \in LinkType, NEW x \in Link, l[x] # <<>>
  PROVE  /\ Popped(l, x) \in LinkType
         /\ 1 \in 1..Len(l[x]) /\ Head(l[x]) = l[x][1] /\ Head(l[x]) \in Frame
         /\ Len(l[x]) \in Nat /\ Len(Popped(l, x)[x]) = Len(l[x]) - 1
         /\ \A i \in 1..Len(Popped(l, x)[x]) :
              i + 1 \in 1..Len(l[x]) /\ Popped(l, x)[x][i] = l[x][i + 1]
         /\ \A e \in Link \ {x} : Popped(l, x)[e] = l[e]
<1>1. l[x] \in Seq(Frame)
  BY DEF LinkType
<1>2. /\ Head(l[x]) \in Frame /\ Tail(l[x]) \in Seq(Frame) /\ Head(l[x]) = l[x][1]
      /\ Len(Tail(l[x])) = Len(l[x]) - 1
      /\ \A i \in 1..Len(Tail(l[x])) : Tail(l[x])[i] = l[x][i + 1]
      /\ Len(l[x]) \in Nat /\ Len(l[x]) > 0
  BY <1>1, HeadTailProperties, LenProperties, EmptySeq
<1>3. /\ Popped(l, x) \in LinkType /\ Popped(l, x)[x] = Tail(l[x])
      /\ \A e \in Link \ {x} : Popped(l, x)[e] = l[e]
  BY <1>2 DEF Popped, LinkType
<1> QED BY <1>2, <1>3

\* An entry of a link was there before, one place further back on link x.
LEMMA PopEntries ==
  ASSUME NEW l \in LinkType, NEW x \in Link, l[x] # <<>>, NEW e \in Link,
         NEW i \in 1..Len(Popped(l, x)[e])
  PROVE  \E j \in 1..Len(l[e]) : /\ Popped(l, x)[e][i] = l[e][j]
                                 /\ j = IF e = x THEN i + 1 ELSE i
  BY PopFacts

LEMMA PopOK ==
  ASSUME NEW l, NEW ms, NetworkOK(l, ms), NEW x \in Link, l[x] # <<>>
  PROVE  NetworkOK(Popped(l, x), ms)
<1> DEFINE L == Popped(l, x)
<1>0. l \in LinkType /\ FramesSent(l, ms) /\ AcceptsFirst(l)
  BY DEF NetworkOK
<1>1. L \in LinkType
  BY <1>0, PopFacts
<1>2. \A e \in Link : \A i \in 1..Len(L[e]) :
        \E j \in 1..Len(l[e]) : L[e][i] = l[e][j] /\ j = IF e = x THEN i + 1 ELSE i
  BY <1>0, PopEntries
<1> HIDE DEF L
<1>3. FramesSent(L, ms)
  BY <1>0, <1>2 DEF FramesSent
<1>4. ASSUME NEW e \in Link, NEW g \in Link, NEW i \in 1..Len(L[e]), NEW j \in 1..Len(L[g]),
             Pair(L[e][i], L[g][j])
      PROVE  (e = g /\ i < j) \/ e[1] \in Onward(g[2], L[e][i].dst)
  <2>1. PICK m \in 1..Len(l[e]) : L[e][i] = l[e][m] /\ m = IF e = x THEN i + 1 ELSE i
    BY <1>2
  <2>2. PICK k \in 1..Len(l[g]) : L[g][j] = l[g][k] /\ k = IF g = x THEN j + 1 ELSE j
    BY <1>2
  <2>3. (e = g /\ m < k) \/ e[1] \in Onward(g[2], L[e][i].dst)
    BY <1>0, <1>4, <2>1, <2>2 DEF AcceptsFirst
  <2> QED BY <2>1, <2>2, <2>3
<1> QED BY <1>1, <1>3, <1>4 DEF NetworkOK, AcceptsFirst, L

\* Only the frame that has left may not be under way any more.
LEMMA PopUnderWay ==
  ASSUME NEW l \in LinkType, NEW x \in Link, l[x] # <<>>, NEW b \in Node,
         NEW s \in UnderWay(l, b)
  PROVE  \/ s \in UnderWay(Popped(l, x), b)
         \/ /\ Head(l[x]).msg.type = "ACCEPT" /\ Head(l[x]).dst = b
            /\ Head(l[x]).msg.seqno = s
<1> DEFINE L == Popped(l, x)
<1>1. PICK e \in Link : \E i \in 1..Len(l[e]) :
        l[e][i].msg.type = "ACCEPT" /\ l[e][i].dst = b /\ l[e][i].msg.seqno = s
  BY DEF UnderWay
<1>2. PICK i \in 1..Len(l[e]) :
        l[e][i].msg.type = "ACCEPT" /\ l[e][i].dst = b /\ l[e][i].msg.seqno = s
  BY <1>1
<1>3. s \in Seqno
  BY DEF UnderWay
<1>4. CASE e # x
  <2>1. L[e] = l[e]
    BY <1>4, PopFacts
  <2> HIDE DEF L
  <2>2. s \in UnderWay(L, b)
    BY <1>2, <1>3, <2>1 DEF UnderWay
  <2> QED BY <2>2 DEF L
<1>5. CASE e = x /\ i = 1
  BY <1>2, <1>5, PopFacts
<1>6. CASE e = x /\ i # 1
  <2>1. i - 1 \in 1..Len(L[e]) /\ L[e][i - 1] = l[e][i]
    <3>1. Len(l[e]) \in Nat /\ Len(L[e]) = Len(l[e]) - 1 /\ \A k \in 1..Len(L[e]) : L[e][k] = l[e][k + 1]
      BY <1>6, PopFacts
    <3> HIDE DEF L
    <3>2. i - 1 \in 1..Len(L[e]) /\ (i - 1) + 1 = i
      BY <1>6, <3>1
    <3> QED BY <3>1, <3>2
  <2> HIDE DEF L
  <2>2. s \in UnderWay(L, b)
    BY <1>2, <1>3, <2>1 DEF UnderWay
  <2> QED BY <2>2 DEF L
<1> QED BY <1>4, <1>5, <1>6

LEMMA NetworkGrows ==
  ASSUME NEW l, NEW ms, NEW ns, NetworkOK(l, ms), ms \subseteq ns
  PROVE  NetworkOK(l, ns)
<1>1. FramesSent(l, ms) => FramesSent(l, ns)
  BY DEF FramesSent, FrameOK
<1> QED BY <1>1 DEF NetworkOK

\* A forwarded frame keeps its place behind, or in front of, the other.
LEMMA RelayOK ==
  ASSUME NEW l, NEW ms, NetworkOK(l, ms), NEW x \in Link, l[x] # <<>>,
         Head(l[x]).dst # x[2], NEW b \in Node
  PROVE  LET L == Push(Popped(l, x), x[2], <<Head(l[x])>>)
         IN  NetworkOK(L, ms) /\ UnderWay(l, b) \subseteq UnderWay(L, b)
<1> DEFINE P == Popped(l, x)
           f == Head(l[x])
           a == x[2]
           fs == <<f>>
<1>0. l \in LinkType /\ FramesSent(l, ms) /\ AcceptsFirst(l) /\ a \in Node
  BY LinkFacts DEF NetworkOK
<1>1. NetworkOK(P, ms) /\ P \in LinkType
  BY <1>0, PopOK, PopFacts
<1>2. 1 \in 1..Len(l[x]) /\ f = l[x][1] /\ f \in Frame
  BY <1>0, PopFacts
<1>3. FrameOK(x, f, ms) /\ f.dst \in Node /\ f.dst # a /\ x[1] \in Node
  BY <1>0, <1>2, LinkFacts DEF FramesSent, Frame
<1>4. \A e \in Link : \A i \in 1..Len(P[e]) :
        \E j \in 1..Len(l[e]) : P[e][i] = l[e][j] /\ j = IF e = x THEN i + 1 ELSE i
  BY <1>0, PopEntries
<1> HIDE DEF P, f
<1>5. fs \in Seq(Frame) /\ Len(fs) = 1 /\ fs[1] = f
  BY <1>2
<1>6. FrameOK(<<a, Hop[a][f.dst]>>, f, ms)
  BY <1>3 DEF FrameOK
<1>7. ASSUME NEW e \in Link, NEW i \in 1..Len(P[e])
      PROVE  /\ Pair(P[e][i], f) => e = <<a, Hop[a][f.dst]>> \/ e[1] \in Onward(Hop[a][f.dst], f.dst)
             /\ Pair(f, P[e][i]) => a \in Onward(e[2], f.dst)
  <2>1. PICK j \in 1..Len(l[e]) : P[e][i] = l[e][j] /\ j = IF e = x THEN i + 1 ELSE i
    BY <1>4
  <2>2. ASSUME Pair(P[e][i], f)
        PROVE  e = <<a, Hop[a][f.dst]>> \/ e[1] \in Onward(Hop[a][f.dst], f.dst)
    <3>1. l[e][j].dst = f.dst
      BY <2>1, <2>2 DEF Pair
    <3>2. e[1] \in Onward(a, f.dst)
      <4>1. (e = x /\ j < 1) \/ e[1] \in Onward(x[2], l[e][j].dst)
        BY <1>0, <1>2, <2>1, <2>2 DEF AcceptsFirst
      <4> QED BY <2>1, <3>1, <4>1
    <3>3. CASE e[1] = a
      <4>1. FrameOK(e, l[e][j], ms)
        BY <1>0, <2>1 DEF FramesSent
      <4>2. e[2] = Hop[a][f.dst]
        BY <3>1, <3>3, <4>1 DEF FrameOK
      <4> QED BY <3>3, <4>2, LinkFacts
    <3>4. CASE e[1] # a
      BY <1>0, <1>3, <3>2, <3>4, OnwardNext
    <3> QED BY <3>3, <3>4
  <2>3. ASSUME Pair(f, P[e][i]) PROVE a \in Onward(e[2], f.dst)
    <3>1. (x = e /\ 1 < j) \/ x[1] \in Onward(e[2], f.dst)
      BY <1>0, <1>2, <2>1, <2>3 DEF AcceptsFirst
    <3>2. e[2] \in Node
      BY LinkFacts
    <3>3. CASE x = e
      BY <1>3, <3>2, <3>3, OnwardFacts
    <3>4. CASE x[1] \in Onward(e[2], f.dst)
      <4>1. x[1] # f.dst /\ Hop[x[1]][f.dst] = a
        BY <1>3 DEF FrameOK
      <4> QED BY <1>3, <3>2, <3>4, <4>1, OnwardFacts
    <3> QED BY <3>1, <3>3, <3>4
  <2> QED BY <2>2, <2>3
<1>8. ~Pair(f, f)
  BY DEF Pair
<1>9. NetworkOK(Push(P, a, fs), ms)
  <2>1. \A k \in 1..Len(fs) : k = 1 /\ fs[k] = f
    BY <1>5
  <2> HIDE DEF fs, a
  <2>2. \A k \in 1..Len(fs) : FrameOK(<<a, Hop[a][fs[k].dst]>>, fs[k], ms)
    BY <1>6, <2>1
  <2>3. \A e \in Link : \A i \in 1..Len(P[e]) : \A k \in 1..Len(fs) :
          /\ Pair(P[e][i], fs[k]) => \/ e = <<a, Hop[a][fs[k].dst]>>
                                     \/ e[1] \in Onward(Hop[a][fs[k].dst], fs[k].dst)
          /\ Pair(fs[k], P[e][i]) => a \in Onward(e[2], fs[k].dst)
    BY <1>7, <2>1
  <2>4. \A k, m \in 1..Len(fs) : Pair(fs[k], fs[m]) => k < m
    BY <1>8, <2>1
  <2> QED BY <1>0, <1>1, <1>5, <2>2, <2>3, <2>4, PushOK
<1>10. ASSUME NEW s \in UnderWay(l, b) PROVE s \in UnderWay(Push(P, a, fs), b)
  <2>1. s \in UnderWay(P, b) \/ (f.msg.type = "ACCEPT" /\ f.dst = b /\ f.msg.seqno = s)
    BY <1>0, PopUnderWay DEF P, f
  <2>2. s \in Seqno
    BY DEF UnderWay
  <2>3. 1 \in 1..Len(fs)
    BY <1>5
  <2> QED BY <1>0, <1>1, <1>3, <1>5, <2>1, <2>2, <2>3, PushUnderWay
<1> QED BY <1>9, <1>10 DEF P, f

\* When the leader's LEARN arrives, its ACCEPT has arrived.
LEMMA LearnArrives ==
  ASSUME NEW l, NEW ms, NetworkOK(l, ms), NEW x \in Link, l[x] # <<>>,
         Head(l[x]).dst = x[2], Head(l[x]).msg.type = "LEARN", Head(l[x]).msg.src = Leader
  PROVE  Head(l[x]).msg.seqno \notin UnderWay(l, x[2])
<1> SUFFICES ASSUME Head(l[x]).msg.seqno \in UnderWay(l, x[2]) PROVE FALSE
  OBVIOUS
<1> DEFINE f == Head(l[x])
           a == x[2]
<1>0. l \in LinkType /\ FramesSent(l, ms) /\ AcceptsFirst(l) /\ a \in Node
  BY LinkFacts DEF NetworkOK
<1>1. PICK e \in Link : \E i \in 1..Len(l[e]) :
        l[e][i].msg.type = "ACCEPT" /\ l[e][i].dst = a /\ l[e][i].msg.seqno = f.msg.seqno
  BY DEF UnderWay
<1>2. PICK i \in 1..Len(l[e]) :
        l[e][i].msg.type = "ACCEPT" /\ l[e][i].dst = a /\ l[e][i].msg.seqno = f.msg.seqno
  BY <1>1
<1>3. 1 \in 1..Len(l[x]) /\ f = l[x][1]
  BY <1>0, PopFacts
<1>4. Pair(l[e][i], l[x][1])
  BY <1>2, <1>3 DEF Pair
<1>5. (e = x /\ i < 1) \/ e[1] \in Onward(a, a)
  BY <1>0, <1>2, <1>3, <1>4 DEF AcceptsFirst
<1>6. e[1] # a
  BY <1>0, <1>2 DEF FramesSent, FrameOK
<1> QED BY <1>0, <1>2, <1>5, <1>6, OnwardNext

\* An acceptor may send its LEARNs at any time.
LEMMA AnswerOK ==
  ASSUME NEW l, NEW ms, NetworkOK(l, ms), NEW a \in Node \ {Leader}, NEW n \in Nat,
         NEW s \in Seqno, Learn(a, n, s) \in ms, NEW b \in Node
  PROVE  LET L == Push(l, a, ToOthers(a, Learn(a, n, s)))
         IN  NetworkOK(L, ms) /\ UnderWay(l, b) \subseteq UnderWay(L, b)
<1> DEFINE m == Learn(a, n, s)
           fs == ToOthers(a, m)
<1>1. m \in LearnMsg /\ m.type = "LEARN" /\ m.src = a
  BY DEF Learn, LearnMsg
<1>2. fs \in Seq(Frame) /\ \A k \in 1..Len(fs) : fs[k].msg = m /\ fs[k].dst \in Node \ {a}
  BY <1>1, ToOthersFacts
<1> HIDE DEF m, fs
<1>3. \A k \in 1..Len(fs) : FrameOK(<<a, Hop[a][fs[k].dst]>>, fs[k], ms)
  BY <1>1, <1>2 DEF FrameOK, m
<1>4. \A k \in 1..Len(fs) : \A h : ~Pair(h, fs[k]) /\ ~Pair(fs[k], h)
  BY <1>1, <1>2 DEF Pair
<1>5. NetworkOK(Push(l, a, fs), ms)
  BY <1>2, <1>3, <1>4, PushOK
<1>6. UnderWay(l, b) \subseteq UnderWay(Push(l, a, fs), b)
  BY <1>2, PushUnderWay DEF NetworkOK
<1> QED BY <1>5, <1>6 DEF fs, m

\* The leader sends the ACCEPTs of a new number, and then its LEARNs.
LEMMA ClientSendsOK ==
  ASSUME NEW l, NEW ms, NEW ns, NetworkOK(l, ms), NEW v \in Packet, NEW s \in Seqno,
         \A m \in ms : m.seqno # s, ms \subseteq ns,
         Accept(FirstRound, s, v) \in ns, Learn(Leader, FirstRound, s) \in ns, NEW b \in Node
  PROVE  LET L == Push(l, Leader, ToOthers(Leader, Accept(FirstRound, s, v)) \o
                                  ToOthers(Leader, Learn(Leader, FirstRound, s)))
         IN  /\ NetworkOK(L, ns)
             /\ UnderWay(l, b) \subseteq UnderWay(L, b)
             /\ b # Leader => s \in UnderWay(L, b)
<1> DEFINE x == Accept(FirstRound, s, v)
           y == Learn(Leader, FirstRound, s)
           f == ToOthers(Leader, x)
           g == ToOthers(Leader, y)
           fs == f \o g
<1>0. Leader \in Node /\ FirstRound \in Nat
  BY NodeAssumption, RoundFacts
<1>1. /\ x \in AcceptMsg /\ x.type = "ACCEPT" /\ x.seqno = s /\ x.n = FirstRound
      /\ y \in LearnMsg /\ y.type = "LEARN" /\ y.seqno = s
  BY <1>0 DEF Accept, AcceptMsg, Learn, LearnMsg
<1> HIDE DEF x, y
<1>2. /\ f \in Seq(Frame)
      /\ \A i \in 1..Len(f) : f[i].msg = x /\ f[i].dst \in Node \ {Leader}
      /\ \A c \in Node \ {Leader} : \E i \in 1..Len(f) : f[i].dst = c
  BY <1>0, <1>1, ToOthersFacts
<1>3. /\ g \in Seq(Frame)
      /\ \A i \in 1..Len(g) : g[i].msg = y /\ g[i].dst \in Node \ {Leader}
  BY <1>0, <1>1, ToOthersFacts
<1> HIDE DEF f, g
<1>4. /\ Len(f) \in Nat /\ Len(g) \in Nat /\ Len(fs) = Len(f) + Len(g) /\ fs \in Seq(Frame)
      /\ \A i \in 1..Len(f) + Len(g) : fs[i] = IF i <= Len(f) THEN f[i] ELSE g[i - Len(f)]
  BY <1>2, <1>3, LenProperties, ConcatProperties
<1> HIDE DEF fs
<1>5. ASSUME NEW k \in 1..Len(fs)
      PROVE  /\ fs[k].dst \in Node \ {Leader}
             /\ k <= Len(f) => fs[k].msg = x
             /\ k > Len(f) => fs[k].msg = y
  <2>1. CASE k <= Len(f)
    <3>1. k \in 1..Len(f) /\ fs[k] = f[k]
      BY <1>4, <2>1
    <3> QED BY <1>2, <1>4, <2>1, <3>1
  <2>2. CASE k > Len(f)
    <3>1. k - Len(f) \in 1..Len(g) /\ fs[k] = g[k - Len(f)]
      BY <1>4, <2>2
    <3> QED BY <1>3, <1>4, <2>2, <3>1
  <2> QED BY <1>4, <2>1, <2>2
<1>6. NetworkOK(l, ns) /\ l \in LinkType /\ FramesSent(l, ms)
  BY NetworkGrows DEF NetworkOK
<1>7. \A k \in 1..Len(fs) : /\ fs[k].msg \in ns /\ fs[k].msg.seqno = s
                            /\ fs[k].msg.type = "ACCEPT" => fs[k].msg.n = FirstRound
  <2>1. x \in ns /\ y \in ns
    BY DEF x, y
  <2> QED BY <1>1, <1>4, <1>5, <2>1
<1>8. NetworkOK(Push(l, Leader, fs), ns)
  <2>1. \A k \in 1..Len(fs) : FrameOK(<<Leader, Hop[Leader][fs[k].dst]>>, fs[k], ns)
    BY <1>5, <1>7 DEF FrameOK
  <2>2. \A e \in Link : \A i \in 1..Len(l[e]) : \A k \in 1..Len(fs) :
          ~Pair(l[e][i], fs[k]) /\ ~Pair(fs[k], l[e][i])
    BY <1>6, <1>7 DEF FramesSent, FrameOK, Pair
  <2>3. ASSUME NEW k \in 1..Len(fs), NEW m \in 1..Len(fs), Pair(fs[k], fs[m]) PROVE k < m
    <3>1. fs[k].msg.type = "ACCEPT" /\ fs[m].msg.type = "LEARN"
      BY <2>3 DEF Pair
    <3>2. x.type # "LEARN" /\ y.type # "ACCEPT"
      BY <1>1
    <3>3. ~(k > Len(f)) /\ ~(m <= Len(f))
      BY <1>5, <3>1, <3>2
    <3> QED BY <1>4, <3>3
  <2> QED BY <1>0, <1>4, <1>6, <2>1, <2>2, <2>3, PushOK
<1>9. UnderWay(l, b) \subseteq UnderWay(Push(l, Leader, fs), b)
  BY <1>0, <1>4, <1>6, PushUnderWay
<1>10. ASSUME b # Leader PROVE s \in UnderWay(Push(l, Leader, fs), b)
  <2>1. PICK i \in 1..Len(f) : f[i].dst = b
    BY <1>2, <1>10
  <2>2. i \in 1..Len(fs) /\ fs[i] = f[i]
    BY <1>4, <2>1
  <2>3. fs[i].msg.type = "ACCEPT" /\ fs[i].dst = b /\ fs[i].msg.seqno = s
    BY <1>1, <1>2, <2>1, <2>2
  <2> QED BY <1>0, <1>4, <1>6, <1>10, <2>2, <2>3, PushUnderWay
<1> QED BY <1>8, <1>9, <1>10 DEF fs, f, g, x, y

-----------------------------------------------------------------------------
(* The chain runs PaxosController *)

\* The links carry frames that were sent.
SentOnly(l, ms) == l \in LinkType /\ \A e \in Link : \A i \in 1..Len(l[e]) : l[e][i].msg \in ms

LEMMA PushSent ==
  ASSUME NEW l, NEW ms, SentOnly(l, ms), NEW a \in Node, NEW fs \in Seq(Frame),
         \A k \in 1..Len(fs) : fs[k].msg \in ms
  PROVE  SentOnly(Push(l, a, fs), ms)
<1> DEFINE L == Push(l, a, fs)
<1>1. l \in LinkType /\ L \in LinkType
  BY PushFacts DEF SentOnly
<1>2. \A e \in Link : \E g : Grown(l[e], L[e], e, a, fs, g)
  BY <1>1, PushEntries
<1> HIDE DEF L
<1>3. ASSUME NEW e \in Link, NEW i \in 1..Len(L[e]) PROVE L[e][i].msg \in ms
  <2>1. PICK g : Grown(l[e], L[e], e, a, fs, g)
    BY <1>2
  <2>2. \/ i \in 1..Len(l[e]) /\ L[e][i] = l[e][i]
        \/ g[i] \in 1..Len(fs) /\ L[e][i] = fs[g[i]]
    BY <2>1 DEF Grown
  <2> QED BY <2>2 DEF SentOnly
<1> QED BY <1>1, <1>3 DEF SentOnly, L

LEMMA PopSent ==
  ASSUME NEW l, NEW ms, SentOnly(l, ms), NEW x \in Link, l[x] # <<>>
  PROVE  SentOnly(Popped(l, x), ms) /\ Head(l[x]).msg \in ms /\ Head(l[x]) \in Frame
<1>1. l \in LinkType
  BY DEF SentOnly
<1>2. Popped(l, x) \in LinkType /\ Head(l[x]).msg \in ms /\ Head(l[x]) \in Frame
  BY <1>1, PopFacts DEF SentOnly
<1>3. \A e \in Link : \A i \in 1..Len(Popped(l, x)[e]) : Popped(l, x)[e][i].msg \in ms
  BY <1>1, PopEntries DEF SentOnly
<1> QED BY <1>2, <1>3 DEF SentOnly

LEMMA ToOthersSent ==
  ASSUME NEW l, NEW ms, SentOnly(l, ms), NEW a \in Node, NEW m \in AcceptMsg \cup LearnMsg, m \in ms
  PROVE  SentOnly(Push(l, a, ToOthers(a, m)), ms)
<1> DEFINE fs == ToOthers(a, m)
<1>1. fs \in Seq(Frame) /\ \A k \in 1..Len(fs) : fs[k].msg = m
  BY ToOthersFacts
<1> HIDE DEF fs
<1>2. SentOnly(Push(l, a, fs), ms)
  BY <1>1, PushSent
<1> QED BY <1>2 DEF fs

\* What OnAccept has sent, when it has answered.
LEMMA OnAcceptSends ==
  ASSUME NEW a, NEW p, NEW n, NEW s, NEW v, NEW sent, OnAccept(a, p, n, s, v, sent)
  PROVE  /\ msgs \cup sent \subseteq msgs'
         /\ Accepts(p, n, s) => Learn(a, n, s) \in msgs'
  BY DEF OnAccept

\* A message at the head of a link is one that PaxosController may receive.
LEMMA HeadFacts ==
  ASSUME IInv, SentOnly(link, msgs), NEW e \in Link, link[e] # <<>>
  PROVE  LET m == Head(link[e]).msg
         IN  /\ m \in msgs /\ m.seqno \in Seqno /\ m.seqno < Len(submitted) /\ m.n \in Nat
             /\ m.type = "ACCEPT" => m.v \in Packet /\ m.v = submitted[m.seqno + 1]
             /\ m.type = "LEARN" => m.src \in Node /\ Learn(m.src, m.n, m.seqno) \in msgs
<1> DEFINE m == Head(link[e]).msg
<1>1. m \in msgs
  BY PopSent
<1> HIDE DEF m
<1>2. OthersOK
  BY IInvParts
<1>3. m \in AcceptMsg \cup LearnMsg
  BY <1>1, <1>2 DEF OthersOK
<1>4. m.seqno < Len(submitted) /\ (m.type = "ACCEPT" => m.v = submitted[m.seqno + 1])
  BY <1>1, <1>2 DEF OthersOK, FramesOK
<1>5. m.type = "LEARN" => m \in LearnMsg /\ Learn(m.src, m.n, m.seqno) = m
  BY <1>2, <1>1, MsgTypes
<1> QED BY <1>1, <1>3, <1>4, <1>5 DEF m, AcceptMsg, LearnMsg

\* The frames of the client's packet, in the state after.
LEMMA ClientFacts ==
  ASSUME IInv, NEW v \in Packet, OnClient(v)
  PROVE  LET s == NextSeqno
             n == state[Leader].crnd
         IN  /\ s \in Seqno /\ s = Len(submitted) /\ n \in Nat
             /\ submitted' = Append(submitted, v) /\ submitted \in Seq(Packet)
             /\ Accept(n, s, v) \in AcceptMsg /\ Learn(Leader, n, s) \in LearnMsg
             /\ msgs \subseteq msgs' /\ Accept(n, s, v) \in msgs'
             /\ OnAccept(Leader, state[Leader], n, s, v, {Accept(n, s, v)})
<1> DEFINE s == NextSeqno
           n == state[Leader].crnd
<1>1. OthersOK /\ state[Leader] \in PaxosState /\ Leader \in Node
  BY IInvParts, NodeAssumption DEF NodeOK
<1>2. s \in Seqno /\ s = Len(submitted) /\ n \in Nat
  BY <1>1 DEF OnClient, NextSeqno, OthersOK, PaxosState
<1>3. /\ OnAccept(Leader, state[Leader], n, s, v, {Accept(n, s, v)})
      /\ submitted' = Append(submitted, v)
  BY DEF OnClient
<1> HIDE DEF s, n
<1>4. Accept(n, s, v) \in AcceptMsg /\ Learn(Leader, n, s) \in LearnMsg
  BY <1>1, <1>2 DEF Accept, AcceptMsg, Learn, LearnMsg
<1>5. msgs \subseteq msgs' /\ Accept(n, s, v) \in msgs'
  BY <1>3, OnAcceptSends
<1> QED BY <1>1, <1>2, <1>3, <1>4, <1>5 DEF OthersOK, s, n

\* Node a goes on with the round and the votes of p, the others stay as they are.
Stays(a, p) ==
  /\ state'[a].crnd = p.crnd
  /\ \A s \in Seqno : /\ state'[a].slots[s].vrnd = p.slots[s].vrnd
                       /\ state'[a].slots[s].vval = p.slots[s].vval
  /\ \A b \in Node \ {a} : state'[b] = state[b] /\ hosts'[b] = hosts[b]

LEMMA SetStateStays ==
  ASSUME NEW a \in Node, NEW p, MapsOK, SetState(a, p)
  PROVE  Stays(a, p)
  BY DEF MapsOK, SetState, Stays

LEMMA ProcessQueueStays ==
  ASSUME NEW a \in Node, NEW p \in PaxosState, NEW r, MapsOK, ProcessQueue(a, p, r)
  PROVE  Stays(a, p)
<1>1. PICK k \in 0..MaxSeqno + 1 :
        /\ state' = [state EXCEPT ![a] =
                       [p EXCEPT !.cseq = k,
                                 !.processed = @ \cup {<<r, s>> : s \in p.cseq..k - 1}]]
        /\ hosts' = [hosts EXCEPT ![a] = @ \o Forwarded(p, k)]
  BY DEF ProcessQueue
<1>2. state'[a].crnd = p.crnd /\ state'[a].slots = p.slots
  BY <1>1 DEF MapsOK, PaxosState
<1>3. \A b \in Node \ {a} : state'[b] = state[b] /\ hosts'[b] = hosts[b]
  BY <1>1 DEF MapsOK
<1> QED BY <1>2, <1>3 DEF Stays

LEMMA OnLearnStays ==
  ASSUME NEW a \in Node, NEW p \in PaxosState, NEW b \in Node, NEW r \in Nat, NEW s \in Seqno,
         MapsOK, OnLearn(a, p, b, r, s)
  PROVE  Stays(a, p)
<1> DEFINE q == GetSlot(p, s)
           sl == AddLearn(q.slots[s], b, r)
           t == [q EXCEPT !.slots[s] = AddLearn(@, b, r)]
<1>1. q \in PaxosState /\ q.slots = p.slots /\ q.crnd = p.crnd
  BY DEF GetSlot, PaxosState
<1>2. CASE CountsLearn(q.slots[s], b, r)
  <2>1. q.slots[s] \in Slot
    BY <1>1 DEF PaxosState
  <2> HIDE DEF q
  <2>2. sl \in Slot /\ sl.vrnd = q.slots[s].vrnd /\ sl.vval = q.slots[s].vval
    BY <2>1 DEF AddLearn, Slot
  <2>3. t = [q EXCEPT !.slots = [q.slots EXCEPT ![s] = sl]]
    BY <1>1 DEF PaxosState
  <2> HIDE DEF sl
  <2>4. t \in PaxosState /\ t.crnd = q.crnd /\ t.slots = [q.slots EXCEPT ![s] = sl]
    BY <1>1, <2>2, <2>3 DEF PaxosState
  <2>5. \A u \in Seqno : t.slots[u].vrnd = q.slots[u].vrnd /\ t.slots[u].vval = q.slots[u].vval
    BY <1>1, <2>2, <2>4 DEF PaxosState
  <2>6. ProcessQueue(a, t, r)
    BY <1>2 DEF OnLearn, q
  <2> HIDE DEF t
  <2>7. Stays(a, t)
    BY <2>4, <2>6, ProcessQueueStays
  <2> QED BY <1>1, <2>4, <2>5, <2>7 DEF Stays
<1>3. CASE ~CountsLearn(q.slots[s], b, r)
  <2>1. Stays(a, q)
    BY <1>3, SetStateStays DEF OnLearn
  <2> QED BY <1>1, <2>1 DEF Stays
<1> QED BY <1>2, <1>3

LEMMA OnAcceptStays ==
  ASSUME NEW a \in Node, NEW p \in PaxosState, NEW n \in Nat, NEW s \in Seqno,
         NEW v \in Packet, NEW sent, MapsOK, OnAccept(a, p, n, s, v, sent)
  PROVE  Stays(a, IF Accepts(p, n, s) THEN Store(p, n, s, v) ELSE p)
<1>1. CASE Accepts(p, n, s)
  <2>1. OnLearn(a, Store(p, n, s, v), a, n, s) /\ Store(p, n, s, v) \in PaxosState
    BY <1>1, StoreShape DEF OnAccept
  <2> QED BY <1>1, <2>1, OnLearnStays
<1>2. CASE ~Accepts(p, n, s)
  <2>1. Stays(a, GetSlot(p, s))
    BY <1>2, SetStateStays DEF OnAccept
  <2>2. GetSlot(p, s).slots = p.slots /\ GetSlot(p, s).crnd = p.crnd
    BY DEF GetSlot, PaxosState
  <2> QED BY <1>2, <2>1, <2>2 DEF Stays
<1> QED BY <1>1, <1>2

\* The leader has a round, and a value wherever it has voted.
LeaderOK ==
  /\ state[Leader].crnd > 0
  /\ \A s \in Seqno : state[Leader].slots[s].vrnd # 0 => state[Leader].slots[s].vval # NoPacket

\* So it answers its ACCEPT of a new number.
LEMMA LeaderAccepts ==
  ASSUME IInv, LeaderOK, NextSeqno \in Seqno
  PROVE  Accepts(state[Leader], state[Leader].crnd, NextSeqno)
<1> DEFINE p == state[Leader]
           s == NextSeqno
<1>1. p \in PaxosState /\ StoredOK(p, submitted) /\ Len(submitted) = s
  BY NodeAssumption DEF IInv, NodeOK, TypeOK, NextSeqno
<1>2. p.slots[s].vval = NoPacket
  BY <1>1 DEF StoredOK
<1>3. p.slots[s].vrnd = 0
  BY <1>2 DEF LeaderOK
<1>4. p.crnd > 0 /\ p.crnd \in Nat
  BY <1>1 DEF LeaderOK, PaxosState
<1> HIDE DEF p, s
<1>5. Accepts(p, p.crnd, s)
  BY <1>3, <1>4 DEF Accepts
<1> QED BY <1>5 DEF p, s

LEMMA StoreVotes ==
  ASSUME NEW p \in PaxosState, NEW n \in Nat, NEW s \in Seqno, NEW v \in Packet
  PROVE  /\ Store(p, n, s, v).crnd = n
         /\ \A t \in Seqno : LET q == Store(p, n, s, v)
                             IN  IF t = s THEN q.slots[t].vval = v
                                 ELSE q.slots[t].vval = p.slots[t].vval /\ q.slots[t].vrnd = p.slots[t].vrnd
  BY DEF Store, GetSlot, PaxosState, Slot

LEMMA LeaderStays ==
  ASSUME NEW p, p.crnd > 0, \A s \in Seqno : p.slots[s].vrnd # 0 => p.slots[s].vval # NoPacket,
         Stays(Leader, p)
  PROVE  LeaderOK'
  BY DEF Stays, LeaderOK

LEMMA LeaderNext ==
  ASSUME IInv, LeaderOK, [Next]_vars
  PROVE  LeaderOK'
<1> DEFINE p == state[Leader]
<1>0. /\ OthersOK /\ MapsOK /\ Leader \in Node /\ p \in PaxosState /\ p.crnd \in Nat
      /\ \A a \in Node : state[a] \in PaxosState
  BY IInvParts, NodeAssumption DEF NodeOK, PaxosState
<1>1. ASSUME state'[Leader] = p PROVE LeaderOK'
  BY <1>1 DEF LeaderOK
<1>2. ASSUME NEW a \in Node \ {Leader}, NEW q, Stays(a, q) PROVE LeaderOK'
  BY <1>0, <1>1, <1>2 DEF Stays
<1>3. CASE PickNext
  <2>1. state'[Leader].crnd = p.crnd + Cardinality(Node) /\ state'[Leader].slots = p.slots
    BY <1>0, <1>3 DEF PickNext, MapsOK, PaxosState
  <2> QED BY <1>0, <2>1, NodeFacts DEF LeaderOK
<1>4. ASSUME NEW v \in Packet, OnClient(v) PROVE LeaderOK'
  <2> DEFINE s == NextSeqno
             q == Store(p, p.crnd, s, v)
  <2>1. s \in Seqno /\ OnAccept(Leader, p, p.crnd, s, v, {Accept(p.crnd, s, v)})
    BY <1>4, ClientFacts
  <2>2. Accepts(p, p.crnd, s)
    BY <2>1, LeaderAccepts
  <2>3. Stays(Leader, q)
    BY <1>0, <2>1, <2>2, OnAcceptStays
  <2>4. q.crnd = p.crnd
    BY <1>0, <2>1, StoreVotes
  <2>5. \A t \in Seqno : q.slots[t].vrnd # 0 => q.slots[t].vval # NoPacket
    <3>1. \A t \in Seqno : IF t = s THEN q.slots[t].vval = v
                           ELSE q.slots[t].vval = p.slots[t].vval /\ q.slots[t].vrnd = p.slots[t].vrnd
      BY <1>0, <2>1, StoreVotes
    <3> HIDE DEF q, s
    <3> QED BY <3>1, PacketAssumption DEF LeaderOK
  <2> HIDE DEF q
  <2> QED BY <2>3, <2>4, <2>5, LeaderStays DEF LeaderOK
<1>5. ASSUME NEW a \in Node, NEW m \in msgs, ReceiveAccept(a, m) PROVE LeaderOK'
  <2>1. m.n \in Nat /\ m.seqno \in Seqno /\ m.v \in Packet
    BY <1>0, <1>5, MsgTypes DEF ReceiveAccept
  <2>2. a # Leader /\ OnAccept(a, state[a], m.n, m.seqno, m.v, {})
    BY <1>5 DEF ReceiveAccept
  <2>3. Stays(a, IF Accepts(state[a], m.n, m.seqno) THEN Store(state[a], m.n, m.seqno, m.v) ELSE state[a])
    BY <1>0, <2>1, <2>2, OnAcceptStays
  <2> QED BY <1>2, <2>2, <2>3
<1>6. ASSUME NEW a \in Node, NEW m \in msgs, ReceiveLearn(a, m) PROVE LeaderOK'
  <2>1. m.n \in Nat /\ m.seqno \in Seqno /\ m.src \in Node
    BY <1>0, <1>6, MsgTypes DEF ReceiveLearn
  <2>2. OnLearn(a, state[a], m.src, m.n, m.seqno)
    BY <1>6 DEF ReceiveLearn
  <2>3. Stays(a, state[a])
    BY <1>0, <2>1, <2>2, OnLearnStays
  <2> QED BY <1>2, <2>3, LeaderStays DEF LeaderOK
<1>7. ASSUME NEW a \in Node, Pump(a) PROVE LeaderOK'
  <2>1. Stays(a, state[a])
    BY <1>0, <1>7, ProcessQueueStays DEF Pump
  <2> QED BY <1>2, <2>1, LeaderStays DEF LeaderOK
<1>8. ASSUME NEW a \in Node, GarbageCollect(a) PROVE LeaderOK'
  <2>1. Stays(a, Evict(state[a]))
    BY <1>0, <1>8, SetStateStays DEF GarbageCollect
  <2>2. \A s \in Seqno : Evict(p).slots[s] = p.slots[s] \/ Evict(p).slots[s] = NewSlot
    BY <1>0 DEF Evict, PaxosState
  <2>3. Evict(p).crnd = p.crnd /\ NewSlot.vrnd = 0
    BY <1>0 DEF Evict, PaxosState, NewSlot
  <2> QED BY <1>2, <2>1, <2>2, <2>3, LeaderStays DEF LeaderOK
<1>9. CASE \/ MakeLeader \/ UNCHANGED vars
           \/ \E a \in Node : Join(a) \/ StartPump(a) \/ HostsChange(a)
  BY <1>1, <1>9 DEF MakeLeader, vars, Join, StartPump, HostsChange
<1> QED BY <1>3, <1>4, <1>5, <1>6, <1>7, <1>8, <1>9 DEF Next

\* What is true whenever the chain runs, orderly or not.
Running == IInv /\ LeaderOK /\ SentOnly(link, msgs)

LEMMA InitRunning == ChainInit => Running
<1> SUFFICES ASSUME ChainInit PROVE Running
  OBVIOUS
<1>1. IInv
  BY InitIInv DEF ChainInit
<1>2. LeaderOK
  BY RoundFacts, NodeAssumption DEF ChainInit, Init, LeaderOK, NewSlot
<1>3. SentOnly(link, msgs)
  <2>1. <<>> \in Seq(Frame) /\ Len(<<>>) = 0
    BY EmptySeq
  <2> QED BY <2>1 DEF ChainInit, SentOnly, LinkType
<1> QED BY <1>1, <1>2, <1>3 DEF Running

\* A step of the chain is one of PaxosController.
LEMMA ChainStep ==
  ASSUME Running, [ChainNext]_chainVars
  PROVE  [Next]_vars
<1>1. ASSUME NEW v \in Packet, ClientSends(v) PROVE [Next]_vars
  BY <1>1 DEF ClientSends, Next
<1>2. ASSUME NEW e \in Link, Deliver(e) PROVE [Next]_vars
  <2> DEFINE m == Head(link[e]).msg
  <2>1. CASE Relay(e) \/ UNCHANGED vars
    BY <2>1 DEF Relay
  <2>2. CASE Dispatch(e) /\ ~(UNCHANGED vars)
    <3>1. m \in msgs /\ e[2] \in Node
      BY <2>2, PopSent, LinkFacts DEF Dispatch, Running
    <3>2. ReceiveAccept(e[2], m) \/ ReceiveLearn(e[2], m)
      BY <2>2 DEF Dispatch, OnAcceptFrame, OnLearnFrame
    <3> QED BY <3>1, <3>2 DEF Next
  <2> QED BY <1>2, <2>1, <2>2 DEF Deliver
<1>3. ASSUME NEW a \in Node, Start(a) \/ Background(a) \/ LearnHosts(a) PROVE [Next]_vars
  BY <1>3 DEF Start, Background, LearnHosts, Next
<1>4. CASE UNCHANGED chainVars
  BY <1>4 DEF chainVars
<1> QED BY <1>1, <1>2, <1>3, <1>4 DEF ChainNext

LEMMA NextRunning ==
  ASSUME Running, [ChainNext]_chainVars
  PROVE  Running'
<1>0. IInv /\ LeaderOK /\ SentOnly(link, msgs) /\ Leader \in Node /\ OthersOK
  BY NodeAssumption, IInvParts DEF Running
<1>1. [Next]_vars
  BY ChainStep
<1>2. IInv' /\ LeaderOK'
  BY <1>0, <1>1, NextIInv, LeaderNext
<1>3. ASSUME NEW ns, msgs \subseteq ns, NEW l, SentOnly(l, msgs) PROVE SentOnly(l, ns)
  BY <1>3 DEF SentOnly
<1>4. ASSUME NEW v \in Packet, ClientSends(v) PROVE SentOnly(link', msgs')
  <2> DEFINE s == NextSeqno
             n == state[Leader].crnd
             x == Accept(n, s, v)
             y == Learn(Leader, n, s)
             fs == ToOthers(Leader, x) \o ToOthers(Leader, y)
  <2>1. OnClient(v) /\ link' = Push(link, Leader, fs)
    BY <1>4 DEF ClientSends
  <2>2. /\ s \in Seqno /\ x \in AcceptMsg /\ y \in LearnMsg /\ msgs \subseteq msgs' /\ x \in msgs'
        /\ OnAccept(Leader, state[Leader], n, s, v, {x})
    BY <1>0, <2>1, ClientFacts
  <2>3. y \in msgs'
    BY <1>0, <2>2, LeaderAccepts, OnAcceptSends
  <2> HIDE DEF x, y, n, s
  <2>4. fs \in Seq(Frame) /\ \A k \in 1..Len(fs) : fs[k].msg \in msgs'
    <3> DEFINE f == ToOthers(Leader, x)
               g == ToOthers(Leader, y)
    <3>1. f \in Seq(Frame) /\ \A k \in 1..Len(f) : f[k].msg = x
      BY <1>0, <2>2, ToOthersFacts
    <3>2. g \in Seq(Frame) /\ \A k \in 1..Len(g) : g[k].msg = y
      BY <1>0, <2>2, ToOthersFacts
    <3> HIDE DEF f, g
    <3>3. Len(f) \in Nat /\ Len(g) \in Nat
      BY <3>1, <3>2, LenProperties
    <3>4. /\ f \o g \in Seq(Frame) /\ Len(f \o g) = Len(f) + Len(g)
          /\ \A i \in 1..Len(f) + Len(g) : (f \o g)[i] = IF i <= Len(f) THEN f[i] ELSE g[i - Len(f)]
      BY <3>1, <3>2, ConcatProperties
    <3>5. ASSUME NEW k \in 1..Len(f \o g) PROVE (f \o g)[k].msg \in {x, y}
      <4>1. CASE k <= Len(f)
        BY <3>1, <3>3, <3>4, <4>1
      <4>2. CASE k > Len(f)
        <5>1. k - Len(f) \in 1..Len(g) /\ (f \o g)[k] = g[k - Len(f)]
          BY <3>3, <3>4, <4>2
        <5> QED BY <3>2, <5>1
      <4> QED BY <3>3, <3>4, <4>1, <4>2
    <3>6. f \o g = fs
      BY DEF f, g
    <3> HIDE DEF fs
    <3> QED BY <2>2, <2>3, <3>4, <3>5, <3>6
  <2> HIDE DEF fs
  <2> QED BY <1>0, <1>3, <2>1, <2>2, <2>4, PushSent
<1>5. ASSUME NEW e \in Link, Deliver(e) PROVE SentOnly(link', msgs')
  <2> DEFINE m == Head(link[e]).msg
             a == e[2]
  <2>0. /\ link[e] # <<>> /\ a \in Node /\ Pop(e) = Popped(link, e) /\ SentOnly(Pop(e), msgs)
        /\ m \in msgs /\ Head(link[e]) \in Frame
    <3>1. link[e] # <<>> /\ a \in Node
      BY <1>5, LinkFacts DEF Deliver, Relay, Dispatch
    <3>2. Pop(e) = Popped(link, e)
      BY DEF Pop, Popped
    <3> QED BY <1>0, <3>1, <3>2, PopSent
  <2>1. CASE Relay(e)
    <3> DEFINE fs == <<Head(link[e])>>
    <3>1. link' = Push(Pop(e), a, fs) /\ msgs' = msgs
      BY <2>1 DEF Relay, vars
    <3>2. fs \in Seq(Frame) /\ \A k \in 1..Len(fs) : fs[k].msg \in msgs
      BY <2>0
    <3> HIDE DEF fs
    <3> QED BY <2>0, <3>1, <3>2, PushSent
  <2>2. CASE link' = Pop(e) /\ msgs' = msgs
    BY <2>0, <2>2
  <2>3. CASE OnAcceptFrame(e)
    <3>1. OnAccept(a, state[a], m.n, m.seqno, m.v, {}) /\ m.type = "ACCEPT"
      BY <2>3 DEF OnAcceptFrame, ReceiveAccept
    <3>2. msgs \subseteq msgs' /\ (Accepts(state[a], m.n, m.seqno) => Learn(a, m.n, m.seqno) \in msgs')
      BY <3>1, OnAcceptSends
    <3>3. SentOnly(Pop(e), msgs')
      BY <1>3, <2>0, <3>2
    <3>4. CASE Accepts(state[a], m.n, m.seqno)
      <4>1. link' = Push(Pop(e), a, ToOthers(a, Learn(a, m.n, m.seqno)))
        BY <2>3, <3>4 DEF OnAcceptFrame
      <4>2. Learn(a, m.n, m.seqno) \in LearnMsg
        <5>1. m.n \in Nat /\ m.seqno \in Seqno
          BY <1>0, <2>0, <3>1, MsgTypes
        <5> HIDE DEF m, a
        <5> QED BY <2>0, <5>1 DEF Learn, LearnMsg
      <4> HIDE DEF m, a
      <4> QED BY <2>0, <3>2, <3>3, <3>4, <4>1, <4>2, ToOthersSent
    <3>5. CASE ~Accepts(state[a], m.n, m.seqno)
      <4> DEFINE fs == <<>>
      <4>1. link' = Push(Pop(e), a, fs)
        BY <2>3, <3>5 DEF OnAcceptFrame
      <4>2. fs \in Seq(Frame) /\ \A k \in 1..Len(fs) : fs[k].msg \in msgs'
        BY EmptySeq
      <4> HIDE DEF m, a, fs
      <4> QED BY <2>0, <3>3, <4>1, <4>2, PushSent
    <3> QED BY <3>4, <3>5
  <2>4. OnLearnFrame(e) => link' = Pop(e) /\ msgs' = msgs
    BY DEF OnLearnFrame, ReceiveLearn
  <2>5. Dispatch(e) => \/ OnAcceptFrame(e) \/ OnLearnFrame(e)
                       \/ link' = Pop(e) /\ msgs' = msgs
    BY DEF Dispatch, vars
  <2> QED BY <1>5, <2>1, <2>2, <2>3, <2>4, <2>5 DEF Deliver
<1>6. ASSUME NEW a \in Node, Start(a) \/ Background(a) \/ LearnHosts(a)
      PROVE  SentOnly(link', msgs')
  <2>1. link' = link /\ msgs' = msgs
    BY <1>6 DEF Start, Background, LearnHosts, Join, StartPump, MakeLeader, PickNext, Pump,
                GarbageCollect, HostsChange
  <2> QED BY <1>0, <2>1
<1>7. ASSUME UNCHANGED chainVars PROVE SentOnly(link', msgs')
  <2>1. link' = link /\ msgs' = msgs
    BY <1>7 DEF chainVars, vars
  <2> QED BY <1>0, <2>1
<1>8. SentOnly(link', msgs')
  BY <1>4, <1>5, <1>6, <1>7 DEF ChainNext
<1> QED BY <1>2, <1>8 DEF Running

\* Whatever the chain does, PaxosController does: what is proved of the
\* controllers holds of the line of switches, whether clients wait or not.
THEOREM ChainRuns == ChainSpec => Spec
<1>1. Running /\ [ChainNext]_chainVars => [Next]_vars
  BY ChainStep
<1>2. Running /\ [ChainNext]_chainVars => Running'
  BY NextRunning
<1>3. ChainInit => Init
  BY DEF ChainInit
<1> QED BY <1>1, <1>2, <1>3, InitRunning, PTL DEF ChainSpec, Spec

-----------------------------------------------------------------------------
(* Orderly, at most four switches never forward an empty frame *)

\* The leader's ACCEPTs all have this round, once all have started.
LeaderRound ==
  state[Leader].crnd = IF stage[Leader] \in {"pump", "gc"} THEN FirstRound ELSE NodeId[Leader]

\* What each node has been told, and its hosts have been sent.
AllTold ==
  \A a \in Node : ToldOK(a, state[a], UnderWay(link, a), Len(submitted)) /\ Full(hosts[a])

ChainInv ==
  /\ Running
  /\ NetworkOK(link, msgs)
  /\ submitted # <<>> => AllStarted
  /\ LeaderRound
  /\ AllTold

LEMMA ChainInvFacts ==
  ASSUME ChainInv
  PROVE  /\ IInv /\ MapsOK /\ OthersOK /\ SentOnly(link, msgs) /\ NetworkOK(link, msgs)
         /\ Leader \in Node /\ Len(submitted) \in Nat /\ FramesOK(msgs, submitted)
         /\ \A a \in Node :
              /\ NodeOK(state[a], hosts[a], msgs, submitted)
              /\ state[a] \in PaxosState /\ state[a].crnd \in Nat
              /\ ToldOK(a, state[a], UnderWay(link, a), Len(submitted))
              /\ Full(hosts[a])
<1>1. IInv /\ SentOnly(link, msgs) /\ NetworkOK(link, msgs) /\ AllTold /\ Leader \in Node
  BY NodeAssumption DEF ChainInv, Running
<1>2. MapsOK /\ OthersOK /\ \A a \in Node : NodeOK(state[a], hosts[a], msgs, submitted)
  BY <1>1, IInvParts
<1>3. Len(submitted) \in Nat /\ FramesOK(msgs, submitted)
  BY <1>2 DEF OthersOK
<1>4. \A a \in Node : state[a] \in PaxosState /\ state[a].crnd \in Nat
  BY <1>2 DEF MapsOK, PaxosState
<1> QED BY <1>1, <1>2, <1>3, <1>4 DEF AllTold

LEMMA InitChainInv ==
  ASSUME Orderly, ChainInit
  PROVE  ChainInv
<1>1. Running /\ IInv
  BY InitRunning DEF Running
<1>2. \A e \in Link : link[e] = <<>> /\ Len(link[e]) = 0
  BY EmptySeq DEF ChainInit
<1>3. NetworkOK(link, msgs)
  <2>1. link \in LinkType
    BY <1>1 DEF Running, SentOnly
  <2> QED BY <1>2, <2>1 DEF NetworkOK, FramesSent, AcceptsFirst
<1>4. submitted = <<>> /\ Len(submitted) = 0
  BY EmptySeq DEF ChainInit, Init
<1>5. LeaderRound
  BY NodeAssumption DEF ChainInit, Init, LeaderRound
<1>6. ASSUME NEW a \in Node
      PROVE  ToldOK(a, state[a], UnderWay(link, a), Len(submitted)) /\ Full(hosts[a])
  <2>1. state[a].crnd = NodeId[a] /\ state[a].crnd <= FirstRound
    BY DEF Orderly, ChainInit, Init
  <2>2. \A s \in Seqno : state[a].slots[s].vrnd = 0 /\ state[a].slots[s].learns = {} /\ ~(s < 0)
    BY MaxSeqnoAssumption DEF ChainInit, Init, NewSlot
  <2>3. ToldOK(a, state[a], UnderWay(link, a), Len(submitted))
    BY <1>4, <2>1, <2>2 DEF ToldOK
  <2>4. hosts[a] = <<>> /\ Len(hosts[a]) = 0
    BY EmptySeq DEF ChainInit, Init
  <2> QED BY <2>3, <2>4 DEF Full
<1> QED BY <1>1, <1>3, <1>4, <1>5, <1>6 DEF ChainInv, AllTold

\* No ACCEPT is sent to the leader.
LEMMA LeaderUntold ==
  ASSUME NEW l, NEW ms, NetworkOK(l, ms)
  PROVE  UnderWay(l, Leader) = {}
  BY DEF NetworkOK, FramesSent, FrameOK, UnderWay

\* The ACCEPTs of numbers below n that b waited for, b still waits for.
StillTold(b) ==
  \A t \in Seqno : t < Len(submitted') /\ (t < Len(submitted) => t \in UnderWay(link, b))
                     => t \in UnderWay(link', b)

\* A step in which controller a is told, and the others are as they were.
LEMMA StepAllTold ==
  ASSUME ChainInv, NEW a \in Node, StepTold(a, UnderWay(link', a), Len(submitted')),
         \A b \in Node \ {a} : state'[b] = state[b] /\ hosts'[b] = hosts[b] /\ StillTold(b)
  PROVE  AllTold'
<1> SUFFICES ASSUME NEW b \in Node
             PROVE  /\ ToldOK(b, state'[b], UnderWay(link', b), Len(submitted'))
                    /\ Full(hosts'[b])
  BY DEF AllTold
<1>1. CASE b = a
  BY <1>1 DEF StepTold
<1>2. CASE b # a
  <2>1. ToldOK(b, state[b], UnderWay(link, b), Len(submitted)) /\ Full(hosts[b])
    BY ChainInvFacts
  <2>2. ToldOK(b, state[b], UnderWay(link', b), Len(submitted'))
    BY <1>2, <2>1, ToldGrows DEF StillTold
  <2> QED BY <1>2, <2>1, <2>2
<1> QED BY <1>1, <1>2

\* Once all have started, the rest of the invariant is a matter of the leader's round.
LEMMA StartedStep ==
  ASSUME ChainInv, AllStarted, stage' \in [Node -> Stage],
         \A a \in Node : stage'[a] = stage[a] \/ stage'[a] \in {"pump", "gc"},
         state'[Leader].crnd = state[Leader].crnd
  PROVE  AllStarted' /\ LeaderRound'
<1>1. AllStarted'
  BY DEF AllStarted
<1> QED BY <1>1, NodeAssumption DEF AllStarted, LeaderRound, ChainInv

LEMMA ClientStep ==
  ASSUME Orderly, Few, ChainInv, IInv', NEW v \in Packet, ClientSends(v)
  PROVE  NetworkOK(link', msgs') /\ AllStarted' /\ LeaderRound' /\ AllTold'
<1> DEFINE s == NextSeqno
           p == state[Leader]
           x == Accept(FirstRound, s, v)
           y == Learn(Leader, FirstRound, s)
           fs == ToOthers(Leader, x) \o ToOthers(Leader, y)
<1>0. /\ IInv /\ MapsOK /\ NetworkOK(link, msgs) /\ Leader \in Node /\ p \in PaxosState
      /\ Len(submitted) \in Nat /\ FramesOK(msgs, submitted) /\ LeaderOK
      /\ NodeOK(p, hosts[Leader], msgs, submitted)
      /\ ToldOK(Leader, p, UnderWay(link, Leader), Len(submitted)) /\ Full(hosts[Leader])
  BY ChainInvFacts DEF ChainInv, Running
<1>1. OnClient(v) /\ AllStarted
  BY DEF ClientSends, Orderly
<1>2. p.crnd = FirstRound /\ FirstRound \in Nat
  BY <1>0, <1>1, RoundFacts DEF AllStarted, ChainInv, LeaderRound
<1>3. /\ s \in Seqno /\ s = Len(submitted)
      /\ submitted' = Append(submitted, v) /\ submitted \in Seq(Packet)
      /\ msgs \subseteq msgs' /\ x \in msgs' /\ OnAccept(Leader, p, FirstRound, s, v, {x})
  BY <1>0, <1>1, <1>2, ClientFacts
<1>4. y \in msgs'
  <2>1. Accepts(p, FirstRound, s)
    BY <1>0, <1>2, <1>3, LeaderAccepts
  <2> QED BY <1>3, <2>1, OnAcceptSends
<1>5. link' = Push(link, Leader, fs)
  BY <1>2 DEF ClientSends
<1>6. \A m \in msgs : m.seqno # s
  BY <1>0, <1>3 DEF FramesOK
<1>7. ASSUME NEW b \in Node
      PROVE  /\ NetworkOK(link', msgs') /\ UnderWay(link, b) \subseteq UnderWay(link', b)
             /\ b # Leader => s \in UnderWay(link', b)
  <2> HIDE DEF s
  <2> QED BY <1>0, <1>3, <1>4, <1>5, <1>6, ClientSendsOK
<1>8. NetworkOK(link', msgs')
  BY <1>0, <1>7
<1>9. /\ Len(submitted') = s + 1 /\ submitted'[s + 1] = v
      /\ \A i \in 1..Len(submitted) : submitted'[i] = submitted[i]
  BY <1>3
<1> HIDE DEF s, x, y, fs
<1>10. Stays(Leader, Store(p, FirstRound, s, v))
  <2>1. Accepts(p, FirstRound, s)
    BY <1>0, <1>2, <1>3, LeaderAccepts DEF s
  <2> QED BY <1>0, <1>2, <1>3, <2>1, OnAcceptStays
<1>11. AllStarted' /\ LeaderRound'
  <2>1. stage' = stage /\ stage \in [Node -> Stage]
    BY <1>0, <1>1 DEF OnClient, IInv, TypeOK
  <2>2. state'[Leader].crnd = FirstRound
    BY <1>0, <1>2, <1>3, <1>10, StoreVotes DEF Stays
  <2> QED BY <1>1, <1>2, <2>1, <2>2, StartedStep
<1>12. StepTold(Leader, UnderWay(link', Leader), Len(submitted'))
  <2>1. UnderWay(link', Leader) = {} /\ UnderWay(link, Leader) = {}
    BY <1>0, <1>8, LeaderUntold
  <2>2. NodeOK(p, hosts[Leader], msgs, submitted')
    <3>1. Len(submitted') \in Nat /\ Len(submitted) <= Len(submitted') /\ msgs \subseteq msgs
      BY <1>0, <1>3, <1>9
    <3> QED BY <1>0, <1>9, <3>1, NodeOKGrows
  <2>3. FramesOK(msgs', submitted') /\ Len(submitted') \in Nat /\ s < Len(submitted')
    BY <1>3, <1>9, MaxSeqnoAssumption DEF IInv
  <2>4. \A t \in Seqno \ {s} :
          t < Len(submitted') /\ (t < Len(submitted) => t \in {}) => t \in {}
    BY <1>3, <1>9, MaxSeqnoAssumption
  <2> QED BY <1>0, <1>3, <1>9, <2>1, <2>2, <2>3, <2>4, OnAcceptTold
<1>13. \A b \in Node \ {Leader} : StillTold(b)
  <2> SUFFICES ASSUME NEW b \in Node \ {Leader}, NEW t \in Seqno, t < Len(submitted'),
                      t < Len(submitted) => t \in UnderWay(link, b)
               PROVE  t \in UnderWay(link', b)
    BY DEF StillTold
  <2>1. CASE t = s
    BY <1>7, <2>1
  <2>2. CASE t # s
    <3>1. t < Len(submitted)
      BY <1>3, <1>9, <2>2, MaxSeqnoAssumption
    <3> QED BY <1>7, <3>1
  <2> QED BY <2>1, <2>2
<1> QED BY <1>0, <1>8, <1>10, <1>11, <1>12, <1>13, StepAllTold DEF Stays

\* What is under way has been sent after all have started.
LEMMA DeliverFacts ==
  ASSUME ChainInv, NEW e \in Link, link[e] # <<>>
  PROVE  /\ AllStarted /\ Joined(e[2]) /\ e[2] \in Node
         /\ Pop(e) = Popped(link, e) /\ NetworkOK(Pop(e), msgs)
<1>1. e[2] \in Node /\ Pop(e) = Popped(link, e)
  BY LinkFacts DEF Pop, Popped
<1>2. AllStarted
  <2>1. Head(link[e]).msg.seqno \in Seqno /\ Head(link[e]).msg.seqno < Len(submitted)
    BY ChainInvFacts, HeadFacts
  <2>2. submitted # <<>>
    BY <2>1, EmptySeq, MaxSeqnoAssumption
  <2> QED BY <2>2 DEF ChainInv
<1>3. Joined(e[2])
  BY <1>1, <1>2 DEF AllStarted, Joined
<1> QED BY <1>1, <1>2, <1>3, ChainInvFacts, PopOK

LEMMA RelayStep ==
  ASSUME ChainInv, NEW e \in Link, Relay(e)
  PROVE  NetworkOK(link', msgs') /\ AllStarted' /\ LeaderRound' /\ AllTold'
<1>1. /\ link[e] # <<>> /\ Head(link[e]).dst # e[2] /\ UNCHANGED <<stage, state, submitted, hosts, msgs>>
      /\ link' = Push(Pop(e), e[2], <<Head(link[e])>>)
  BY DEF Relay, vars
<1>2. ASSUME NEW b \in Node
      PROVE  NetworkOK(link', msgs') /\ UnderWay(link, b) \subseteq UnderWay(link', b)
  BY <1>1, ChainInvFacts, DeliverFacts, RelayOK
<1>3. AllStarted' /\ LeaderRound'
  <2>1. stage \in [Node -> Stage]
    BY ChainInvFacts DEF OthersOK
  <2> QED BY <1>1, <2>1, DeliverFacts, StartedStep
<1>4. \A b \in Node : StillTold(b)
  BY <1>1, <1>2 DEF StillTold
<1>5. StepTold(Leader, UnderWay(link', Leader), Len(submitted'))
  <2>1. ToldOK(Leader, state[Leader], UnderWay(link, Leader), Len(submitted)) /\ Full(hosts[Leader])
    BY ChainInvFacts
  <2>2. UnderWay(link', Leader) = UnderWay(link, Leader)
    BY <1>2, ChainInvFacts, LeaderUntold
  <2> QED BY <1>1, <2>1, <2>2 DEF StepTold
<1> QED BY <1>1, <1>2, <1>3, <1>4, <1>5, ChainInvFacts, StepAllTold

LEMMA AcceptStep ==
  ASSUME Few, ChainInv, IInv', NEW e \in Link, link[e] # <<>>, Head(link[e]).dst = e[2],
         OnAcceptFrame(e)
  PROVE  NetworkOK(link', msgs') /\ AllStarted' /\ LeaderRound' /\ AllTold'
<1> DEFINE a == e[2]
           m == Head(link[e]).msg
           p == state[a]
           s == m.seqno
           P == Pop(e)
<1>0. /\ IInv /\ MapsOK /\ OthersOK /\ NetworkOK(link, msgs) /\ link \in LinkType /\ Leader \in Node
      /\ Len(submitted) \in Nat /\ FramesOK(msgs, submitted) /\ SentOnly(link, msgs)
      /\ AllStarted /\ a \in Node /\ P = Popped(link, e) /\ NetworkOK(P, msgs)
  BY ChainInvFacts, DeliverFacts DEF NetworkOK
<1>1. /\ p \in PaxosState /\ NodeOK(p, hosts[a], msgs, submitted)
      /\ ToldOK(a, p, UnderWay(link, a), Len(submitted)) /\ Full(hosts[a])
  BY <1>0, ChainInvFacts
<1>2. /\ a # Leader /\ m.type = "ACCEPT" /\ OnAccept(a, p, m.n, s, m.v, {})
      /\ UNCHANGED <<stage, seqno, known, submitted>>
  BY DEF OnAcceptFrame, ReceiveAccept
<1>3. /\ m \in msgs /\ s \in Seqno /\ s < Len(submitted) /\ m.n \in Nat /\ m.v \in Packet
      /\ m.v = submitted[s + 1]
  BY <1>0, <1>2, HeadFacts
<1>4. m.n = FirstRound
  BY <1>0, <1>2, PopFacts DEF NetworkOK, FramesSent, FrameOK
<1>5. msgs \subseteq msgs' /\ (Accepts(p, m.n, s) => Learn(a, m.n, s) \in msgs')
  BY <1>2, OnAcceptSends
<1>6. link' = Push(P, a, IF Accepts(p, m.n, s) THEN ToOthers(a, Learn(a, m.n, s)) ELSE <<>>)
  BY DEF OnAcceptFrame
<1>7. ASSUME NEW b \in Node
      PROVE  NetworkOK(link', msgs') /\ UnderWay(P, b) \subseteq UnderWay(link', b)
  <2>1. NetworkOK(P, msgs')
    BY <1>0, <1>5, NetworkGrows
  <2>2. CASE Accepts(p, m.n, s)
    <3>1. link' = Push(P, a, ToOthers(a, Learn(a, m.n, s)))
      BY <1>6, <2>2
    <3> HIDE DEF a, m, p, s, P
    <3> QED BY <1>0, <1>2, <1>3, <1>5, <2>1, <2>2, <3>1, AnswerOK
  <2>3. CASE ~Accepts(p, m.n, s)
    <3> DEFINE fs == <<>>
    <3>1. link' = Push(P, a, fs)
      BY <1>6, <2>3
    <3>2. fs \in Seq(Frame) /\ \A k \in 1..Len(fs) : FALSE
      BY EmptySeq
    <3> HIDE DEF a, m, p, s, P, fs
    <3>3. NetworkOK(Push(P, a, fs), msgs')
      BY <1>0, <2>1, <3>2, PushOK
    <3>4. UnderWay(P, b) \subseteq UnderWay(Push(P, a, fs), b)
      BY <1>0, <2>1, <3>2, PushUnderWay DEF NetworkOK
    <3> QED BY <3>1, <3>3, <3>4
  <2> QED BY <2>2, <2>3
<1>8. ASSUME NEW b \in Node, NEW t \in UnderWay(link, b), b # a \/ t # s
      PROVE  t \in UnderWay(link', b)
  <2>1. t \in UnderWay(P, b)
    BY <1>0, <1>8, PopUnderWay
  <2> QED BY <1>7, <2>1
<1> HIDE DEF a, m, p, s, P
<1>9. Stays(a, IF Accepts(p, m.n, s) THEN Store(p, m.n, s, m.v) ELSE p)
  BY <1>0, <1>1, <1>2, <1>3, OnAcceptStays
<1>10. AllStarted' /\ LeaderRound'
  <2>1. stage' = stage /\ stage \in [Node -> Stage] /\ state'[Leader] = state[Leader]
    BY <1>0, <1>2, <1>9 DEF OthersOK, Stays
  <2> QED BY <1>0, <2>1, StartedStep
<1>11. StepTold(a, UnderWay(link', a), Len(submitted'))
  <2>1. FramesOK(msgs', submitted)
    BY <1>2 DEF IInv
  <2>2. OnAccept(a, p, FirstRound, s, m.v, {})
    BY <1>2, <1>4
  <2>3. \A t \in Seqno \ {s} :
          t < Len(submitted) /\ (t < Len(submitted) => t \in UnderWay(link, a)) => t \in UnderWay(link', a)
    BY <1>0, <1>8
  <2>4. StepTold(a, UnderWay(link', a), Len(submitted))
    BY <1>0, <1>1, <1>2, <1>3, <2>1, <2>2, <2>3, OnAcceptTold
  <2> QED BY <1>2, <2>4
<1>12. \A b \in Node \ {a} : StillTold(b)
  BY <1>2, <1>8 DEF StillTold
<1>13. NetworkOK(link', msgs')
  BY <1>0, <1>7
<1> QED BY <1>0, <1>9, <1>10, <1>11, <1>12, <1>13, StepAllTold DEF Stays

LEMMA LearnStep ==
  ASSUME Few, ChainInv, NEW e \in Link, link[e] # <<>>, Head(link[e]).dst = e[2],
         OnLearnFrame(e)
  PROVE  NetworkOK(link', msgs') /\ AllStarted' /\ LeaderRound' /\ AllTold'
<1> DEFINE a == e[2]
           m == Head(link[e]).msg
           p == state[a]
           s == m.seqno
           U == UnderWay(link, a)
<1>0. /\ IInv /\ MapsOK /\ OthersOK /\ NetworkOK(link, msgs) /\ link \in LinkType /\ Leader \in Node
      /\ Len(submitted) \in Nat /\ FramesOK(msgs, submitted) /\ SentOnly(link, msgs)
      /\ AllStarted /\ a \in Node /\ Pop(e) = Popped(link, e) /\ NetworkOK(Pop(e), msgs)
  BY ChainInvFacts, DeliverFacts DEF NetworkOK
<1>1. /\ p \in PaxosState /\ NodeOK(p, hosts[a], msgs, submitted)
      /\ ToldOK(a, p, U, Len(submitted)) /\ Full(hosts[a])
  BY <1>0, ChainInvFacts
<1>2. /\ m.type = "LEARN" /\ m.src # a /\ OnLearn(a, p, m.src, m.n, s)
      /\ UNCHANGED <<stage, seqno, known, msgs, submitted>> /\ link' = Pop(e)
  BY DEF OnLearnFrame, ReceiveLearn
<1>3. /\ s \in Seqno /\ s < Len(submitted) /\ m.n \in Nat
      /\ m.src \in Node /\ Learn(m.src, m.n, s) \in msgs
  BY <1>0, <1>2, HeadFacts
<1>4. NetworkOK(link', msgs')
  BY <1>0, <1>2
<1>5. m.src = Leader => s \notin U
  BY <1>0, <1>2, LearnArrives
<1>6. ASSUME NEW b \in Node PROVE UnderWay(link, b) \subseteq UnderWay(link', b)
  BY <1>0, <1>2, PopUnderWay
<1> HIDE DEF a, m, p, s
<1>7. Stays(a, p)
  BY <1>0, <1>1, <1>2, <1>3, OnLearnStays
<1>8. AllStarted' /\ LeaderRound'
  <2>1. stage' = stage /\ stage \in [Node -> Stage] /\ state'[Leader].crnd = state[Leader].crnd
    BY <1>0, <1>2, <1>7 DEF OthersOK, Stays, p
  <2> QED BY <1>0, <2>1, StartedStep
<1>9. m.src \in {a, Leader} => p.slots[s].vval # NoPacket \/ s < p.cseq
  <2> SUFFICES ASSUME m.src = Leader, ~(s < p.cseq), p.slots[s].vval = NoPacket PROVE FALSE
    BY <1>2
  <2>1. p.cseq <= s
    BY <1>1, <1>3, MaxSeqnoAssumption DEF PaxosState
  <2>2. s \in U
    BY <1>1, <1>3, <2>1 DEF ToldOK
  <2> QED BY <1>5, <2>2
<1>10. a = Leader => U = {}
  BY <1>0, LeaderUntold
<1>11. StepTold(a, U, Len(submitted))
  <2> HIDE DEF U
  <2> QED BY <1>0, <1>1, <1>2, <1>3, <1>9, <1>10, OnLearnTold
<1>12. StepTold(a, UnderWay(link', a), Len(submitted'))
  <2>1. ToldOK(a, state'[a], UnderWay(link', a), Len(submitted))
    BY <1>0, <1>6, <1>11, ToldGrows DEF StepTold
  <2> QED BY <1>2, <1>11, <2>1 DEF StepTold
<1>13. \A b \in Node : StillTold(b)
  BY <1>2, <1>6 DEF StillTold
<1> QED BY <1>0, <1>4, <1>7, <1>8, <1>12, <1>13, StepAllTold DEF Stays

LEMMA StartStep ==
  ASSUME ChainInv, NEW a \in Node, Start(a)
  PROVE  NetworkOK(link', msgs') /\ (submitted' # <<>> => AllStarted') /\ LeaderRound' /\ AllTold'
<1>0. /\ MapsOK /\ OthersOK /\ NetworkOK(link, msgs) /\ Leader \in Node
      /\ state[Leader] \in PaxosState
      /\ ToldOK(Leader, state[Leader], UnderWay(link, Leader), Len(submitted)) /\ Full(hosts[Leader])
      /\ LeaderRound /\ (submitted # <<>> => AllStarted)
  BY ChainInvFacts DEF ChainInv
<1>1. UNCHANGED <<link, msgs, submitted, hosts>>
  BY DEF Start, Join, StartPump, MakeLeader, PickNext
<1>2. stage[a] \notin {"pump", "gc"} \/ (a = Leader /\ stage[Leader] \notin {"pump", "gc"})
  BY DEF Start, Join, StartPump, MakeLeader, PickNext
<1>3. submitted' # <<>> => AllStarted'
  BY <1>0, <1>1, <1>2 DEF AllStarted
<1>4. CASE PickNext
  <2>1. /\ stage[Leader] = "leading" /\ stage'[Leader] = "pump"
        /\ state'[Leader].crnd = state[Leader].crnd + Cardinality(Node)
        /\ state'[Leader].cseq = state[Leader].cseq /\ state'[Leader].slots = state[Leader].slots
        /\ \A b \in Node \ {Leader} : state'[b] = state[b]
    BY <1>0, <1>4 DEF PickNext, MapsOK, OthersOK, PaxosState
  <2>2. state'[Leader].crnd = FirstRound
    BY <1>0, <2>1 DEF LeaderRound, FirstRound
  <2>3. ToldOK(Leader, state'[Leader], UnderWay(link, Leader), Len(submitted))
    BY <1>0, <2>1, <2>2, RoundFacts DEF ToldOK
  <2>4. \A b \in Node : StillTold(b)
    BY <1>1 DEF StillTold
  <2>5. StepTold(Leader, UnderWay(link', Leader), Len(submitted'))
    BY <1>0, <1>1, <2>3 DEF StepTold
  <2>6. AllTold'
    BY <1>0, <1>1, <2>1, <2>4, <2>5, StepAllTold
  <2> QED BY <1>0, <1>1, <1>3, <2>1, <2>2, <2>6 DEF LeaderRound
<1>5. CASE ~PickNext
  <2>1. state' = state
    BY <1>5 DEF Start, Join, StartPump, MakeLeader
  <2>2. AllTold'
    BY <1>1, <2>1 DEF ChainInv, AllTold
  <2>3. \/ stage'[Leader] = stage[Leader]
        \/ stage[Leader] \notin {"pump", "gc"} /\ stage'[Leader] \notin {"pump", "gc"}
    BY <1>0, <1>5 DEF Start, Join, StartPump, MakeLeader, OthersOK
  <2> QED BY <1>0, <1>1, <1>3, <2>1, <2>2, <2>3 DEF LeaderRound
<1> QED BY <1>4, <1>5

LEMMA BackgroundStep ==
  ASSUME Few, ChainInv, NEW a \in Node, Background(a)
  PROVE  NetworkOK(link', msgs') /\ (submitted' # <<>> => AllStarted') /\ LeaderRound' /\ AllTold'
<1> DEFINE p == state[a]
           U == UnderWay(link, a)
<1>0. /\ MapsOK /\ OthersOK /\ NetworkOK(link, msgs) /\ Leader \in Node
      /\ p \in PaxosState /\ p.crnd \in Nat /\ NodeOK(p, hosts[a], msgs, submitted)
      /\ Len(submitted) \in Nat /\ FramesOK(msgs, submitted)
      /\ ToldOK(a, p, U, Len(submitted)) /\ Full(hosts[a])
      /\ LeaderRound /\ (submitted # <<>> => AllStarted)
  BY ChainInvFacts DEF ChainInv
<1>1. /\ UNCHANGED <<link, msgs, submitted>> /\ stage[a] \in {"pump", "gc"}
      /\ \E x \in {"pump", "gc"} : stage' = [stage EXCEPT ![a] = x]
  BY DEF Background, Pump, GarbageCollect
<1>2. StepTold(a, U, Len(submitted)) /\ \E q : q.crnd = p.crnd /\ Stays(a, q)
  <2>1. CASE Pump(a)
    <3>1. a = Leader => U = {}
      BY <1>0, LeaderUntold
    <3>2. ProcessQueue(a, p, p.crnd)
      BY <2>1 DEF Pump
    <3> HIDE DEF p, U
    <3> QED BY <1>0, <3>1, <3>2, ProcessQueueTold, ProcessQueueStays
  <2>2. CASE GarbageCollect(a)
    <3>1. SetState(a, Evict(p))
      BY <2>2 DEF GarbageCollect
    <3>2. ToldOK(a, Evict(p), U, Len(submitted))
      BY <1>0, EvictTold DEF NodeOK
    <3>3. Evict(p).crnd = p.crnd
      BY <1>0 DEF Evict, PaxosState
    <3> HIDE DEF p, U
    <3> QED BY <1>0, <3>1, <3>2, <3>3, SetStateTold, SetStateStays
  <2> QED BY <2>1, <2>2 DEF Background
<1>3. submitted' # <<>> => AllStarted'
  BY <1>0, <1>1 DEF AllStarted, OthersOK
<1>4. /\ state'[Leader].crnd = state[Leader].crnd
      /\ \A b \in Node \ {a} : state'[b] = state[b] /\ hosts'[b] = hosts[b]
  BY <1>0, <1>2 DEF Stays
<1>5. LeaderRound'
  BY <1>0, <1>1, <1>4 DEF LeaderRound, OthersOK
<1>6. \A b \in Node : StillTold(b)
  BY <1>1 DEF StillTold
<1>7. AllTold'
  BY <1>1, <1>2, <1>4, <1>6, StepAllTold
<1> QED BY <1>0, <1>1, <1>3, <1>5, <1>7

LEMMA NextChainInv ==
  ASSUME Orderly, Few, ChainInv, [ChainNext]_chainVars
  PROVE  ChainInv'
<1>1. Running /\ Running' /\ IInv'
  BY NextRunning DEF ChainInv, Running
<1> DEFINE G == NetworkOK(link', msgs') /\ (submitted' # <<>> => AllStarted') /\ LeaderRound' /\ AllTold'
<1>2. ASSUME NEW v \in Packet, ClientSends(v) PROVE G
  BY <1>1, <1>2, ClientStep
<1>3. ASSUME NEW e \in Link, Deliver(e) PROVE G
  <2>1. CASE Relay(e)
    BY <2>1, RelayStep
  <2>2. CASE Dispatch(e)
    <3>1. link[e] # <<>> /\ Head(link[e]).dst = e[2]
      BY <2>2 DEF Dispatch
    <3>2. Joined(e[2])
      BY <3>1, DeliverFacts
    <3>3. OnAcceptFrame(e) \/ OnLearnFrame(e)
      BY <2>2, <3>2 DEF Dispatch
    <3> QED BY <1>1, <3>1, <3>3, AcceptStep, LearnStep
  <2> QED BY <1>3, <2>1, <2>2 DEF Deliver
<1>4. ASSUME NEW a \in Node, Start(a) \/ Background(a) PROVE G
  BY <1>4, StartStep, BackgroundStep
<1>5. ASSUME UNCHANGED <<stage, state, msgs, submitted, hosts, link>> PROVE G
  BY <1>5 DEF ChainInv, AllStarted, LeaderRound, AllTold
<1>6. ASSUME NEW a \in Node, LearnHosts(a) PROVE G
  BY <1>5, <1>6 DEF LearnHosts, HostsChange
<1>7. ASSUME UNCHANGED chainVars PROVE G
  BY <1>5, <1>7 DEF chainVars, vars
<1>8. G
  BY <1>2, <1>3, <1>4, <1>6, <1>7 DEF ChainNext
<1> QED BY <1>1, <1>8 DEF ChainInv

\* What the hosts of a switch have got is no blank.
LEMMA SentFull ==
  ASSUME NEW a \in Node, hosts[a] \in FrameSeq, Full(hosts[a])
  PROVE  /\ Sent[a] \in Seq(PacketOrNone)
         /\ \A i \in 1..Len(Sent[a]) : Sent[a][i] # NoPacket
<1>1. Sent[a] = Packets(hosts[a])
  BY DEF Sent, Packets
<1> QED BY <1>1, PacketsSeq DEF Full

LEMMA InitExact == Init => Exact!Init
<1> SUFFICES ASSUME Init PROVE Exact!Init
  OBVIOUS
<1>1. Order!Init
  BY InitOrder
<1> QED BY <1>1 DEF Order!Init, Exact!Init

LEMMA NextExact ==
  ASSUME ChainInv, ChainInv', [Next]_vars
  PROVE  [Exact!Next]_<<submitted, Sent>>
<1>0. /\ IInv /\ IInv' /\ \A a \in Node : hosts[a] \in FrameSeq /\ Full(hosts[a])
      /\ \A a \in Node : hosts'[a] \in FrameSeq /\ Full(hosts'[a])
  <2>1. \A a \in Node : hosts[a] \in FrameSeq /\ Full(hosts[a])
    BY ChainInvFacts DEF NodeOK
  <2>2. \A a \in Node : hosts'[a] \in FrameSeq /\ Full(hosts'[a])
    BY DEF ChainInv, Running, IInv, NodeOK, AllTold
  <2> QED BY <2>1, <2>2 DEF ChainInv, Running
<1>1. [Order!Next]_<<submitted, Sent>>
  BY <1>0, NextOrder
<1>2. CASE UNCHANGED <<submitted, Sent>>
  BY <1>2
<1>3. ASSUME Order!Next PROVE Exact!Next
  <2>1. PICK a \in Node : Order!Forward(a)
    BY <1>3 DEF Order!Next
  <2>0. PICK k \in 0..Len(submitted') : \E new \in [1..k -> Packet \cup {NoPacket}] :
          /\ Len(Sent[a]) + k <= Len(submitted')
          /\ \A i \in 1..k : new[i] \in {submitted'[Len(Sent[a]) + i]} \cup {NoPacket}
          /\ Sent' = [Sent EXCEPT ![a] = @ \o new]
    BY <2>1 DEF Order!Forward
  <2>2. PICK new \in [1..k -> Packet \cup {NoPacket}] :
          /\ Len(Sent[a]) + k <= Len(submitted')
          /\ \A i \in 1..k : new[i] \in {submitted'[Len(Sent[a]) + i]} \cup {NoPacket}
          /\ Sent' = [Sent EXCEPT ![a] = @ \o new]
    BY <2>0
  <2>3. k \in Nat /\ Len(Sent[a]) \in Nat /\ Sent[a] \in Seq(PacketOrNone)
    <3>1. Len(submitted') \in Nat
      <4>1. submitted' \in Seq(Packet)
        BY <1>0 DEF IInv, TypeOK
      <4> QED BY <4>1, LenProperties
    <3>2. Sent[a] \in Seq(PacketOrNone)
      BY <1>0, SentFull
    <3> QED BY <3>1, <3>2, LenProperties
  <2>4. \A i \in 1..k : new[i] # NoPacket
    <3>1. Sent'[a] = Sent[a] \o new
      BY <2>2 DEF Sent
    <3>2. \A i \in 1..Len(Sent'[a]) : Sent'[a][i] # NoPacket
      <4>1. Sent'[a] = Packets(hosts'[a])
        BY DEF Sent, Packets
      <4> QED BY <1>0, <4>1, PacketsSeq DEF Full
    <3>3. new \in Seq(PacketOrNone) /\ Len(new) = k
      BY <2>2, <2>3 DEF PacketOrNone
    <3>4. \A i \in 1..k : /\ Len(Sent[a]) + i \in 1..Len(Sent'[a])
                          /\ Sent'[a][Len(Sent[a]) + i] = new[i]
      <4> DEFINE q == Sent[a]
                 r == Sent'[a]
      <4>1. /\ Len(q \o new) = Len(q) + Len(new)
            /\ \A i \in 1..Len(q) + Len(new) :
                 (q \o new)[i] = IF i <= Len(q) THEN q[i] ELSE new[i - Len(q)]
        BY <2>3, <3>3, ConcatProperties
      <4>2. r = q \o new /\ Len(q) \in Nat /\ Len(new) = k /\ k \in Nat
        BY <2>3, <3>1, <3>3
      <4> HIDE DEF q, r
      <4>3. \A i \in 1..k : Len(q) + i \in 1..Len(r) /\ r[Len(q) + i] = new[i]
        <5> SUFFICES ASSUME NEW i \in 1..k PROVE Len(q) + i \in 1..Len(r) /\ r[Len(q) + i] = new[i]
          OBVIOUS
        <5>1. Len(q) + i \in 1..Len(q) + Len(new) /\ ~(Len(q) + i <= Len(q)) /\ (Len(q) + i) - Len(q) = i
          BY <4>2
        <5> QED BY <4>1, <4>2, <5>1
      <4> QED BY <4>3 DEF q, r
    <3> QED BY <3>2, <3>4
  <2>5. new \in [1..k -> Packet \cup {}]
    BY <2>2, <2>4
  <2>6. \A i \in 1..k : new[i] \in {submitted'[Len(Sent[a]) + i]} \cup {}
    BY <2>2, <2>4
  <2>7. Exact!Forward(a)
    BY <2>2, <2>5, <2>6 DEF Exact!Forward
  <2>8. Exact!Submit \/ UNCHANGED submitted
    BY <1>3 DEF Order!Next, Order!Submit, Exact!Submit
  <2> QED BY <2>7, <2>8 DEF Exact!Next
<1> QED BY <1>1, <1>2, <1>3

\* Among at most four switches whose clients wait, every switch sends its
\* hosts the packets themselves, without a gap, in the order of the log.
THEOREM ExactOrder ==
  ASSUME Orderly, Few
  PROVE  ChainSpec => ImplementsExactOrder
<1>1. ChainInit => ChainInv /\ Exact!Init
  BY InitChainInv, InitExact DEF ChainInit
<1>2. ChainInv /\ [ChainNext]_chainVars => ChainInv'
  BY NextChainInv
<1>3. ChainInv /\ ChainInv' /\ [ChainNext]_chainVars => [Exact!Next]_<<submitted, Sent>>
  <2> SUFFICES ASSUME ChainInv, ChainInv', [ChainNext]_chainVars
               PROVE  [Exact!Next]_<<submitted, Sent>>
    OBVIOUS
  <2>1. [Next]_vars
    BY ChainStep DEF ChainInv
  <2> QED BY <2>1, NextExact
<1> QED BY <1>1, <1>2, <1>3, PTL DEF ChainSpec, ImplementsExactOrder, Exact!Spec
=============================================================================
