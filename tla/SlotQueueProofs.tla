--------------------------- MODULE SlotQueueProofs ---------------------------
(* Proofs about SlotQueue, for any number of nodes, packets and slots. *)
EXTENDS SlotQueue, FiniteSetTheorems, SequenceTheorems, TLAPS

-----------------------------------------------------------------------------
(* The inductive invariant *)

\* Whoever walks the queue has the lock.
Exclusive == \A t \in Thread : pc[t] \in {"head", "send"} => mutex = t

\* A slot that is being sent stays at the head of the queue, and learned.
HeadLearned ==
  \A t \in Thread :
    pc[t] = "send" => /\ cseq \in Seqno /\ slots[cseq] # Free
                      /\ Learned(objs[slots[cseq]])

\* Only numbers below the head were processed.
ProcessedBelow == \A e \in processed : e[2] < cseq

\* No object is at two keys.
OneKey ==
  \A s1, s2 \in Seqno : slots[s1] = slots[s2] /\ slots[s1] # Free => s1 = s2

\* The object that a handler holds is at the handler's key, or it was taken
\* from there when it had been sent; it is never at another key.
RefKept ==
  pc["pox"] \in {"compare", "enter", "store", "count"} =>
    /\ ref \in Obj
    /\ slots[job.s] # ref => job.s < cseq
    /\ \A s \in Seqno : s # job.s => slots[s] # ref

IInv == TypeOK /\ Exclusive /\ HeadLearned /\ ProcessedBelow /\ OneKey /\ RefKept

-----------------------------------------------------------------------------
(* What it takes for the refinement, when clients wait for start-up *)

RoundsOK ==
  /\ crnd > 0
  /\ starter = "picked" => sum > 0
  /\ me = Leader => told = Len(log)
  /\ me # Leader => /\ starter \in {"joined", "done"} /\ crnd <= NextRound
                    /\ \A i \in 1..Len(log) : log[i].n = NextRound

\* Whose LEARN may come before the ACCEPT: the leader's comes after it, and
\* the node's own is sent on it.
Early == IF me = Leader THEN {} ELSE Node \ {me, Leader}

\* A slot whose ACCEPT was not stored: there may be one, with early votes.
Empty(s) ==
  slots[s] # Free => objs[slots[s]].learns \subseteq Early /\ objs[slots[s]].vrnd = 0

\* The handler of an ACCEPT, until it has stored the packet: its slot cannot be
\* passed, and its round is not refused.
Storing == pc["pox"] \in {"get_accept", "compare", "enter", "store"}

StoringOK ==
  Storing =>
    /\ job.s = told - 1 /\ job.v = log[told].v
    /\ cseq <= job.s
    /\ job.n >= crnd /\ job.n > 0
    /\ IF me = Leader THEN starter = "done" ELSE job.n = NextRound
    /\ pc["pox"] # "get_accept" => slots[job.s] = ref
    /\ Empty(job.s)

\* Slots beyond the log do not exist, and those whose ACCEPT has not come in
\* are empty; those that are not forwarded yet exist otherwise, and hold the
\* packets of the log.
SlotsOK ==
  \A s \in Seqno :
    /\ s >= Len(log) => slots[s] = Free
    /\ s >= told => Empty(s)
    /\ cseq <= s /\ s < told /\ ~(Storing /\ s = job.s) =>
         slots[s] # Free /\ objs[slots[s]].vval = log[s + 1].v

HostsOK ==
  /\ cseq <= told /\ Len(hosts) = cseq
  /\ \A i \in 1..cseq : hosts[i] = log[i].v

JobOK ==
  /\ pc["pox"] # "idle" => job.s < Len(log)
  /\ pc["pox"] \in {"get_learn", "count"} /\ job.s >= told => job.src \in Early

OrderInv == RoundsOK /\ StoringOK /\ SlotsOK /\ HostsOK /\ JobOK

-----------------------------------------------------------------------------
(* Lemmas *)

\* There are more objects than keys.
LEMMA FreeObject ==
  ASSUME NEW f \in [Seqno -> Obj \cup {Free}]
  PROVE  \E i \in Obj : \A s \in Seqno : f[s] # i
<1>1. IsFiniteSet(Seqno) /\ Cardinality(Seqno) = MaxSeqno + 1
  BY BoundsAssumption, FS_Interval DEF Seqno
<1>2. IsFiniteSet(Obj) /\ Cardinality(Obj) = MaxSeqno + 2
  BY BoundsAssumption, FS_Interval DEF Obj
<1>3. SUFFICES ASSUME \A i \in Obj : \E s \in Seqno : f[s] = i
               PROVE  FALSE
  OBVIOUS
<1> DEFINE key == [i \in Obj |-> CHOOSE s \in Seqno : f[s] = i]
<1>4. key \in [Obj -> Seqno] /\ \A i \in Obj : f[key[i]] = i
  BY <1>3
<1> HIDE DEF key
<1>5. \E i, j \in Obj : i # j /\ key[i] = key[j]
  BY <1>1, <1>2, <1>4, FS_PigeonHole, BoundsAssumption
<1> QED BY <1>4, <1>5

\* The size of Node, and the first rounds, are natural numbers.
LEMMA NodeFacts ==
  /\ Cardinality(Node) \in Nat
  /\ NextRound \in Nat /\ NextRound > 0
  /\ \A b \in Node : NodeId[b] \in Nat /\ NodeId[b] > 0
  /\ Rounds \subseteq Nat
  BY NodeAssumption, NodeIdAssumption, FS_CardinalityType DEF NextRound, Rounds

\* The new object is at no key.
LEMMA NewObject ==
  ASSUME TypeOK
  PROVE  LET new == CHOOSE i \in Obj : \A s \in Seqno : slots[s] # i
         IN  new \in Obj /\ \A s \in Seqno : slots[s] # new
  BY FreeObject DEF TypeOK

-----------------------------------------------------------------------------
(* IInv is inductive *)

\* The invariant holds initially.
LEMMA InitIInv == Init => IInv
<1> SUFFICES ASSUME Init PROVE IInv
  OBVIOUS
<1>1. /\ me \in Node /\ crnd \in Nat /\ slots \in [Seqno -> Obj \cup {Free}]
      /\ cseq \in 0..MaxSeqno + 1 /\ 0 \in Seqno /\ 0 \in Nat
  BY NodeFacts, BoundsAssumption DEF Init, Seqno
<1>2. objs \in [Obj -> Slot]
  BY DEF Init, Slot, NewSlot
<1>3. /\ pc["pox"] = "idle" /\ pc["pump"] = "off" /\ round \in [Thread -> Nat]
      /\ pc \in [Thread -> Label]
  BY DEF Init, Thread, Label
<1>4. /\ job \in [src: Node, n: Nat, s: Seqno, v: Packet \cup {NoPacket}]
      /\ log \in Seq([n: Nat, v: Packet]) /\ hosts \in Seq(Packet \cup {NoPacket})
      /\ known \in BOOLEAN /\ sum \in Nat
      /\ Len(log) <= MaxSeqno + 1 /\ told \in 0..Len(log)
  <2>1. job \in [src: Node, n: Nat, s: Seqno, v: Packet \cup {NoPacket}]
    BY <1>1 DEF Init
  <2>2. log \in Seq([n: Nat, v: Packet]) /\ hosts \in Seq(Packet \cup {NoPacket})
    BY EmptySeq DEF Init
  <2>3. Len(log) = 0 /\ told = 0
    BY DEF Init
  <2>4. Len(log) <= MaxSeqno + 1 /\ told \in 0..Len(log)
    BY <2>3, BoundsAssumption
  <2> QED BY <2>1, <2>2, <2>4 DEF Init
<1>5. /\ starter \in {"joined", "leading", "picked", "start", "done"}
      /\ processed \subseteq Nat \X Seqno /\ heard \subseteq Node \X Seqno
      /\ mutex \in Thread \cup {Unlocked} /\ ref \in Obj \cup {Free}
  BY DEF Init
<1>6. TypeOK
  BY <1>1, <1>2, <1>3, <1>4, <1>5 DEF TypeOK
<1> QED BY <1>3, <1>6 DEF Init, IInv, Exclusive, HeadLearned, ProcessedBelow, OneKey, RefKept, Thread

\* The thread that joined the network: it touches no slot.
LEMMA StartIInv ==
  ASSUME IInv, Start
  PROVE  IInv'
<1>1. TypeOK'
  BY NodeFacts DEF IInv, TypeOK, Start, MakeLeader, PickNextReads, PickNextWrites, StartPump,
                   Goto, shared, Thread, Label
<1>2. /\ UNCHANGED <<slots, objs, cseq, processed, mutex, ref, job>>
      /\ pc' = pc \/ pc' = [pc EXCEPT !["pump"] = "sleep"]
  BY DEF Start, MakeLeader, PickNextReads, PickNextWrites, StartPump, Goto, shared
<1>3. pc \in [Thread -> Label]
  BY DEF IInv, TypeOK
<1> QED BY <1>1, <1>2, <1>3 DEF IInv, Exclusive, HeadLearned, ProcessedBelow, OneKey, RefKept, Thread

\* What comes in waits in job, and what the leader numbers is on its way.
LEMMA TakeIInv ==
  ASSUME IInv, \/ TakeAccept
               \/ \E v \in Packet : TakeClient(v) \/ Number(v)
               \/ \E b \in Node, s \in Seqno : TakeLearn(b, s)
  PROVE  IInv'
<1>1. /\ UNCHANGED <<slots, objs, cseq, processed, mutex, ref>>
      /\ \/ \E l \in {"get_accept", "get_learn"} : pc' = [pc EXCEPT !["pox"] = l]
         \/ pc' = pc /\ job' = job
  BY DEF TakeClient, Number, TakeAccept, TakeLearn, Goto, shared, threads
<1>2. log \in Seq([n: Nat, v: Packet]) /\ Len(log) \in Nat /\ told \in 0..Len(log)
  BY LenProperties DEF IInv, TypeOK
<1>3. ASSUME NEW i \in Nat, i < Len(log)
      PROVE  log[i + 1] \in [n: Nat, v: Packet]
  <2>1. i + 1 \in 1..Len(log)
    BY <1>2, <1>3
  <2> QED BY <1>2, <2>1, ElementOfSeq
<1>4. ASSUME NEW v \in Packet, NEW n \in Nat
      PROVE  /\ Append(log, [n |-> n, v |-> v]) \in Seq([n: Nat, v: Packet])
             /\ Len(Append(log, [n |-> n, v |-> v])) = Len(log) + 1
             /\ Len(log) \in Seqno => Len(log) + 1 <= MaxSeqno + 1
  BY <1>2, AppendProperties, BoundsAssumption DEF Seqno
<1>5. ASSUME NEW v \in Packet, TakeClient(v) PROVE TypeOK'
  <2>0. crnd \in Nat /\ me \in Node /\ Len(log) \in Seqno
    BY <1>5 DEF IInv, TypeOK, TakeClient
  <2>1. /\ log' \in Seq([n: Nat, v: Packet]) /\ told' \in 0..Len(log')
        /\ Len(log') <= MaxSeqno + 1
    <3>1. log' = Append(log, [n |-> crnd, v |-> v]) /\ told' = told + 1
      BY <1>5 DEF TakeClient
    <3>2. /\ log' \in Seq([n: Nat, v: Packet]) /\ Len(log') = Len(log) + 1
          /\ Len(log) + 1 <= MaxSeqno + 1
      BY <1>4, <2>0, <3>1
    <3> QED BY <1>2, <3>1, <3>2
  <2>2. job' \in [src: Node, n: Nat, s: Seqno, v: Packet \cup {NoPacket}]
    BY <1>5, <2>0 DEF TakeClient
  <2> QED BY <1>5, <2>1, <2>2 DEF IInv, TypeOK, TakeClient, Goto, shared, Thread, Label
<1>6. ASSUME NEW v \in Packet, Number(v) PROVE TypeOK'
  <2>1. /\ log' \in Seq([n: Nat, v: Packet]) /\ told' \in 0..Len(log')
        /\ Len(log') <= MaxSeqno + 1
    <3>1. PICK n \in Nat : log' = Append(log, [n |-> n, v |-> v])
      BY <1>6, NodeFacts DEF Number
    <3>2. told' = told /\ Len(log) \in Seqno
      BY <1>6 DEF Number, threads
    <3>3. /\ log' \in Seq([n: Nat, v: Packet]) /\ Len(log') = Len(log) + 1
          /\ Len(log) + 1 <= MaxSeqno + 1
      BY <1>4, <3>1, <3>2
    <3> QED BY <1>2, <3>2, <3>3
  <2> QED BY <1>6, <2>1 DEF IInv, TypeOK, Number, shared, threads
<1>7. ASSUME TakeAccept PROVE TypeOK'
  <2>1. told \in Seqno /\ log[told + 1] \in [n: Nat, v: Packet] /\ told + 1 \in 0..Len(log)
    <3>1. told < Len(log) /\ Len(log) <= MaxSeqno + 1
      BY <1>7 DEF IInv, TypeOK, TakeAccept
    <3>2. told \in Seqno /\ told + 1 \in 0..Len(log) /\ told \in Nat
      BY <1>2, <3>1, BoundsAssumption DEF Seqno
    <3> QED BY <1>3, <3>1, <3>2
  <2>2. /\ told' \in 0..Len(log') /\ log' = log
        /\ job' \in [src: Node, n: Nat, s: Seqno, v: Packet \cup {NoPacket}]
    BY <1>7, <2>1 DEF IInv, TypeOK, TakeAccept
  <2>3. pc' \in [Thread -> Label]
    BY <1>7 DEF IInv, TypeOK, TakeAccept, Goto, Label
  <2>4. UNCHANGED <<me, known, crnd, slots, objs, cseq, processed, mutex, starter, sum,
                    round, ref, heard, hosts>>
    BY <1>7 DEF TakeAccept, shared
  <2> QED BY <2>2, <2>3, <2>4 DEF IInv, TypeOK
<1>8. ASSUME NEW b \in Node, NEW s \in Seqno, TakeLearn(b, s) PROVE TypeOK'
  <2>1. log[s + 1].n \in Nat
    BY <1>3, <1>8, BoundsAssumption DEF TakeLearn, Seqno
  <2> QED BY <1>8, <2>1 DEF IInv, TypeOK, TakeLearn, Goto, shared, Thread, Label
<1>9. TypeOK'
  <2>1. CASE TakeAccept
    BY <1>7, <2>1
  <2>2. CASE \E v \in Packet : TakeClient(v) \/ Number(v)
    BY <1>5, <1>6, <2>2
  <2>3. CASE \E b \in Node, s \in Seqno : TakeLearn(b, s)
    BY <1>8, <2>3
  <2> QED BY <2>1, <2>2, <2>3
<1> QED BY <1>1, <1>9 DEF IInv, TypeOK, Exclusive, HeadLearned, ProcessedBelow, OneKey, RefKept, Thread

\* get_slot, whichever way it goes: the slots of the other keys and their
\* objects stay, and the object at the key is the handler's.
LEMMA GetSlotOK ==
  ASSUME TypeOK, OneKey, GetSlot
  PROVE  /\ ref' \in Obj
         /\ slots' \in [Seqno -> Obj \cup {Free}] /\ objs' \in [Obj -> Slot]
         /\ slots'[job.s] = ref'
         /\ \A s \in Seqno : s # job.s => slots'[s] = slots[s] /\ slots[s] # ref'
         /\ \A s \in Seqno : slots[s] # Free =>
              slots'[s] = slots[s] /\ objs'[slots[s]] = objs[slots[s]]
         /\ slots[job.s] = Free => objs'[ref'] = NewSlot
<1> DEFINE new == CHOOSE i \in Obj : \A s \in Seqno : slots[s] # i
<1>1. new \in Obj /\ \A s \in Seqno : slots[s] # new
  BY NewObject
<1>2. job.s \in Seqno /\ slots \in [Seqno -> Obj \cup {Free}] /\ objs \in [Obj -> Slot]
  BY DEF TypeOK
<1>3. NewSlot \in Slot
  BY DEF NewSlot, Slot
<1> HIDE DEF new
<1>4. CASE slots[job.s] # Free
  BY <1>2, <1>4 DEF GetSlot, OneKey
<1>5. CASE slots[job.s] = Free
  <2>1. /\ ref' = new
        /\ slots' = [slots EXCEPT ![job.s] = new]
        /\ objs' = [objs EXCEPT ![new] = NewSlot]
    BY <1>5 DEF GetSlot, new
  <2> QED BY <1>1, <1>2, <1>3, <1>5, <2>1
<1> QED BY <1>4, <1>5

\* Free is no object.
LEMMA FreeFacts == Free \notin Obj /\ Unlocked \notin Thread
  BY DEF Free, Obj, Unlocked, Thread

\* get_slot in the two handlers.
LEMMA GetIInv ==
  ASSUME IInv, GetForAccept \/ GetForLearn
  PROVE  IInv'
<1>1. /\ GetSlot /\ mutex = Unlocked
      /\ UNCHANGED <<me, known, crnd, starter, sum, cseq, processed, mutex, round, job,
                     log, told, heard, hosts>>
      /\ \E l \in {"compare", "count"} : pc' = [pc EXCEPT !["pox"] = l]
  BY DEF GetForAccept, GetForLearn, Goto
<1>2. /\ ref' \in Obj
      /\ slots' \in [Seqno -> Obj \cup {Free}] /\ objs' \in [Obj -> Slot]
      /\ slots'[job.s] = ref'
      /\ \A s \in Seqno : s # job.s => slots'[s] = slots[s] /\ slots[s] # ref'
  BY <1>1, GetSlotOK DEF IInv
<1>3. TypeOK'
  <2>1. pc' \in [Thread -> Label]
    BY <1>1 DEF IInv, TypeOK, Label
  <2> QED BY <1>1, <1>2, <2>1 DEF IInv, TypeOK
<1>4. \A t \in Thread : pc'[t] \notin {"head", "send"}
  BY <1>1, FreeFacts DEF IInv, TypeOK, Exclusive, Thread
<1>5. Exclusive' /\ HeadLearned' /\ ProcessedBelow'
  BY <1>1, <1>4 DEF IInv, Exclusive, HeadLearned, ProcessedBelow
<1>6. job.s \in Seqno
  BY DEF IInv, TypeOK
<1>7. OneKey' /\ RefKept'
  BY <1>1, <1>2, <1>6, FreeFacts DEF IInv, OneKey, RefKept
<1> QED BY <1>3, <1>5, <1>7 DEF IInv

\* The rest of the handlers changes the handler's slot only, whose votes do
\* not become fewer once they are a majority.
LEMMA HandleIInv ==
  ASSUME IInv, Compare \/ EnterRound \/ Store \/ Count
  PROVE  IInv'
<1>1. /\ UNCHANGED <<me, known, slots, cseq, processed, mutex, starter, sum, job, ref, log,
                     told, heard, hosts>>
      /\ \E l \in {"enter", "idle", "store", "get_learn", "acquire"} :
           pc' = [pc EXCEPT !["pox"] = l]
      /\ pc'["pox"] \in {"enter", "store"} => pc["pox"] \in {"compare", "enter"}
  BY DEF Compare, EnterRound, Store, Count, Goto, shared, IInv, TypeOK, Thread
<1>2. job \in [src: Node, n: Nat, s: Seqno, v: Packet \cup {NoPacket}] /\ objs \in [Obj -> Slot]
  BY DEF IInv, TypeOK
<1>3. /\ objs' \in [Obj -> Slot] /\ crnd' \in Nat /\ round' \in [Thread -> Nat]
      /\ \A i \in Obj : Learned(objs[i]) => Learned(objs'[i])
  <2>0. crnd \in Nat /\ round \in [Thread -> Nat] /\ job.n \in Nat
    BY DEF IInv, TypeOK
  <2>1. CASE Compare
    BY <1>2, <2>0, <2>1 DEF Compare, shared
  <2>2. CASE EnterRound
    BY <1>2, <2>0, <2>2 DEF EnterRound
  <2>3. CASE Store
    BY <1>2, <2>0, <2>3 DEF Store, Slot, Learned
  <2>4. CASE Count
    <3>1. CASE CountsLearn(objs[ref])
      <4>1. /\ objs' = [objs EXCEPT ![ref].learns = (IF job.n > objs[ref].hrnd THEN {} ELSE @)
                                        \cup {job.src},
                                    ![ref].hrnd = job.n]
            /\ round' = [round EXCEPT !["pox"] = job.n] /\ crnd' = crnd /\ ~Learned(objs[ref])
        BY <2>4, <3>1 DEF Count, CountsLearn
      <4>2. \A i \in Obj : i # ref => objs'[i] = objs[i]
        BY <1>2, <4>1
      <4>3. objs' \in [Obj -> Slot]
        <5>1. ASSUME NEW x \in Slot, NEW L \in SUBSET Node
              PROVE  [x EXCEPT !.learns = L, !.hrnd = job.n] \in Slot
          BY <2>0 DEF Slot
        <5>2. ASSUME ref \in Obj
              PROVE  (IF job.n > objs[ref].hrnd THEN {} ELSE objs[ref].learns)
                       \cup {job.src} \in SUBSET Node
          BY <1>2, <5>2 DEF Slot
        <5> QED BY <1>2, <4>1, <5>1, <5>2
      <4> QED BY <2>0, <4>1, <4>2, <4>3
    <3>2. CASE ~CountsLearn(objs[ref])
      BY <1>2, <2>0, <2>4, <3>2 DEF Count
    <3> QED BY <3>1, <3>2
  <2> QED BY <2>1, <2>2, <2>3, <2>4
<1>4. TypeOK'
  <2>1. pc' \in [Thread -> Label]
    BY <1>1 DEF IInv, TypeOK, Label
  <2> QED BY <1>1, <1>3, <2>1 DEF IInv, TypeOK
<1>5. pc \in [Thread -> Label] /\ slots \in [Seqno -> Obj \cup {Free}]
  BY DEF IInv, TypeOK
<1>6. Exclusive' /\ HeadLearned' /\ ProcessedBelow' /\ OneKey'
  BY <1>1, <1>3, <1>5 DEF IInv, Exclusive, HeadLearned, ProcessedBelow, OneKey, Thread
<1>7. RefKept'
  BY <1>1, <1>5 DEF IInv, RefKept, Thread
<1> QED BY <1>4, <1>6, <1>7 DEF IInv

\* process_queue in either thread.
LEMMA QueueIInv ==
  ASSUME IInv, NEW t \in Thread, ProcessQueue(t)
  PROVE  IInv'
<1>1. /\ UNCHANGED <<me, known, crnd, slots, objs, starter, sum, round, job, ref, log, told, heard>>
      /\ \E l \in {"head", "send", "idle", "read"} : pc' = [pc EXCEPT ![t] = l]
  BY DEF ProcessQueue, Acquire, LookAtHead, Send, Release, AfterQueue, Goto
<1>2. /\ pc \in [Thread -> Label] /\ slots \in [Seqno -> Obj \cup {Free}]
      /\ objs \in [Obj -> Slot] /\ round \in [Thread -> Nat]
  BY DEF IInv, TypeOK
<1>3. pc' \in [Thread -> Label]
  BY <1>1, <1>2 DEF Label
<1>4. CASE Acquire(t)
  <2>1. /\ mutex = Unlocked /\ mutex' = t /\ pc' = [pc EXCEPT ![t] = "head"]
        /\ UNCHANGED <<cseq, processed, hosts>>
    BY <1>4 DEF Acquire, Goto
  <2>2. TypeOK'
    BY <1>1, <1>3, <2>1 DEF IInv, TypeOK
  <2> QED BY <1>1, <1>2, <2>1, <2>2, FreeFacts
             DEF IInv, Exclusive, HeadLearned, ProcessedBelow, OneKey, RefKept, Thread
<1>5. CASE LookAtHead(t)
  <2>1. /\ UNCHANGED <<cseq, processed, hosts>>
        /\ \/ /\ pc' = [pc EXCEPT ![t] = "send"] /\ mutex' = mutex
              /\ cseq \in Seqno /\ slots[cseq] # Free /\ Learned(objs[slots[cseq]])
           \/ /\ \E l \in {"idle", "read"} : pc' = [pc EXCEPT ![t] = l]
              /\ mutex' = Unlocked
    BY <1>5 DEF LookAtHead, Release, AfterQueue, Goto
  <2>2. mutex = t
    BY <1>5 DEF IInv, Exclusive, LookAtHead
  <2>3. TypeOK'
    BY <1>1, <1>3, <2>1 DEF IInv, TypeOK
  <2> QED BY <1>1, <1>2, <2>1, <2>2, <2>3, FreeFacts
             DEF IInv, Exclusive, HeadLearned, ProcessedBelow, OneKey, RefKept, Thread
<1>6. CASE Send(t)
  <2>1. /\ mutex = t /\ cseq \in Seqno /\ slots[cseq] \in Obj
    BY <1>2, <1>6 DEF IInv, Exclusive, HeadLearned, Send
  <2>2. CASE known
    <3>1. /\ hosts' = Append(hosts, objs[slots[cseq]].vval)
          /\ processed' = processed \cup {<<round[t], cseq>>}
          /\ cseq' = cseq + 1 /\ mutex' = mutex
          /\ pc' = [pc EXCEPT ![t] = "head"]
      BY <1>6, <2>2 DEF Send, Goto
    <3>2. objs[slots[cseq]].vval \in Packet \cup {NoPacket}
      BY <1>2, <2>1 DEF Slot
    <3>3. hosts' \in Seq(Packet \cup {NoPacket})
      BY <3>1, <3>2 DEF IInv, TypeOK
    <3>4. cseq' \in 0..MaxSeqno + 1 /\ processed' \subseteq Nat \X Seqno /\ cseq \in Nat
      BY <1>2, <2>1, <3>1, BoundsAssumption DEF IInv, TypeOK, Seqno
    <3>5. TypeOK'
      BY <1>1, <1>3, <3>1, <3>3, <3>4 DEF IInv, TypeOK
    <3>6. ProcessedBelow'
      <4>1. \A e \in processed : e[2] \in Nat
        BY BoundsAssumption DEF IInv, TypeOK, Seqno
      <4> QED BY <3>1, <3>4, <4>1 DEF IInv, ProcessedBelow
    <3>7. Exclusive' /\ HeadLearned' /\ OneKey'
      BY <1>1, <1>2, <2>1, <3>1, FreeFacts DEF IInv, Exclusive, HeadLearned, OneKey, Thread
    <3>8. RefKept'
      <4>1. job.s \in Nat
        BY BoundsAssumption DEF IInv, TypeOK, Seqno
      <4> QED BY <1>1, <1>2, <3>1, <3>4, <4>1 DEF IInv, RefKept, Thread
    <3> QED BY <3>5, <3>6, <3>7, <3>8 DEF IInv
  <2>3. CASE ~known
    <3>1. /\ mutex' = Unlocked /\ UNCHANGED <<cseq, processed, hosts>>
          /\ \E l \in {"idle", "read"} : pc' = [pc EXCEPT ![t] = l]
      BY <1>6, <2>3 DEF Send, Release, AfterQueue, Goto
    <3>2. TypeOK'
      BY <1>1, <1>3, <3>1 DEF IInv, TypeOK
    <3> QED BY <1>1, <1>2, <2>1, <3>1, <3>2, FreeFacts
               DEF IInv, Exclusive, HeadLearned, ProcessedBelow, OneKey, RefKept, Thread
  <2> QED BY <2>2, <2>3
<1> QED BY <1>4, <1>5, <1>6 DEF ProcessQueue

\* The background thread between its walks; what it collects was sent.
LEMMA PumpIInv ==
  ASSUME IInv, Wake \/ ReadRound \/ GarbageCollect \/ LearnHosts
  PROVE  IInv'
<1>1. /\ UNCHANGED <<me, crnd, objs, cseq, processed, mutex, starter, sum, job, ref, log,
                     told, heard, hosts>>
      /\ pc' = pc \/ \E l \in {"acquire", "collect", "sleep"} : pc' = [pc EXCEPT !["pump"] = l]
      /\ slots' = slots \/ mutex = Unlocked
  BY DEF Wake, ReadRound, GarbageCollect, LearnHosts, Goto, shared, threads
<1>2. /\ pc \in [Thread -> Label] /\ slots \in [Seqno -> Obj \cup {Free}]
      /\ crnd \in Nat /\ round \in [Thread -> Nat] /\ known \in BOOLEAN
  BY DEF IInv, TypeOK
<1>3. /\ round' \in [Thread -> Nat] /\ known' \in BOOLEAN
      /\ slots' \in [Seqno -> Obj \cup {Free}]
      /\ \A s \in Seqno : slots'[s] # slots[s] => slots'[s] = Free /\ s < cseq
  <2>1. CASE GarbageCollect
    <3>1. \A s \in Finished : s < cseq
      BY DEF IInv, ProcessedBelow, Finished
    <3>2. /\ slots' = [s \in Seqno |-> IF s \in Finished THEN Free ELSE slots[s]]
          /\ UNCHANGED <<round, known>>
      BY <2>1 DEF GarbageCollect
    <3> QED BY <1>2, <3>1, <3>2
  <2>2. CASE ~GarbageCollect
    BY <1>2, <2>2 DEF Wake, ReadRound, LearnHosts, shared, threads
  <2> QED BY <2>1, <2>2
<1>4. pc' \in [Thread -> Label] /\ pc'["pox"] = pc["pox"]
  BY <1>1, <1>2 DEF Label, Thread
<1>5. TypeOK'
  BY <1>1, <1>3, <1>4 DEF IInv, TypeOK
<1>6. Exclusive' /\ HeadLearned' /\ ProcessedBelow'
  BY <1>1, <1>2, FreeFacts DEF IInv, Exclusive, HeadLearned, ProcessedBelow, Thread
<1>7. OneKey' /\ RefKept'
  <2>1. job.s \in Seqno
    BY DEF IInv, TypeOK
  <2> QED BY <1>1, <1>2, <1>3, <1>4, <2>1, FreeFacts DEF IInv, OneKey, RefKept
<1> QED BY <1>5, <1>6, <1>7 DEF IInv

\* Every step keeps the invariant.
LEMMA NextIInv == IInv /\ [Next]_vars => IInv'
<1> SUFFICES ASSUME IInv, [Next]_vars PROVE IInv'
  OBVIOUS
<1>1. CASE Start
  BY <1>1, StartIInv
<1>2. CASE Handle
  BY <1>2, GetIInv, HandleIInv DEF Handle
<1>3. CASE \E t \in Thread : ProcessQueue(t)
  BY <1>3, QueueIInv
<1>4. CASE Wake \/ ReadRound \/ GarbageCollect \/ LearnHosts
  BY <1>4, PumpIInv
<1>5. CASE \/ TakeAccept
           \/ \E v \in Packet : TakeClient(v) \/ Number(v)
           \/ \E b \in Node, s \in Seqno : TakeLearn(b, s)
  BY <1>5, TakeIInv
<1>6. CASE UNCHANGED vars
  BY <1>6 DEF vars, shared, threads, IInv, TypeOK, Exclusive, HeadLearned, ProcessedBelow,
              OneKey, RefKept
<1> QED BY <1>1, <1>2, <1>3, <1>4, <1>5, <1>6 DEF Next, Pox, Pump, Thread

\* The invariant holds in every reachable state.
THEOREM Invariance == Spec => []IInv
<1> QED BY InitIInv, NextIInv, PTL DEF Spec

-----------------------------------------------------------------------------
(* What follows for every state *)

\* TypeOK, for every number of nodes, packets and slots.
THEOREM TypeCorrect == Spec => []TypeOK
<1>1. IInv => TypeOK
  BY DEF IInv
<1> QED BY <1>1, Invariance, PTL

\* The assertions of queue and process_queue hold in both threads, also when
\* clients do not wait.
THEOREM Assertions == Spec => []HeadNotProcessed
<1>1. IInv => HeadNotProcessed
  <2> SUFFICES ASSUME IInv, NEW t \in Thread, <<round[t], cseq>> \in processed
               PROVE  FALSE
    BY DEF HeadNotProcessed
  <2>1. cseq < cseq /\ cseq \in Nat
    BY BoundsAssumption DEF IInv, ProcessedBelow, TypeOK
  <2> QED BY <2>1
<1> QED BY <1>1, Invariance, PTL

\* A handler never writes to a slot that was taken away before it was sent.
THEOREM NothingLost == Spec => []NoUpdateLost
<1>1. IInv => NoUpdateLost
  BY DEF IInv, RefKept, NoUpdateLost
<1> QED BY <1>1, Invariance, PTL
-----------------------------------------------------------------------------
(* OrderInv is inductive, when clients wait and the leader's round is not     *)
(* below the first round of any node                                          *)

OrderlyStart == EarlyClients = FALSE /\ \A a \in Node : NodeId[a] <= NextRound

\* S1, S2 and S3 are three.
Few == Cardinality(Node) <= 4

\* The types that the steps below need.
LEMMA Types ==
  ASSUME TypeOK
  PROVE  /\ me \in Node /\ crnd \in Nat /\ sum \in Nat /\ cseq \in Nat
         /\ pc \in [Thread -> Label] /\ "pox" \in Thread /\ "pump" \in Thread
         /\ slots \in [Seqno -> Obj \cup {Free}] /\ objs \in [Obj -> Slot]
         /\ job.n \in Nat /\ job.s \in Seqno /\ job.s \in Nat
         /\ log \in Seq([n: Nat, v: Packet]) /\ Len(log) \in Nat
         /\ told \in Nat /\ told <= Len(log)
         /\ hosts \in Seq(Packet \cup {NoPacket}) /\ Len(hosts) \in Nat
         /\ Seqno \subseteq Nat
<1>1. log \in Seq([n: Nat, v: Packet]) /\ hosts \in Seq(Packet \cup {NoPacket})
  BY DEF TypeOK
<1>2. Len(log) \in Nat /\ Len(hosts) \in Nat
  BY <1>1, LenProperties
<1> QED BY <1>1, <1>2, BoundsAssumption DEF TypeOK, Thread, Seqno

\* Up to four nodes: the votes that may come before the ACCEPT do not suffice.
LEMMA EarlyVotes ==
  ASSUME Few, TypeOK, NEW slot, slot.learns \subseteq Early
  PROVE  ~Learned(slot)
<1>1. Cardinality(Node) \in Nat /\ IsFiniteSet(Node) /\ Leader \in Node /\ me \in Node
  BY NodeFacts, NodeAssumption DEF TypeOK
<1>2. IsFiniteSet(Early) /\ Cardinality(Early) < 1 + (Cardinality(Node) \div 2)
  <2>1. CASE me = Leader
    BY <1>1, <2>1, FS_EmptySet DEF Early
  <2>2. CASE me # Leader
    <3>1. /\ IsFiniteSet(Node \ {me}) /\ Cardinality(Node \ {me}) = Cardinality(Node) - 1
      BY <1>1, FS_RemoveElement
    <3>2. Leader \in Node \ {me} /\ Early = (Node \ {me}) \ {Leader}
      BY <1>1, <2>2 DEF Early
    <3> DEFINE others == Node \ {me}
    <3>3. /\ IsFiniteSet(others \ {Leader})
          /\ Cardinality(others \ {Leader}) = Cardinality(others) - 1
      <4>1. IsFiniteSet(others) /\ Leader \in others
        BY <3>1, <3>2
      <4> HIDE DEF others
      <4> QED BY <4>1, FS_RemoveElement
    <3>4. IsFiniteSet(Early) /\ Cardinality(Early) = Cardinality(Node) - 2
      BY <1>1, <3>1, <3>2, <3>3
    <3> QED BY <1>1, <3>4 DEF Few
  <2> QED BY <2>1, <2>2
<1>3. Cardinality(slot.learns) \in Nat /\ Cardinality(slot.learns) <= Cardinality(Early)
  BY <1>2, FS_Subset, FS_CardinalityType
<1>4. Cardinality(Early) \in Nat
  BY <1>2, FS_CardinalityType
<1> QED BY <1>1, <1>2, <1>3, <1>4 DEF Learned

\* OrderInv holds initially.
LEMMA InitOrder ==
  ASSUME OrderlyStart, Init
  PROVE  OrderInv
<1>1. TypeOK
  BY InitIInv DEF IInv
<1>2. ~Storing /\ pc["pox"] = "idle"
  BY <1>1, Types DEF Init, Storing
<1>3. /\ Len(log) = 0 /\ Len(hosts) = 0 /\ cseq = 0 /\ told = 0
      /\ \A s \in Seqno : slots[s] = Free
  BY DEF Init
<1>4. RoundsOK
  BY <1>1, <1>3, Types, NodeFacts DEF Init, OrderlyStart, RoundsOK
<1> QED BY <1>1, <1>2, <1>3, <1>4, Types DEF OrderInv, StoringOK, SlotsOK, HostsOK, JobOK, Empty

\* The leader picks a round before anything is stored, and it is a higher one.
LEMMA StartOrder ==
  ASSUME IInv, OrderInv, Start
  PROVE  OrderInv'
<1>1. /\ UNCHANGED <<me, known, slots, objs, cseq, processed, mutex, round, job, ref, log,
                     told, heard, hosts>>
      /\ pc'["pox"] = pc["pox"] /\ Storing' = Storing
  BY Types DEF IInv, Start, MakeLeader, PickNextReads, PickNextWrites, StartPump, Goto, shared,
               Storing
<1>2. SlotsOK' /\ HostsOK' /\ JobOK'
  BY <1>1 DEF OrderInv, SlotsOK, HostsOK, JobOK, Empty, Early
<1>3. RoundsOK'
  BY <1>1, Types, NodeFacts DEF IInv, OrderInv, RoundsOK, Start, MakeLeader, PickNextReads,
                                PickNextWrites, StartPump, shared
<1>4. StoringOK'
  <2> SUFFICES ASSUME Storing PROVE StoringOK'
    BY <1>1 DEF StoringOK
  <2>1. me # Leader /\ StartPump
    BY DEF OrderInv, RoundsOK, StoringOK, Start, MakeLeader, PickNextReads, PickNextWrites,
           StartPump
  <2>2. crnd' = crnd
    BY <2>1 DEF StartPump, shared
  <2> QED BY <1>1, <2>1, <2>2 DEF OrderInv, StoringOK, Empty, Early
<1> QED BY <1>2, <1>3, <1>4 DEF OrderInv

\* What the leader numbers comes after all that was numbered.
LEMMA LogGrows ==
  ASSUME TypeOK, NEW v \in Packet, NEW n \in Nat, log' = Append(log, [n |-> n, v |-> v])
  PROVE  /\ Len(log') = Len(log) + 1
         /\ log'[Len(log) + 1].v = v /\ log'[Len(log) + 1].n = n
         /\ \A i \in 1..Len(log) : log'[i] = log[i]
  BY Types, AppendProperties

\* A CLIENT at the leader has the next number, which has no slot yet.
LEMMA TakeClientOrder ==
  ASSUME OrderlyStart, IInv, OrderInv, NEW v \in Packet, TakeClient(v)
  PROVE  OrderInv'
<1>1. /\ UNCHANGED <<me, crnd, starter, sum, slots, objs, cseq, ref, hosts>>
      /\ pc["pox"] = "idle" /\ pc'["pox"] = "get_accept"
      /\ Len(log) \in Seqno /\ starter = "done" /\ me = Leader
      /\ job'.s = Len(log) /\ job'.n = crnd /\ job'.v = v
      /\ told' = told + 1
  BY Types DEF IInv, TakeClient, Goto, shared, OrderlyStart
<1>2. /\ Len(log') = Len(log) + 1 /\ log'[Len(log) + 1].v = v
      /\ \A i \in 1..Len(log) : log'[i] = log[i]
  BY Types, LogGrows DEF IInv, TakeClient
<1>3. told = Len(log)
  BY <1>1 DEF OrderInv, RoundsOK
<1>4. Storing' /\ ~Storing
  BY <1>1 DEF Storing
<1>5. RoundsOK'
  BY <1>1, <1>2, <1>3 DEF OrderInv, RoundsOK
<1>6. StoringOK'
  BY <1>1, <1>2, <1>3, Types DEF IInv, OrderInv, RoundsOK, StoringOK, SlotsOK, HostsOK, Empty
<1>7. SlotsOK'
  <2>1. Len(log) \in Nat /\ Seqno \subseteq Nat
    BY Types DEF IInv
  <2>2. ASSUME NEW s \in Seqno, s < Len(log)
        PROVE  log'[s + 1] = log[s + 1]
    BY <1>2, <2>1, <2>2
  <2>3. \A s \in Seqno : s >= Len(log') => slots'[s] = Free
    <3>1. \A s \in Seqno : s >= Len(log') => s >= Len(log)
      BY <1>2, <2>1
    <3> QED BY <1>1, <3>1 DEF OrderInv, SlotsOK
  <2>4. \A s \in Seqno : s >= told' => Empty(s)'
    <3>1. \A s \in Seqno : s >= told' => s >= Len(log)
      BY <1>1, <1>3, <2>1
    <3>2. \A s \in Seqno : s >= Len(log) => slots'[s] = Free
      BY <1>1 DEF OrderInv, SlotsOK
    <3> QED BY <3>1, <3>2 DEF Empty
  <2>5. ASSUME NEW s \in Seqno, cseq <= s, s < told', s # job'.s
        PROVE  slots'[s] # Free /\ objs'[slots'[s]].vval = log'[s + 1].v
    <3>1. s < Len(log)
      BY <1>1, <1>3, <2>1, <2>5
    <3> QED BY <1>1, <1>3, <1>4, <2>2, <2>5, <3>1 DEF OrderInv, SlotsOK
  <2> QED BY <1>1, <1>4, <2>3, <2>4, <2>5 DEF SlotsOK
<1>8. HostsOK'
  <2>1. cseq \in Nat /\ told \in Nat /\ cseq <= told /\ Len(hosts) = cseq
    BY Types DEF IInv, OrderInv, HostsOK
  <2>2. \A i \in 1..cseq : hosts[i] = log'[i].v
    BY <1>2, <1>3, <2>1 DEF OrderInv, HostsOK
  <2> QED BY <1>1, <2>1, <2>2 DEF HostsOK
<1>9. JobOK'
  BY <1>1, <1>2, Types DEF IInv, JobOK
<1> QED BY <1>5, <1>6, <1>7, <1>8, <1>9 DEF OrderInv

\* A packet that the leader numbers elsewhere changes nothing here.
LEMMA NumberOrder ==
  ASSUME OrderlyStart, IInv, OrderInv, NEW v \in Packet, Number(v)
  PROVE  OrderInv'
<1>1. /\ UNCHANGED <<me, crnd, starter, sum, slots, objs, cseq, job, ref, pc, told, hosts>>
      /\ me # Leader /\ Storing' = Storing
  BY DEF Number, shared, threads, Storing
<1>2. PICK n \in Rounds : log' = Append(log, [n |-> n, v |-> v])
  BY DEF Number
<1>3. n = NextRound /\ n \in Nat
  BY NodeFacts DEF OrderlyStart, Rounds
<1>4. /\ Len(log') = Len(log) + 1 /\ log'[Len(log) + 1].n = n
      /\ \A i \in 1..Len(log) : log'[i] = log[i]
  BY <1>2, <1>3, LogGrows DEF IInv
<1>5. told \in Nat /\ told <= Len(log) /\ Len(log) \in Nat /\ cseq \in Nat /\ Seqno \subseteq Nat
  BY Types DEF IInv
<1>6. RoundsOK'
  <2>1. \A i \in 1..Len(log') : log'[i].n = NextRound
    BY <1>1, <1>3, <1>4, <1>5 DEF OrderInv, RoundsOK
  <2> QED BY <1>1, <2>1 DEF OrderInv, RoundsOK
<1>7. StoringOK'
  <2> SUFFICES ASSUME Storing PROVE StoringOK'
    BY <1>1 DEF StoringOK
  <2>1. log'[told] = log[told]
    <3>1. told \in 1..Len(log)
      BY <1>5, Types DEF IInv, OrderInv, StoringOK
    <3> QED BY <1>4, <3>1
  <2> QED BY <1>1, <2>1 DEF OrderInv, StoringOK, Empty, Early
<1>8. SlotsOK'
  <2>1. ASSUME NEW s \in Seqno, s < told
        PROVE  log'[s + 1] = log[s + 1]
    BY <1>4, <1>5, <2>1
  <2> QED BY <1>1, <1>4, <1>5, <2>1 DEF OrderInv, SlotsOK, Empty, Early
<1>9. HostsOK'
  BY <1>1, <1>4, <1>5 DEF OrderInv, HostsOK
<1>10. JobOK'
  <2>1. job.s \in Nat /\ Early' = Early
    BY <1>1, Types DEF IInv, Early
  <2> QED BY <1>1, <1>4, <1>5, <2>1 DEF OrderInv, JobOK
<1> QED BY <1>6, <1>7, <1>8, <1>9, <1>10 DEF OrderInv

\* The leader's next ACCEPT is in its round, for a slot that is empty.
LEMMA TakeAcceptOrder ==
  ASSUME OrderlyStart, IInv, OrderInv, TakeAccept
  PROVE  OrderInv'
<1>1. /\ UNCHANGED <<me, crnd, starter, sum, slots, objs, cseq, ref, log, hosts>>
      /\ pc["pox"] = "idle" /\ pc'["pox"] = "get_accept"
      /\ job'.s = told /\ job'.n = log[told + 1].n /\ job'.v = log[told + 1].v
      /\ told < Len(log) /\ told' = told + 1
  BY Types DEF IInv, TakeAccept, Goto, shared
<1>2. /\ told \in Nat /\ Len(log) \in Nat /\ cseq \in Nat /\ Seqno \subseteq Nat
      /\ told \in Seqno
  <2>1. /\ told \in Nat /\ Len(log) \in Nat /\ cseq \in Nat /\ Seqno \subseteq Nat
        /\ Len(log) <= MaxSeqno + 1
    BY Types DEF IInv, TypeOK
  <2>2. told \in Seqno
    BY <1>1, <2>1, BoundsAssumption DEF Seqno
  <2> QED BY <2>1, <2>2
<1>3. me # Leader /\ log[told + 1].n = NextRound
  BY <1>1, <1>2 DEF OrderInv, RoundsOK
<1>4. Storing' /\ ~Storing
  BY <1>1 DEF Storing
<1>5. RoundsOK'
  BY <1>1, <1>3 DEF OrderInv, RoundsOK
<1>6. StoringOK'
  <2>1. NextRound >= crnd /\ NextRound > 0
    BY <1>3, NodeFacts DEF OrderInv, RoundsOK
  <2>2. Empty(told)
    BY <1>2 DEF OrderInv, SlotsOK
  <2>3. Empty(job.s)'
    BY <1>1, <2>2 DEF Empty, Early
  <2>4. job'.s = told' - 1 /\ job'.v = log'[told'].v /\ cseq' <= job'.s
    BY <1>1, <1>2 DEF OrderInv, HostsOK
  <2> QED BY <1>1, <1>3, <2>1, <2>3, <2>4 DEF StoringOK
<1>7. SlotsOK'
  <2>1. ASSUME NEW s \in Seqno PROVE Empty(s)' = Empty(s)
    BY <1>1 DEF Empty, Early
  <2>2. ASSUME NEW s \in Seqno, s >= told' PROVE Empty(s)'
    <3>1. s >= told
      BY <1>1, <1>2, <2>2
    <3> QED BY <2>1, <3>1 DEF OrderInv, SlotsOK
  <2>3. ASSUME NEW s \in Seqno, cseq <= s, s < told', s # job'.s
        PROVE  slots[s] # Free /\ objs[slots[s]].vval = log[s + 1].v
    <3>1. s < told
      BY <1>1, <1>2, <2>3
    <3> QED BY <1>4, <2>3, <3>1 DEF OrderInv, SlotsOK
  <2>4. \A s \in Seqno : s >= Len(log) => slots[s] = Free
    BY DEF OrderInv, SlotsOK
  <2> QED BY <1>1, <1>4, <2>2, <2>3, <2>4 DEF SlotsOK
<1>8. HostsOK'
  BY <1>1, <1>2 DEF OrderInv, HostsOK
<1>9. JobOK'
  BY <1>1 DEF JobOK
<1> QED BY <1>5, <1>6, <1>7, <1>8, <1>9 DEF OrderInv

\* A LEARN that comes before its ACCEPT is neither the leader's nor the node's.
LEMMA TakeLearnOrder ==
  ASSUME IInv, OrderInv, NEW b \in Node, NEW s \in Seqno, TakeLearn(b, s)
  PROVE  OrderInv'
<1>1. /\ UNCHANGED <<me, crnd, starter, sum, slots, objs, cseq, ref, log, told, hosts>>
      /\ pc["pox"] = "idle" /\ pc'["pox"] = "get_learn" /\ s < Len(log)
      /\ job'.s = s /\ job'.src = b /\ b # me /\ (b = Leader => s < told)
  BY Types DEF IInv, TakeLearn, Goto, shared
<1>2. ~Storing /\ ~Storing'
  BY <1>1 DEF Storing
<1>3. JobOK'
  <2>1. s \in Nat /\ told \in Nat /\ Len(log) \in Nat
    BY Types DEF IInv
  <2>2. s >= told => b \in Early
    BY <1>1, <2>1 DEF OrderInv, RoundsOK, Early
  <2> QED BY <1>1, <2>2 DEF JobOK, Early
<1>4. \A i \in Seqno : Empty(i)' = Empty(i)
  BY <1>1 DEF Empty, Early
<1> QED BY <1>1, <1>2, <1>3, <1>4 DEF OrderInv, RoundsOK, StoringOK, SlotsOK, HostsOK

\* get_slot adds a slot without a vote, or none.
LEMMA GetOrder ==
  ASSUME IInv, OrderInv, GetForAccept \/ GetForLearn
  PROVE  OrderInv'
<1>1. /\ UNCHANGED <<me, crnd, starter, sum, cseq, job, log, told, hosts>> /\ GetSlot
      /\ \/ pc["pox"] = "get_accept" /\ pc'["pox"] = "compare" /\ Storing /\ Storing'
         \/ pc["pox"] = "get_learn" /\ pc'["pox"] = "count" /\ ~Storing /\ ~Storing'
  BY Types DEF IInv, GetForAccept, GetForLearn, Goto, Storing
<1>2. /\ slots'[job.s] = ref'
      /\ \A s \in Seqno : s # job.s => slots'[s] = slots[s] /\ slots[s] # ref'
      /\ \A s \in Seqno : slots[s] # Free =>
           slots'[s] = slots[s] /\ objs'[slots[s]] = objs[slots[s]]
      /\ slots[job.s] = Free => objs'[ref'] = NewSlot
  BY <1>1, GetSlotOK DEF IInv
<1>3. job.s < Len(log)
  BY <1>1 DEF OrderInv, JobOK
<1>4. \A s \in Seqno : Empty(s) => Empty(s)'
  <2>1. job.s \in Seqno /\ Early' = Early
    BY <1>1, Types DEF IInv, Early
  <2>2. ASSUME NEW s \in Seqno, slots[s] # Free
        PROVE  slots'[s] = slots[s] /\ objs'[slots[s]] = objs[slots[s]]
    BY <1>2, <2>2
  <2>3. ASSUME NEW s \in Seqno, slots[s] = Free, slots'[s] # Free
        PROVE  objs'[slots'[s]] = NewSlot
    BY <1>2, <2>1, <2>3
  <2> QED BY <2>1, <2>2, <2>3 DEF Empty, NewSlot
<1>5. StoringOK'
  <2>1. Storing => Empty(job.s)'
    <3>1. Storing => Empty(job.s)
      BY DEF OrderInv, StoringOK
    <3>2. job.s \in Seqno
      BY Types DEF IInv
    <3> QED BY <1>1, <1>4, <3>1, <3>2 DEF Empty, Early
  <2> QED BY <1>1, <1>2, <2>1 DEF OrderInv, StoringOK, Empty
<1>6. SlotsOK'
  <2>1. \A s \in Seqno : s >= told => Empty(s)'
    BY <1>4 DEF OrderInv, SlotsOK
  <2>2. \A s \in Seqno : slots'[s] # slots[s] => s = job.s
    BY <1>2
  <2>3. job.s \in Nat /\ Len(log) \in Nat
    BY Types DEF IInv
  <2>4. \A s \in Seqno : s >= Len(log) => slots'[s] = Free
    BY <1>3, <2>2, <2>3 DEF OrderInv, SlotsOK
  <2> QED BY <1>1, <1>2, <2>1, <2>4 DEF OrderInv, SlotsOK
<1>7. JobOK'
  BY <1>1, <1>3 DEF OrderInv, JobOK, Early
<1> QED BY <1>1, <1>5, <1>6, <1>7 DEF OrderInv, RoundsOK, HostsOK

\* The ACCEPT is not refused, and its packet is stored.
LEMMA AcceptOrder ==
  ASSUME IInv, OrderInv, Compare \/ EnterRound \/ Store
  PROVE  OrderInv'
<1>1. UNCHANGED <<me, starter, sum, slots, cseq, job, ref, log, told, hosts>> /\ Storing
  BY DEF Compare, EnterRound, Store, shared, Storing
<1>2. HostsOK' /\ JobOK' /\ job.s \in Seqno /\ job.s < told /\ told \in Nat /\ Seqno \subseteq Nat
  <2>1. job.s \in Seqno /\ job.s < told /\ told \in Nat /\ Seqno \subseteq Nat
    BY <1>1, Types DEF IInv, OrderInv, StoringOK
  <2>2. HostsOK'
    BY <1>1 DEF OrderInv, HostsOK
  <2>3. JobOK'
    <3>1. job.s < Len(log) /\ ~(job.s >= told)
      BY <1>1, <2>1, Types DEF IInv, OrderInv, JobOK, Storing
    <3> QED BY <1>1, <3>1 DEF JobOK
  <2> QED BY <2>1, <2>2, <2>3
<1>3. CASE Compare
  <2>1. crnd' = crnd /\ objs' = objs /\ pc["pox"] = "compare" /\ pc'["pox"] = "enter"
    <3>1. slots[job.s] = ref /\ ref \in Obj /\ objs[ref].vrnd = 0
      BY <1>1, <1>3, FreeFacts DEF IInv, RefKept, OrderInv, StoringOK, Empty, Compare
    <3> QED BY <1>1, <1>3, <3>1, Types DEF IInv, OrderInv, StoringOK, Compare, Goto, shared
  <2>2. Storing'
    BY <2>1 DEF Storing
  <2>3. RoundsOK' /\ StoringOK' /\ SlotsOK'
    BY <1>1, <2>1, <2>2 DEF OrderInv, RoundsOK, StoringOK, SlotsOK, Empty, Early
  <2> QED BY <1>2, <2>3 DEF OrderInv
<1>4. CASE EnterRound
  <2>1. crnd' = job.n /\ objs' = objs /\ pc["pox"] = "enter" /\ pc'["pox"] = "store"
    BY <1>4, Types DEF IInv, EnterRound, Goto
  <2>2. Storing'
    BY <2>1 DEF Storing
  <2>3. RoundsOK' /\ StoringOK' /\ SlotsOK'
    <3>1. /\ job.n \in Nat /\ job.n > 0 /\ NextRound \in Nat
          /\ me # Leader => job.n = NextRound
      BY <1>1, Types, NodeFacts DEF IInv, OrderInv, StoringOK
    <3>2. RoundsOK'
      BY <1>1, <2>1, <3>1 DEF OrderInv, RoundsOK
    <3>3. StoringOK'
      BY <1>1, <2>1, <3>1 DEF OrderInv, StoringOK, Empty, Early
    <3>4. SlotsOK'
      BY <1>1, <2>1, <2>2 DEF OrderInv, SlotsOK, Empty, Early
    <3> QED BY <3>2, <3>3, <3>4
  <2> QED BY <1>2, <2>3 DEF OrderInv
<1>5. CASE Store
  <2>1. /\ crnd' = crnd /\ pc["pox"] = "store" /\ pc'["pox"] = "get_learn"
        /\ objs' = [objs EXCEPT ![ref].vrnd = job.n, ![ref].vval = job.v]
    BY <1>5, Types DEF IInv, Store, Goto
  <2>2. ~Storing'
    BY <2>1 DEF Storing
  <2>3. ref \in Obj /\ \A s \in Seqno : s # job.s => slots[s] # ref
    BY <2>1 DEF IInv, RefKept
  <2>4. objs'[ref].vval = job.v /\ \A i \in Obj : i # ref => objs'[i] = objs[i]
    BY <2>1, <2>3, Types DEF IInv, Slot
  <2>5. slots[job.s] = ref /\ job.v = log[job.s + 1].v /\ job.s + 1 = told
    <3>1. slots[job.s] = ref /\ job.v = log[told].v /\ job.s = told - 1
      BY <1>1, <2>1 DEF OrderInv, StoringOK
    <3>2. job.s + 1 = told
      BY <3>1, Types DEF IInv
    <3> QED BY <3>1, <3>2
  <2>6. SlotsOK'
    <3>1. ASSUME NEW s \in Seqno, s >= told PROVE Empty(s)'
      <4>1. s # job.s /\ slots[s] # ref
        BY <1>2, <2>3, <3>1
      <4>2. slots[s] # Free => objs'[slots[s]] = objs[slots[s]]
        BY <2>4, <4>1, Types DEF IInv
      <4> QED BY <1>1, <3>1, <4>2 DEF OrderInv, SlotsOK, Empty, Early
    <3>2. ASSUME NEW s \in Seqno, cseq <= s, s < told
          PROVE  slots[s] # Free /\ objs'[slots[s]].vval = log[s + 1].v
      <4>1. CASE s = job.s
        BY <2>3, <2>4, <2>5, <4>1, FreeFacts
      <4>2. CASE s # job.s
        BY <2>3, <2>4, <3>2, <4>2, Types DEF IInv, OrderInv, SlotsOK
      <4> QED BY <4>1, <4>2
    <3> QED BY <1>1, <3>1, <3>2 DEF OrderInv, SlotsOK
  <2>7. RoundsOK' /\ StoringOK'
    BY <1>1, <2>1, <2>2 DEF OrderInv, RoundsOK, StoringOK
  <2> QED BY <1>2, <2>6, <2>7 DEF OrderInv
<1> QED BY <1>3, <1>4, <1>5

\* Counting a LEARN leaves the packets of the slots alone, and a slot whose
\* ACCEPT has not come in gets an early vote.
LEMMA CountOrder ==
  ASSUME IInv, OrderInv, Count
  PROVE  OrderInv'
<1>1. /\ UNCHANGED <<me, crnd, starter, sum, slots, cseq, job, ref, log, told, hosts>>
      /\ ~Storing /\ ~Storing' /\ pc["pox"] = "count"
      /\ pc'["pox"] \notin {"get_learn", "count"}
  BY Types DEF IInv, Count, Goto, Storing
<1>2. /\ ref \in Obj /\ \A s \in Seqno : s # job.s => slots[s] # ref
      /\ job.s \in Seqno
  BY Types DEF IInv, RefKept, Count
<1>3. \A i \in Obj :
        /\ objs'[i].vval = objs[i].vval /\ objs'[i].vrnd = objs[i].vrnd
        /\ i # ref => objs'[i].learns = objs[i].learns
        /\ objs'[i].learns \subseteq objs[i].learns \cup {job.src}
  <2>1. CASE objs' = objs
    BY <2>1
  <2>2. CASE CountsLearn(objs[ref])
    <3> DEFINE L == (IF job.n > objs[ref].hrnd THEN {} ELSE objs[ref].learns) \cup {job.src}
    <3>1. objs' = [objs EXCEPT ![ref].learns = L, ![ref].hrnd = job.n]
      BY <2>2 DEF Count
    <3>2. L \subseteq objs[ref].learns \cup {job.src}
      OBVIOUS
    <3> HIDE DEF L
    <3> QED BY <1>2, <3>1, <3>2, Types DEF IInv, Slot
  <2> QED BY <2>1, <2>2 DEF Count
<1>4. ASSUME NEW s \in Seqno, s >= told PROVE Empty(s)'
  <2> SUFFICES ASSUME slots[s] # Free
               PROVE  objs'[slots[s]].learns \subseteq Early /\ objs'[slots[s]].vrnd = 0
    BY <1>1 DEF Empty, Early
  <2>1. slots[s] \in Obj /\ objs[slots[s]].learns \subseteq Early /\ objs[slots[s]].vrnd = 0
    BY <1>4, Types DEF IInv, OrderInv, SlotsOK, Empty
  <2>2. CASE s = job.s
    <3>1. job.src \in Early
      BY <1>1, <1>4, <2>2 DEF OrderInv, JobOK
    <3> QED BY <1>3, <2>1, <3>1
  <2>3. CASE s # job.s
    BY <1>2, <1>3, <2>1, <2>3
  <2> QED BY <2>2, <2>3
<1>5. SlotsOK'
  <2>1. ASSUME NEW s \in Seqno, slots[s] # Free
        PROVE  objs'[slots[s]].vval = objs[slots[s]].vval
    BY <1>3, <2>1, Types DEF IInv
  <2> QED BY <1>1, <1>4, <2>1 DEF OrderInv, SlotsOK
<1>6. JobOK'
  BY <1>1 DEF OrderInv, JobOK
<1> QED BY <1>1, <1>5, <1>6 DEF OrderInv, RoundsOK, StoringOK, HostsOK

\* What is sent is the packet of the log.
LEMMA SendFacts ==
  ASSUME Few, IInv, OrderInv, NEW t \in Thread, Send(t)
  PROVE  /\ cseq \in Seqno /\ cseq < told /\ told <= Len(log)
         /\ objs[slots[cseq]].vval = log[cseq + 1].v
         /\ Storing => cseq # job.s
<1>1. /\ cseq \in Seqno /\ slots[cseq] # Free /\ Learned(objs[slots[cseq]])
  BY DEF IInv, HeadLearned, Send
<1>2. ~Empty(cseq)
  BY <1>1, EarlyVotes DEF IInv, Empty
<1>3. cseq < told /\ (Storing => cseq # job.s)
  BY <1>1, <1>2, Types DEF IInv, OrderInv, StoringOK, SlotsOK
<1> QED BY <1>1, <1>3, Types DEF IInv, OrderInv, SlotsOK

\* The queue is walked by the numbers of the log.
LEMMA QueueOrder ==
  ASSUME Few, IInv, OrderInv, NEW t \in Thread, ProcessQueue(t)
  PROVE  OrderInv'
<1>1. /\ UNCHANGED <<me, crnd, starter, sum, slots, objs, job, ref, log, told>>
      /\ Storing' = Storing
      /\ pc'["pox"] # "idle" => pc["pox"] # "idle"
      /\ pc'["pox"] \notin {"get_learn", "count"} \/ pc'["pox"] = pc["pox"]
      /\ Storing => pc'["pox"] = pc["pox"]
  BY Types DEF IInv, ProcessQueue, Acquire, LookAtHead, Send, Release, AfterQueue, Goto,
               Storing, Thread
<1>2. CASE UNCHANGED <<cseq, hosts>>
  BY <1>1, <1>2 DEF OrderInv, RoundsOK, StoringOK, SlotsOK, HostsOK, JobOK, Empty,
                        Early
<1>3. CASE Send(t) /\ known
  <2>1. cseq' = cseq + 1 /\ hosts' = Append(hosts, objs[slots[cseq]].vval)
    BY <1>3 DEF Send
  <2>2. /\ cseq \in Seqno /\ cseq < told /\ told <= Len(log)
        /\ objs[slots[cseq]].vval = log[cseq + 1].v
        /\ Storing => cseq # job.s
    BY <1>3, SendFacts
  <2>3. /\ Len(hosts') = Len(hosts) + 1 /\ hosts'[Len(hosts) + 1] = log[cseq + 1].v
        /\ \A i \in 1..Len(hosts) : hosts'[i] = hosts[i]
    BY <2>1, <2>2, Types DEF IInv
  <2>4. HostsOK'
    <3>1. Len(hosts) = cseq /\ \A i \in 1..cseq : hosts[i] = log[i].v
      BY DEF OrderInv, HostsOK
    <3>2. cseq \in Nat /\ told \in Nat
      BY Types DEF IInv
    <3> QED BY <1>1, <2>1, <2>2, <2>3, <3>1, <3>2 DEF HostsOK
  <2>5. /\ \A s \in Seqno : Empty(s)' = Empty(s)
        /\ cseq \in Nat /\ job.s \in Nat /\ job.s \in Seqno /\ Seqno \subseteq Nat
    BY <1>1, Types DEF IInv, Empty, Early
  <2>6. StoringOK' /\ SlotsOK'
    <3>1. StoringOK'
      <4> SUFFICES ASSUME Storing PROVE StoringOK'
        BY <1>1 DEF StoringOK
      <4>1. cseq' <= job.s /\ Empty(job.s)'
        <5>1. cseq <= job.s /\ cseq # job.s /\ Empty(job.s)
          BY <2>2 DEF OrderInv, StoringOK
        <5> QED BY <1>1, <2>1, <2>5, <5>1 DEF Empty, Early
      <4> QED BY <1>1, <4>1 DEF OrderInv, StoringOK
    <3>2. SlotsOK'
      <4>1. \A s \in Seqno : cseq' <= s => cseq <= s
        BY <2>1, <2>5
      <4> QED BY <1>1, <2>5, <4>1 DEF OrderInv, SlotsOK
    <3> QED BY <3>1, <3>2
  <2>7. RoundsOK' /\ JobOK'
    BY <1>1 DEF OrderInv, RoundsOK, JobOK, Early
  <2> QED BY <2>4, <2>6, <2>7 DEF OrderInv
<1> QED BY <1>2, <1>3 DEF ProcessQueue, Acquire, LookAtHead, Send

\* What is collected is below the head.
LEMMA PumpOrder ==
  ASSUME IInv, OrderInv, Wake \/ ReadRound \/ GarbageCollect \/ LearnHosts
  PROVE  OrderInv'
<1>1. /\ UNCHANGED <<me, crnd, starter, sum, objs, cseq, job, ref, log, told, hosts>>
      /\ Storing' = Storing /\ pc'["pox"] = pc["pox"]
  BY Types DEF IInv, Wake, ReadRound, GarbageCollect, LearnHosts, Goto, shared, threads, Storing
<1>2. \A s \in Seqno : slots'[s] = slots[s] \/ (slots'[s] = Free /\ s < cseq)
  <2>1. CASE GarbageCollect
    <3>1. \A s \in Finished : s < cseq
      BY DEF IInv, ProcessedBelow, Finished
    <3> QED BY <2>1, <3>1 DEF GarbageCollect
  <2>2. CASE ~GarbageCollect
    BY <2>2 DEF Wake, ReadRound, LearnHosts, shared, threads
  <2> QED BY <2>1, <2>2
<1>3. \A s \in Seqno : Empty(s) => Empty(s)'
  BY <1>1, <1>2 DEF Empty, Early
<1>4. StoringOK' /\ SlotsOK'
  <2>1. cseq \in Nat /\ job.s \in Seqno /\ job.s \in Nat /\ Seqno \subseteq Nat
    BY Types DEF IInv
  <2>2. ASSUME Storing PROVE slots'[job.s] = slots[job.s]
    <3>1. cseq <= job.s
      BY <2>2 DEF OrderInv, StoringOK
    <3>2. ~(job.s < cseq)
      BY <2>1, <3>1
    <3> QED BY <1>2, <2>1, <3>2
  <2>3. \A s \in Seqno : cseq <= s => slots'[s] = slots[s]
    BY <1>2, <2>1
  <2>4. StoringOK'
    BY <1>1, <1>3, <2>1, <2>2 DEF OrderInv, StoringOK
  <2>5. SlotsOK'
    BY <1>1, <1>2, <1>3, <2>3 DEF OrderInv, SlotsOK
  <2> QED BY <2>4, <2>5
<1> QED BY <1>1, <1>4 DEF OrderInv, RoundsOK, HostsOK, JobOK, Early

\* Every step keeps OrderInv.
LEMMA NextOrderInv ==
  ASSUME OrderlyStart, Few, IInv, OrderInv, [Next]_vars
  PROVE  OrderInv'
<1>1. CASE Start
  BY <1>1, StartOrder
<1>2. CASE Handle
  BY <1>2, GetOrder, AcceptOrder, CountOrder DEF Handle
<1>3. CASE \E t \in Thread : ProcessQueue(t)
  BY <1>3, QueueOrder
<1>4. CASE Wake \/ ReadRound \/ GarbageCollect \/ LearnHosts
  BY <1>4, PumpOrder
<1>5. CASE \/ TakeAccept
           \/ \E v \in Packet : TakeClient(v) \/ Number(v)
           \/ \E b \in Node, s \in Seqno : TakeLearn(b, s)
  BY <1>5, TakeClientOrder, NumberOrder, TakeAcceptOrder, TakeLearnOrder
<1>6. CASE UNCHANGED vars
  BY <1>6 DEF vars, shared, threads, OrderInv, RoundsOK, StoringOK, SlotsOK, HostsOK, JobOK,
              Storing, Empty, Early
<1> QED BY <1>1, <1>2, <1>3, <1>4, <1>5, <1>6 DEF Next, Pox, Pump, Thread

-----------------------------------------------------------------------------
(* The refinement *)

Out == [a \in Node |-> IF a = me THEN hosts ELSE <<>>]

\* The initial states map to the initial state of PacketOrder.
LEMMA InitRefines ==
  ASSUME Init
  PROVE  Order!Init
<1>1. Packets = <<>>
  BY DEF Init, Packets
<1>2. [a \in Node |-> IF a = me THEN hosts ELSE <<>>] = [a \in Node |-> <<>>]
  BY DEF Init
<1> QED BY <1>1, <1>2 DEF Order!Init

\* Only sending changes what the hosts have, and by one packet of the log.
LEMMA NextRefines ==
  ASSUME Few, IInv, OrderInv, [Next]_vars
  PROVE  [Order!Next]_<<Packets, Out>>
<1>1. CASE \E t \in Thread : Send(t) /\ known
  <2>1. PICK t \in Thread : Send(t) /\ known
    BY <1>1
  <2>2. /\ cseq \in Seqno /\ cseq < Len(log)
        /\ objs[slots[cseq]].vval = log[cseq + 1].v
    BY <2>1, SendFacts, Types DEF IInv
  <2>3. me' = me /\ log' = log /\ hosts' = Append(hosts, log[cseq + 1].v)
    BY <2>1, <2>2 DEF Send
  <2> DEFINE new == [i \in 1..1 |-> log[cseq + 1].v]
  <2>4. log[cseq + 1].v \in Packet /\ Len(log) \in Nat /\ cseq \in Nat
    <3>1. cseq \in Nat /\ Len(log) \in Nat /\ log \in Seq([n: Nat, v: Packet])
      BY Types DEF IInv
    <3>2. cseq + 1 \in 1..Len(log)
      BY <2>2, <3>1
    <3>3. log[cseq + 1] \in [n: Nat, v: Packet]
      BY <3>1, <3>2, ElementOfSeq
    <3> QED BY <3>1, <3>3
  <2>5. Packets' = Packets /\ Len(Packets) = Len(log)
        /\ Packets[cseq + 1] = log[cseq + 1].v
    BY <2>2, <2>3, <2>4 DEF Packets
  <2>6. me \in Node /\ hosts \in Seq(Packet \cup {NoPacket}) /\ Len(hosts) = cseq
    BY Types DEF IInv, OrderInv, HostsOK
  <2>7. Append(hosts, log[cseq + 1].v) = hosts \o new
    BY <2>4, <2>6
  <2>8. Out' = [Out EXCEPT ![me] = @ \o new]
    BY <2>3, <2>6, <2>7 DEF Out
  <2>9. new \in [1..1 -> Packet \cup {}] /\ \A i \in 1..1 : new[i] = Packets'[cseq + i]
    BY <2>4, <2>5
  <2>10. Out[me] = hosts
    BY <2>6 DEF Out
  <2> HIDE DEF new
  <2>11. ASSUME NEW a \in Node, a = me PROVE Order!Forward(a)
    <3>1. 1 \in 0..Len(Packets')
      BY <2>2, <2>4, <2>5
    <3>2. Len(Out[me]) + 1 <= Len(Packets')
      BY <2>2, <2>4, <2>5, <2>6, <2>10
    <3>3. \A i \in 1..1 : new[i] \in {Packets'[Len(Out[me]) + i]} \cup {}
      BY <2>6, <2>9, <2>10
    <3>4. \E k \in 0..Len(Packets') : \E f \in [1..k -> Packet \cup {}] :
            /\ Len(Out[me]) + k <= Len(Packets')
            /\ \A i \in 1..k : f[i] \in {Packets'[Len(Out[me]) + i]} \cup {}
            /\ Out' = [Out EXCEPT ![me] = @ \o f]
      BY <2>8, <2>9, <3>1, <3>2, <3>3
    <3> QED BY <2>11, <3>4 DEF Order!Forward, Out
  <2>12. UNCHANGED Packets
    BY <2>5
  <2>13. Order!Next
    BY <2>6, <2>11, <2>12, Zenon DEF Order!Next
  <2> QED BY <2>13, Zenon DEF Out
<1>2. CASE \E v \in Packet : TakeClient(v) \/ Number(v)
  <2>1. PICK v \in Packet : TakeClient(v) \/ Number(v)
    BY <1>2
  <2>2. me' = me /\ hosts' = hosts /\ Out' = Out
    BY <2>1 DEF TakeClient, Number, Out
  <2>3. PICK n \in Nat : log' = Append(log, [n |-> n, v |-> v])
    BY <2>1, Types, NodeFacts DEF IInv, TakeClient, Number
  <2>4. Packets' = Append(Packets, v)
    <3>1. log \in Seq([n: Nat, v: Packet]) /\ Len(log) \in Nat
      BY Types DEF IInv
    <3>2. /\ Len(log') = Len(log) + 1 /\ log'[Len(log) + 1].v = v
          /\ \A i \in 1..Len(log) : log'[i] = log[i]
      BY <2>3, <3>1, AppendProperties
    <3>3. Packets' = [i \in 1..Len(log) + 1 |-> IF i = Len(log) + 1 THEN v ELSE log[i].v]
      BY <3>1, <3>2 DEF Packets
    <3>4. Packets \in Seq(Packet) /\ Len(Packets) = Len(log)
      <4>1. \A i \in 1..Len(log) : log[i].v \in Packet
        <5> TAKE i \in 1..Len(log)
        <5>1. log[i] \in [n: Nat, v: Packet]
          BY <3>1, ElementOfSeq
        <5> QED BY <5>1
      <4> QED BY <3>1, <4>1 DEF Packets
    <3>5. Append(Packets, v)
             = [i \in 1..Len(log) + 1 |-> IF i = Len(log) + 1 THEN v ELSE Packets[i]]
      <4>1. /\ Append(Packets, v) \in Seq(Packet) /\ Len(Append(Packets, v)) = Len(log) + 1
            /\ \A i \in 1..Len(log) : Append(Packets, v)[i] = Packets[i]
            /\ Append(Packets, v)[Len(log) + 1] = v
        BY <3>4, AppendProperties
      <4>2. Append(Packets, v) \in [1..Len(log) + 1 -> Packet]
        BY <4>1, LenProperties
      <4>3. \A i \in 1..Len(log) + 1 :
              Append(Packets, v)[i] = IF i = Len(log) + 1 THEN v ELSE Packets[i]
        BY <3>1, <4>1
      <4> QED BY <4>2, <4>3
    <3>6. \A i \in 1..Len(log) + 1 : i # Len(log) + 1 => Packets[i] = log[i].v
      BY <3>1 DEF Packets
    <3> QED BY <3>3, <3>5, <3>6
  <2>5. Order!Submit
    BY <2>4 DEF Order!Submit
  <2> DEFINE none == [i \in 1..0 |-> v]
  <2>6. /\ me \in Node /\ hosts \in Seq(Packet \cup {NoPacket})
        /\ Len(hosts) = cseq /\ cseq <= Len(log)
        /\ Len(log) \in Nat /\ cseq \in Nat
    BY Types DEF IInv, OrderInv, HostsOK
  <2>7. hosts \o none = hosts
    BY <2>6
  <2>8. Len(Packets') = Len(log) + 1
    BY <2>3, <2>6 DEF Packets
  <2>9. Out' = [Out EXCEPT ![me] = @ \o none] /\ Out[me] = hosts
    BY <2>2, <2>6, <2>7 DEF Out
  <2>10. none \in [1..0 -> Packet \cup {}]
    OBVIOUS
  <2> HIDE DEF none
  <2>11. ASSUME NEW a \in Node, a = me PROVE Order!Forward(a)
    <3>1. 0 \in 0..Len(Packets') /\ Len(Out[me]) + 0 <= Len(Packets')
      BY <2>6, <2>8, <2>9
    <3>2. \E k \in 0..Len(Packets') : \E f \in [1..k -> Packet \cup {}] :
            /\ Len(Out[me]) + k <= Len(Packets')
            /\ \A i \in 1..k : f[i] \in {Packets'[Len(Out[me]) + i]} \cup {}
            /\ Out' = [Out EXCEPT ![me] = @ \o f]
      <4> WITNESS 0 \in 0..Len(Packets')
      <4> WITNESS none \in [1..0 -> Packet \cup {}]
      <4> QED BY <2>9, <3>1
    <3> QED BY <2>11, <3>2 DEF Order!Forward, Out
  <2>12. Order!Next
    BY <2>5, <2>6, <2>11, Zenon DEF Order!Next
  <2> QED BY <2>12, Zenon DEF Out
<1>3. CASE UNCHANGED <<me, log, told, hosts>>
  BY <1>3 DEF Packets, Out
<1>4. CASE Start \/ Pox \/ Pump \/ LearnHosts \/ UNCHANGED vars
  <2>1. CASE Start \/ LearnHosts \/ UNCHANGED vars
    BY <1>3, <2>1 DEF Start, MakeLeader, PickNextReads, PickNextWrites, StartPump, LearnHosts, vars
  <2>2. CASE Handle \/ Wake \/ ReadRound \/ GarbageCollect
    BY <1>3, <2>2 DEF Handle, GetForAccept, Compare, EnterRound, Store, GetForLearn, Count,
                      Wake, ReadRound, GarbageCollect
  <2>3. ASSUME NEW t \in Thread, ProcessQueue(t)
        PROVE  [Order!Next]_<<Packets, Out>>
    BY <1>1, <1>3, <2>3 DEF ProcessQueue, Acquire, LookAtHead, Send
  <2> QED BY <1>4, <2>1, <2>2, <2>3 DEF Pox, Pump, Thread
<1>5. CASE TakeAccept \/ \E b \in Node, s \in Seqno : TakeLearn(b, s)
  <2>1. UNCHANGED <<me, log, hosts>>
    BY <1>5 DEF TakeAccept, TakeLearn
  <2> QED BY <2>1 DEF Packets, Out
<1> QED BY <1>2, <1>4, <1>5 DEF Next

\* ImplementsPacketOrder, for every number of packets and slots and up to four
\* nodes, when clients wait for start-up and the leader's round is not below the
\* first round of another node: the hosts get the packets in order, each once,
\* and no empty frame.  On a line of five a third LEARN may come before the
\* ACCEPT, and then an empty frame is sent (on_learn asks for no vval).
THEOREM Refinement == ASSUME OrderlyStart, Few PROVE Spec => ImplementsPacketOrder
<1>1. Init => IInv /\ OrderInv /\ Order!Init
  BY InitIInv, InitOrder, InitRefines
<1>2. IInv /\ OrderInv /\ [Next]_vars => IInv' /\ OrderInv'
  BY NextIInv, NextOrderInv
<1>3. IInv /\ OrderInv /\ [Next]_vars =>
        [Order!Next]_<<Packets, [a \in Node |-> IF a = me THEN hosts ELSE <<>>]>>
  BY NextRefines DEF Out
<1> QED BY <1>1, <1>2, <1>3, PTL DEF Spec, ImplementsPacketOrder, Order!Spec
=============================================================================
