-------------------------- MODULE InsanePaxosProofs --------------------------
(* Proofs about InsanePaxos and StartPaxos, for any number of nodes, values and *)
(* rounds.                                                                      *)
EXTENDS StartPaxos, FiniteSetTheorems, SequenceTheorems, TLAPS

-----------------------------------------------------------------------------
(* The inductive invariant *)

\* pickNext deals the rounds out to the nodes, like cards.
Owns(i, r) == \E k \in Nat : r = i + k * N

\* A node prepares and proposes in rounds of its own only, up to its current one.
RoundsOwned ==
  /\ \A i \in Node : crnd[i] # 0 => Owns(i, crnd[i])
  /\ \A m \in msgs : m.type \in {"prepare", "accept"} =>
       Owns(m.src, m.crnd) /\ m.crnd <= crnd[m.src]

\* An acceptor has voted for what it says it has, and in no later round.
VotesKept ==
  \A a \in Node :
    /\ vrnd[a] <= rnd[a]
    /\ vrnd[a] > 0 => Voted(a, vrnd[a], vval[a])
    /\ \A r \in Round, x \in AnyValue : Voted(a, r, x) => r <= vrnd[a]

\* What a promise says of earlier votes stays true, for the acceptor is in the
\* promise's round by then.
PromisesKept ==
  \A p \in msgs : p.type = "promise" =>
    /\ p.rnd <= rnd[p.src] /\ p.vrnd < p.rnd
    /\ p.vrnd > 0 => Voted(p.src, p.vrnd, p.vval)
    /\ \A c \in Round, x \in AnyValue :
         p.vrnd < c /\ c < p.rnd => ~Voted(p.src, c, x)

\* An acceptor promises once per round.
PromiseOnce ==
  \A p, q \in msgs :
    p.type = "promise" /\ q.type = "promise" /\ p.src = q.src /\ p.rnd = q.rnd => p = q

\* Proposers count the promises of their current round.
PromisesCounted ==
  \A i \in Node : \A p \in mv[i] : Promise(p.a, i, crnd[i], p.vrnd, p.vval) \in msgs

\* Whoever promised in round r.
Promised(r) == {p.src : p \in {q \in msgs : q.type = "promise" /\ q.rnd = r}}

\* An ACCEPT goes out when enough nodes have promised.
AcceptAfterEnough ==
  \A m \in msgs : m.type = "accept" => Cardinality(Promised(m.crnd)) >= Enough

\* What holds whoever gets a TRUST-VALUE.
PInv ==
  /\ TypeOK /\ RoundsOwned /\ VotesKept /\ PromisesKept /\ PromiseOnce
  /\ PromisesCounted /\ AcceptAfterEnough

-----------------------------------------------------------------------------
(* What needs every TRUST-VALUE to reach the node that it names *)

Addressed == Misaddressed = FALSE

OneAccept ==
  \A m1, m2 \in msgs :
    m1.type = "accept" /\ m2.type = "accept" /\ m1.crnd = m2.crnd => m1 = m2

\* While a proposer is in a round, the promises that it has proposed from stay
\* what it would propose from again.
ProposedFromPromises ==
  \A m \in msgs : m.type = "accept" /\ m.crnd = crnd[m.src] =>
    /\ Cardinality(mv[m.src]) >= Enough
    /\ Cardinality(mv[m.src]) = Enough => m.cval \in Pick(mv[m.src], v[m.src])

\* Votes are for what was proposed.
VotesProposed ==
  \A m \in msgs : m.type = "learn" =>
    \E p \in msgs : p.type = "accept" /\ p.crnd = m.rnd /\ p.cval = m.vval

\* Node a will never vote for anything in round c.
WontVote(a, c) == rnd[a] > c /\ \A x \in AnyValue : ~Voted(a, c, x)

Quorum == {Q \in SUBSET Node : Cardinality(Q) >= Enough}

\* Nothing but x was or will be chosen below round r.
SafeAt(x, r) ==
  \A c \in Round : 0 < c /\ c < r =>
    \E Q \in Quorum : \A a \in Q : Voted(a, c, x) \/ WontVote(a, c)

AcceptsSafe == \A m \in msgs : m.type = "accept" => SafeAt(m.cval, m.crnd)

\* Learners record votes.
LearnedVotes ==
  \A i \in Node : \A e \in values[i] : \E a \in Node : Voted(a, e[1], e[2])

IInv ==
  /\ PInv /\ OneAccept /\ ProposedFromPromises /\ VotesProposed /\ AcceptsSafe
  /\ LearnedVotes
-----------------------------------------------------------------------------
(* Counting *)

\* The numbers of nodes.
LEMMA NodeFacts ==
  /\ IsFiniteSet(Node) /\ Cardinality(Node) = N /\ N \in Nat /\ N > 0
  /\ Enough \in Nat /\ Enough > 0 /\ 2 * Enough >= N
<1>1. N \in Nat /\ N > 0 /\ N \in Int /\ 1 \in Int
  BY NAssumption
<1>2. IsFiniteSet(1..N) /\ Cardinality(1..N) = N
  BY <1>1, FS_Interval
<1> QED BY <1>1, <1>2 DEF Node, Enough

\* Enough and a majority have a node in common, also when N is even.
LEMMA QuorumMeetsMajority ==
  ASSUME NEW Q \in Quorum, NEW S \in SUBSET Node, Majority(S)
  PROVE  \E a \in Q : a \in S
<1>1. IsFiniteSet(S) /\ Cardinality(S) \in Nat /\ Cardinality(Q) \in Nat
  BY NodeFacts, FS_Subset, FS_CardinalityType DEF Quorum
<1>2. Cardinality(Q) + Cardinality(S) > Cardinality(Node)
  BY <1>1, NodeFacts DEF Quorum, Majority
<1>3. Q \cap S # {}
  BY <1>2, NodeFacts, FS_MajoritiesIntersect DEF Quorum
<1> QED BY <1>3

\* No set of nodes is left to be a majority besides a majority.
LEMMA MajoritiesMeet ==
  ASSUME NEW S \in SUBSET Node, NEW T \in SUBSET Node, Majority(S), Majority(T)
  PROVE  \E a \in S : a \in T
<1>1. Cardinality(S) \in Nat /\ Cardinality(T) \in Nat
  BY NodeFacts, FS_Subset, FS_CardinalityType
<1>2. Cardinality(S) + Cardinality(T) > Cardinality(Node)
  BY <1>1, NodeFacts DEF Majority
<1>3. S \cap T # {}
  BY <1>2, NodeFacts, FS_MajoritiesIntersect
<1> QED BY <1>3

\* A multiple of N that is not zero is at least N.
LEMMA Multiple ==
  ASSUME NEW d \in Nat, d > 0
  PROVE  d * N >= N
<1>1. d * N = N + (d - 1) * N /\ d - 1 \in Nat
  BY NodeFacts
<1>2. (d - 1) * N >= 0
  BY <1>1, NodeFacts
<1> QED BY <1>1, <1>2, NodeFacts

\* Of two nodes that own a round, none has the larger number.
LEMMA OwnsNotAbove ==
  ASSUME NEW i \in Node, NEW j \in Node, NEW k \in Nat, NEW l \in Nat, k < l
  PROVE  i + k * N # j + l * N
<1>1. l - k \in Nat /\ l - k > 0
  OBVIOUS
<1>2. (l - k) * N >= N
  BY <1>1, Multiple
<1>3. l * N = k * N + (l - k) * N
  BY NodeFacts
<1>4. i \in Nat /\ j \in Nat /\ i <= N /\ j >= 1
  BY NodeFacts DEF Node
<1>5. k * N \in Nat /\ l * N \in Nat /\ (l - k) * N \in Nat
  BY <1>1, NodeFacts
<1>6. \A x, y, z \in Nat : z = x + y /\ y >= N => i + x # j + z
  BY <1>4, NodeFacts
<1> QED BY <1>2, <1>3, <1>5, <1>6, NodeFacts

\* No round has two owners.
LEMMA OwnsOnce ==
  ASSUME NEW i \in Node, NEW j \in Node, NEW r, Owns(i, r), Owns(j, r)
  PROVE  i = j
<1>1. PICK k \in Nat : r = i + k * N
  BY DEF Owns
<1>2. PICK l \in Nat : r = j + l * N
  BY DEF Owns
<1>3. k = l
  BY <1>1, <1>2, OwnsNotAbove
<1>4. k * N \in Nat /\ i \in Nat /\ j \in Nat
  BY NodeFacts DEF Node
<1> QED BY <1>1, <1>2, <1>3, <1>4

\* pickNext stays among the rounds of its node, and goes up.
LEMMA NextRoundFacts ==
  ASSUME TypeOK, RoundsOwned, NEW i \in Node
  PROVE  /\ Owns(i, NextRound(i)) /\ NextRound(i) > crnd[i] /\ NextRound(i) # 0
         /\ NextRound(i) \in Nat
<1>1. crnd[i] \in Nat /\ i \in Nat /\ i > 0
  BY MaxRoundAssumption, NodeFacts DEF TypeOK, Round, Node
<1>2. CASE crnd[i] = 0
  <2>1. i = i + 0 * N
    BY <1>1, NodeFacts
  <2> QED BY <1>1, <1>2, <2>1 DEF NextRound, Owns
<1>3. CASE crnd[i] # 0
  <2>1. PICK k \in Nat : crnd[i] = i + k * N
    BY <1>3 DEF RoundsOwned, Owns
  <2>2. crnd[i] + N = i + (k + 1) * N
    BY <1>1, <2>1, NodeFacts
  <2>3. Owns(i, crnd[i] + N)
    <3> USE DEF Owns
    <3> WITNESS k + 1 \in Nat
    <3> QED BY <2>2
  <2>4. NextRound(i) = crnd[i] + N
    BY <1>3 DEF NextRound
  <2> QED BY <1>1, <2>3, <2>4, NodeFacts
<1> QED BY <1>2, <1>3

-----------------------------------------------------------------------------
(* Messages *)

\* The fields of a message that was sent.
LEMMA MsgFacts ==
  ASSUME TypeOK, NEW m \in msgs
  PROVE  /\ m.type = "prepare" => m \in PrepareMsg
         /\ m.type = "promise" => m \in PromiseMsg
         /\ m.type = "accept" => m \in AcceptMsg
         /\ m.type = "learn" => m \in LearnMsg
         /\ m.src \in Node
BY DEF TypeOK, PrepareMsg, PromiseMsg, AcceptMsg, LearnMsg

\* The numbers of rounds.
LEMMA RoundFacts ==
  ASSUME TypeOK
  PROVE  /\ Round \subseteq Nat
         /\ \A i \in Node : rnd[i] \in Nat /\ vrnd[i] \in Nat /\ crnd[i] \in Nat
BY MaxRoundAssumption DEF TypeOK, Round

\* A LEARN is its acceptor's vote.
LEMMA LearnIsVote ==
  ASSUME TypeOK, NEW m \in msgs, m.type = "learn"
  PROVE  Voted(m.src, m.rnd, m.vval) /\ m.rnd \in Round \ {0} /\ m.vval \in AnyValue
<1>1. m = [type |-> "learn", src |-> m.src, rnd |-> m.rnd, vval |-> m.vval]
  BY MsgFacts DEF LearnMsg
<1> QED BY <1>1, MsgFacts DEF LearnMsg, Voted, Learn

\* What Voted says of the vote.
LEMMA VoteFacts ==
  ASSUME TypeOK, NEW a, NEW r, NEW x, Voted(a, r, x)
  PROVE  /\ Learn(a, r, x) \in msgs /\ Learn(a, r, x).type = "learn"
         /\ a \in Node /\ r \in Round /\ r \in Nat /\ r > 0 /\ x \in AnyValue
<1>1. Learn(a, r, x) \in msgs /\ Learn(a, r, x).type = "learn"
  BY DEF Voted, Learn
<1>2. Learn(a, r, x) \in LearnMsg
  BY <1>1, MsgFacts
<1> QED BY <1>1, <1>2, RoundFacts DEF Learn, LearnMsg

-----------------------------------------------------------------------------
(* Promises *)

\* The nodes that some promises are from.
Sources(M) == {p.a : p \in M}

\* A node is counted once, for it promises once per round.
LEMMA SourcesCount ==
  ASSUME TypeOK, PromiseOnce, NEW i, NEW r, NEW M \in SUBSET Vote,
         \A p \in M : Promise(p.a, i, r, p.vrnd, p.vval) \in msgs
  PROVE  /\ IsFiniteSet(M) /\ Cardinality(M) \in Nat
         /\ Sources(M) \subseteq Node /\ Sources(M) \subseteq Promised(r)
         /\ Cardinality(M) <= Cardinality(Sources(M))
<1>1. Sources(M) \subseteq Node
  BY DEF Sources, Vote
<1>2. ASSUME NEW p \in M
      PROVE  p.a \in Promised(r)
  <2> DEFINE q == Promise(p.a, i, r, p.vrnd, p.vval)
  <2>1. q \in msgs /\ q.type = "promise" /\ q.rnd = r /\ q.src = p.a
    BY DEF Promise
  <2> HIDE DEF q
  <2> QED BY <2>1 DEF Promised
<1>3. ASSUME NEW p \in M, NEW q \in M, p.a = q.a
      PROVE  p = q
  <2>1. Promise(p.a, i, r, p.vrnd, p.vval) = Promise(q.a, i, r, q.vrnd, q.vval)
    BY <1>3 DEF PromiseOnce, Promise
  <2>2. p.vrnd = q.vrnd /\ p.vval = q.vval
    BY <2>1 DEF Promise
  <2>3. p \in Vote /\ q \in Vote
    OBVIOUS
  <2> QED BY <1>3, <2>2, <2>3 DEF Vote
<1> DEFINE g == [a \in Sources(M) |-> CHOOSE p \in M : p.a = a]
<1>4. ASSUME NEW p \in M
      PROVE  p.a \in Sources(M) /\ g[p.a] = p
  BY <1>3 DEF Sources
<1>5. ASSUME NEW a \in Sources(M)
      PROVE  g[a] \in M
  BY <1>4 DEF Sources
<1>6. g \in Surjection(Sources(M), M)
  BY <1>4, <1>5 DEF Surjection
<1> HIDE DEF g
<1>7. IsFiniteSet(Sources(M))
  BY <1>1, NodeFacts, FS_Subset
<1>8. IsFiniteSet(M) /\ Cardinality(M) <= Cardinality(Sources(M))
  BY <1>6, <1>7, FS_Surjection
<1> QED BY <1>1, <1>2, <1>8, FS_CardinalityType DEF Sources

\* Who has promised are nodes.
LEMMA PromisedNodes ==
  ASSUME TypeOK, NEW r
  PROVE  /\ Promised(r) \subseteq Node /\ IsFiniteSet(Promised(r))
         /\ Cardinality(Promised(r)) \in Nat
<1>1. Promised(r) \subseteq Node
  BY MsgFacts DEF Promised
<1> QED BY <1>1, NodeFacts, FS_Subset, FS_CardinalityType

\* Promises are never taken back.
LEMMA PromisedGrows ==
  ASSUME TypeOK, TypeOK', msgs \subseteq msgs', NEW r
  PROVE  Cardinality(Promised(r)) <= Cardinality(Promised(r)')
<1>1. IsFiniteSet(Promised(r)')
  <2>1. Promised(r)' \subseteq Node
    BY DEF Promised, TypeOK, PrepareMsg, PromiseMsg, AcceptMsg, LearnMsg
  <2> QED BY <2>1, NodeFacts, FS_Subset
<1>2. Promised(r) \subseteq Promised(r)'
  BY DEF Promised
<1> QED BY <1>1, <1>2, FS_Subset

\* Only LEARNs change what was voted.
LEMMA SameVotes ==
  ASSUME msgs \subseteq msgs', \A m \in msgs' : m \in msgs \/ m.type # "learn",
         NEW a, NEW r, NEW x
  PROVE  Voted(a, r, x)' <=> Voted(a, r, x)
<1>1. Learn(a, r, x).type = "learn"
  BY DEF Learn
<1> QED BY <1>1 DEF Voted, Learn

-----------------------------------------------------------------------------
(* The steps *)

\* A leader that starts a round.
StartRound(i) ==
  /\ NextRound(i) <= MaxRound
  /\ crnd' = [crnd EXCEPT ![i] = NextRound(i)]
  /\ mv' = [mv EXCEPT ![i] = {}]
  /\ msgs' = msgs \cup {Prepare(i, NextRound(i))}
  /\ UNCHANGED <<rnd, vrnd, vval, values>>

\* A step that changes a value to propose at most.
KeepsRound == UNCHANGED <<rnd, vrnd, vval, crnd, mv, values, msgs>>

\* What is asked of a node has it start a round, or leaves everything as it was but
\* the value that it would propose.
LEMMA TrustSteps ==
  ASSUME NEW i \in Node, NEW c, OnTrust(i, c)
  PROVE  StartRound(i) \/ KeepsRound
BY DEF OnTrust, StartRound, KeepsRound

-----------------------------------------------------------------------------
(* Types *)

\* Starting a round keeps the types.
LEMMA StartRoundType ==
  ASSUME TypeOK, RoundsOwned, NEW i \in Node, StartRound(i), v' \in [Node -> AnyValue]
  PROVE  TypeOK'
<1>1. NextRound(i) \in Round \ {0}
  BY NextRoundFacts, MaxRoundAssumption DEF StartRound, Round
<1>2. Prepare(i, NextRound(i)) \in PrepareMsg
  BY <1>1 DEF Prepare, PrepareMsg
<1>3. crnd' \in [Node -> Round]
  BY <1>1 DEF StartRound, TypeOK
<1>4. mv' \in [Node -> SUBSET Vote]
  BY DEF StartRound, TypeOK
<1>5. msgs' \subseteq PrepareMsg \cup PromiseMsg \cup AcceptMsg \cup LearnMsg
  BY <1>2 DEF StartRound, TypeOK
<1>6. UNCHANGED <<rnd, vrnd, vval, values>>
  BY DEF StartRound
<1> QED BY <1>3, <1>4, <1>5, <1>6 DEF TypeOK

\* So does answering a PREPARE.
LEMMA OnPrepareType ==
  ASSUME TypeOK, NEW i \in Node, NEW m \in msgs, OnPrepare(i, m)
  PROVE  TypeOK'
<1>1. m \in PrepareMsg
  BY MsgFacts DEF OnPrepare
<1>2. Promise(i, m.src, m.crnd, vrnd[i], vval[i]) \in PromiseMsg
  BY <1>1 DEF PrepareMsg, Promise, PromiseMsg, TypeOK
<1>3. msgs' \subseteq PrepareMsg \cup PromiseMsg \cup AcceptMsg \cup LearnMsg
  BY <1>2 DEF OnPrepare, TypeOK
<1>4. rnd' \in [Node -> Round]
  BY <1>1 DEF OnPrepare, TypeOK, PrepareMsg
<1> QED BY <1>3, <1>4 DEF OnPrepare, TypeOK

\* What a proposer with promises of this kind may propose.
LEMMA PickType ==
  ASSUME NEW M \in SUBSET Vote, NEW own \in AnyValue
  PROVE  Pick(M, own) \subseteq AnyValue
BY DEF Pick, Vote

\* What OnPromise does to the promises of its node.
LEMMA OnPromiseFacts ==
  ASSUME TypeOK, PromisesCounted, NEW i \in Node, NEW m \in msgs, OnPromise(i, m)
  PROVE  LET p == [vrnd |-> m.vrnd, vval |-> m.vval, a |-> m.src]
         IN  /\ m \in PromiseMsg /\ p \in Vote /\ crnd[i] \in Round \ {0}
             /\ Promise(p.a, i, crnd[i], p.vrnd, p.vval) = m
             /\ mv'[i] = mv[i] \cup {p} /\ mv'[i] \in SUBSET Vote
             /\ \A j \in Node \ {i} : mv'[j] = mv[j]
             /\ mv' \in [Node -> SUBSET Vote]
             /\ \A q \in mv'[i] : Promise(q.a, i, crnd[i], q.vrnd, q.vval) \in msgs
<1> DEFINE p == [vrnd |-> m.vrnd, vval |-> m.vval, a |-> m.src]
<1>1. m \in PromiseMsg /\ m.dst = i /\ m.rnd = crnd[i]
  BY MsgFacts DEF OnPromise
<1>2. p \in Vote /\ crnd[i] \in Round \ {0}
  BY <1>1 DEF PromiseMsg, Vote
<1>3. Promise(p.a, i, crnd[i], p.vrnd, p.vval) = m
  BY <1>1 DEF PromiseMsg, Promise
<1>4. mv'[i] = mv[i] \cup {p} /\ \A j \in Node \ {i} : mv'[j] = mv[j]
  BY DEF OnPromise, TypeOK
<1>5. mv' \in [Node -> SUBSET Vote]
  BY <1>2 DEF OnPromise, TypeOK
<1>6. \A q \in mv'[i] : Promise(q.a, i, crnd[i], q.vrnd, q.vval) \in msgs
  BY <1>3, <1>4 DEF PromisesCounted
<1> QED BY <1>1, <1>2, <1>3, <1>4, <1>5, <1>6

\* What it sends.
LEMMA OnPromiseSends ==
  ASSUME TypeOK, NEW i \in Node, NEW m \in msgs, OnPromise(i, m)
  PROVE  \/ msgs' = msgs
         \/ /\ Cardinality(mv'[i]) = Enough
            /\ \E x \in Pick(mv'[i], v[i]) : msgs' = msgs \cup {Accept(i, crnd[i], x)}
BY DEF OnPromise

\* Counting a promise keeps the types.
LEMMA OnPromiseType ==
  ASSUME TypeOK, PromisesCounted, NEW i \in Node, NEW m \in msgs, OnPromise(i, m)
  PROVE  TypeOK'
<1>1. mv' \in [Node -> SUBSET Vote] /\ mv'[i] \in SUBSET Vote /\ crnd[i] \in Round \ {0}
  BY OnPromiseFacts
<1>2. v[i] \in AnyValue
  BY DEF TypeOK
<1>3. Pick(mv'[i], v[i]) \subseteq AnyValue
  BY <1>1, <1>2, PickType
<1>4. ASSUME NEW x \in Pick(mv'[i], v[i])
      PROVE  Accept(i, crnd[i], x) \in AcceptMsg
  BY <1>1, <1>3 DEF Accept, AcceptMsg
<1>5. msgs' \subseteq PrepareMsg \cup PromiseMsg \cup AcceptMsg \cup LearnMsg
  BY <1>4, OnPromiseSends DEF TypeOK
<1> QED BY <1>1, <1>5 DEF OnPromise, TypeOK

\* So do a vote
LEMMA OnAcceptType ==
  ASSUME TypeOK, NEW i \in Node, NEW m \in msgs, OnAccept(i, m)
  PROVE  TypeOK'
<1>1. m \in AcceptMsg
  BY MsgFacts DEF OnAccept
<1>2. Learn(i, m.crnd, m.cval) \in LearnMsg
  BY <1>1 DEF AcceptMsg, Learn, LearnMsg
<1>3. msgs' \subseteq PrepareMsg \cup PromiseMsg \cup AcceptMsg \cup LearnMsg
  BY <1>2 DEF OnAccept, TypeOK
<1>4. rnd' \in [Node -> Round] /\ vrnd' \in [Node -> Round] /\ vval' \in [Node -> AnyValue]
  BY <1>1 DEF OnAccept, TypeOK, AcceptMsg
<1> QED BY <1>3, <1>4 DEF OnAccept, TypeOK

\* and learning of one.
LEMMA OnLearnType ==
  ASSUME TypeOK, NEW i \in Node, NEW m \in msgs, OnLearn(i, m)
  PROVE  TypeOK'
<1>1. <<m.rnd, m.vval>> \in (Round \ {0}) \X AnyValue
  BY LearnIsVote DEF OnLearn
<1>2. values' \in [Node -> SUBSET ((Round \ {0}) \X AnyValue)]
  BY <1>1 DEF OnLearn, TypeOK
<1> QED BY <1>2 DEF OnLearn, TypeOK

-----------------------------------------------------------------------------
(* What most steps leave alone *)

\* Messages are never taken back, and all new ones are of one kind.
Sends(kind) == msgs \subseteq msgs' /\ \A m \in msgs' : m \in msgs \/ m.type = kind

\* Rounds keep their owners while no proposer acts.
LEMMA RoundsOwnedStays ==
  ASSUME RoundsOwned, UNCHANGED crnd, NEW kind, Sends(kind), kind \in {"promise", "learn"}
  PROVE  RoundsOwned'
<1>1. \A m \in msgs' : m.type \in {"prepare", "accept"} => m \in msgs
  BY DEF Sends
<1> QED BY <1>1 DEF RoundsOwned

\* Votes stay while no acceptor acts,
LEMMA VotesKeptStays ==
  ASSUME VotesKept, UNCHANGED <<rnd, vrnd, vval>>, NEW kind, Sends(kind), kind # "learn"
  PROVE  VotesKept'
<1>1. \A a, r, x : Voted(a, r, x)' <=> Voted(a, r, x)
  BY SameVotes DEF Sends
<1> QED BY <1>1, Zenon DEF VotesKept

\* and so do promises.
LEMMA PromisesKeptStays ==
  ASSUME PromisesKept, UNCHANGED rnd, NEW kind, Sends(kind),
         kind \notin {"learn", "promise"}
  PROVE  PromisesKept'
<1>1. \A a, r, x : Voted(a, r, x)' <=> Voted(a, r, x)
  BY SameVotes DEF Sends
<1>2. \A p \in msgs' : p.type = "promise" => p \in msgs
  BY DEF Sends
<1> QED BY <1>1, <1>2 DEF PromisesKept

\* Promises are one per round while no PREPARE is answered.
LEMMA PromiseOnceStays ==
  ASSUME PromiseOnce, NEW kind, Sends(kind), kind # "promise"
  PROVE  PromiseOnce'
<1>1. \A p \in msgs' : p.type = "promise" => p \in msgs
  BY DEF Sends
<1> QED BY <1>1 DEF PromiseOnce

\* They stay counted while no proposer acts.
LEMMA PromisesCountedStays ==
  ASSUME PromisesCounted, UNCHANGED <<crnd, mv>>, msgs \subseteq msgs'
  PROVE  PromisesCounted'
BY DEF PromisesCounted, Promise

\* Promises once made are enough for ever.
LEMMA AcceptAfterEnoughStays ==
  ASSUME TypeOK, TypeOK', AcceptAfterEnough, NEW kind, Sends(kind), kind # "accept"
  PROVE  AcceptAfterEnough'
<1> SUFFICES ASSUME NEW m \in msgs', m.type = "accept"
             PROVE  Cardinality(Promised(m.crnd)') >= Enough
  BY Zenon DEF AcceptAfterEnough
<1>1. m \in msgs
  BY DEF Sends
<1>2. Cardinality(Promised(m.crnd)) >= Enough
  BY <1>1 DEF AcceptAfterEnough
<1>3. Cardinality(Promised(m.crnd)) <= Cardinality(Promised(m.crnd)')
  BY PromisedGrows DEF Sends
<1>4. Cardinality(Promised(m.crnd)) \in Nat /\ Cardinality(Promised(m.crnd)') \in Nat
  <2>1. Cardinality(Promised(m.crnd)) \in Nat
    BY PromisedNodes
  <2>2. Promised(m.crnd)' \subseteq Node
    BY DEF Promised, TypeOK, PrepareMsg, PromiseMsg, AcceptMsg, LearnMsg
  <2>3. Cardinality(Promised(m.crnd)') \in Nat
    BY <2>2, NodeFacts, FS_Subset, FS_CardinalityType
  <2> QED BY <2>1, <2>3
<1> QED BY <1>2, <1>3, <1>4, NodeFacts

-----------------------------------------------------------------------------
(* Each step keeps PInv *)

\* The invariant holds before anything was sent.
LEMMA InitPInv == Init => PInv
<1> SUFFICES ASSUME Init PROVE PInv
  OBVIOUS
<1>1. TypeOK
  BY MaxRoundAssumption DEF Init, TypeOK, Round, AnyValue
<1>2. RoundsOwned /\ PromisesKept /\ PromiseOnce /\ PromisesCounted /\ AcceptAfterEnough
  BY DEF Init, RoundsOwned, PromisesKept, PromiseOnce, PromisesCounted, AcceptAfterEnough
<1>3. VotesKept
  BY DEF Init, VotesKept, Voted
<1> QED BY <1>1, <1>2, <1>3 DEF PInv

\* A node that starts a round forgets the promises of the last one.
LEMMA StartRoundPInv ==
  ASSUME PInv, NEW i \in Node, StartRound(i), v' \in [Node -> AnyValue]
  PROVE  PInv'
<1>1. TypeOK /\ TypeOK' /\ RoundsOwned
  BY StartRoundType DEF PInv
<1>2. Sends("prepare")
  BY DEF StartRound, Sends, Prepare
<1>3. UNCHANGED <<rnd, vrnd, vval>>
  BY DEF StartRound
<1>4. RoundsOwned'
  <2>1. crnd'[i] = NextRound(i) /\ \A j \in Node \ {i} : crnd'[j] = crnd[j]
    BY <1>1 DEF StartRound, TypeOK
  <2>2. Owns(i, NextRound(i)) /\ NextRound(i) > crnd[i] /\ NextRound(i) \in Nat
    BY <1>1, NextRoundFacts
  <2>3. \A j \in Node : crnd[j] <= crnd'[j] /\ crnd'[j] \in Nat /\ crnd[j] \in Nat
    BY <1>1, <2>1, <2>2, RoundFacts
  <2>4. ASSUME NEW j \in Node, crnd'[j] # 0
        PROVE  Owns(j, crnd'[j])
    BY <1>1, <2>1, <2>2, <2>4 DEF RoundsOwned
  <2>5. ASSUME NEW m \in msgs', m.type \in {"prepare", "accept"}
        PROVE  Owns(m.src, m.crnd) /\ m.crnd <= crnd'[m.src]
    <3>1. CASE m \in msgs
      <4>1. Owns(m.src, m.crnd) /\ m.crnd <= crnd[m.src]
        BY <1>1, <2>5, <3>1 DEF RoundsOwned
      <4>2. m.src \in Node /\ m.crnd \in Nat
        BY <1>1, <2>5, <3>1, MsgFacts, RoundFacts DEF PrepareMsg, AcceptMsg
      <4> QED BY <2>3, <4>1, <4>2
    <3>2. CASE m = Prepare(i, NextRound(i))
      BY <2>1, <2>2, <3>2 DEF Prepare
    <3> QED BY <3>1, <3>2 DEF StartRound
  <2> QED BY <2>4, <2>5, Zenon DEF RoundsOwned, Owns
<1>5. VotesKept' /\ PromisesKept' /\ PromiseOnce'
  BY <1>2, <1>3, VotesKeptStays, PromisesKeptStays, PromiseOnceStays DEF PInv
<1>6. PromisesCounted'
  <2>1. mv'[i] = {} /\ \A j \in Node \ {i} : mv'[j] = mv[j] /\ crnd'[j] = crnd[j]
    BY <1>1 DEF StartRound, TypeOK
  <2>2. PromisesCounted /\ msgs \subseteq msgs'
    BY <1>2 DEF PInv, Sends
  <2> QED BY <2>1, <2>2 DEF PromisesCounted, Promise
<1>7. AcceptAfterEnough'
  BY <1>1, <1>2, AcceptAfterEnoughStays DEF PInv
<1> QED BY <1>1, <1>4, <1>5, <1>6, <1>7 DEF PInv

\* A node that wants another value changes none of it.
LEMMA KeepsRoundPInv ==
  ASSUME PInv, KeepsRound, v' \in [Node -> AnyValue]
  PROVE  PInv'
<1>1. TypeOK'
  BY DEF PInv, KeepsRound, TypeOK
<1>2. Sends("prepare") /\ Sends("promise")
  BY DEF KeepsRound, Sends
<1>3. UNCHANGED <<rnd, vrnd, vval, crnd, mv>>
  BY DEF KeepsRound
<1> QED BY <1>1, <1>2, <1>3, RoundsOwnedStays, VotesKeptStays, PromisesKeptStays,
           PromiseOnceStays, PromisesCountedStays, AcceptAfterEnoughStays DEF PInv, Sends

\* An acceptor that enters a round promises what it has voted for.
LEMMA OnPreparePInv ==
  ASSUME PInv, NEW i \in Node, NEW m \in msgs, OnPrepare(i, m)
  PROVE  PInv'
<1> DEFINE new == Promise(i, m.src, m.crnd, vrnd[i], vval[i])
<1>1. TypeOK /\ TypeOK' /\ VotesKept /\ PromisesKept /\ PromiseOnce
  BY OnPrepareType DEF PInv
<1>2. Sends("promise") /\ msgs' = msgs \cup {new} /\ new.type = "promise"
  BY DEF OnPrepare, Sends, Promise
<1>3. UNCHANGED <<vrnd, vval, crnd, mv>>
  BY DEF OnPrepare
<1>4. m \in PrepareMsg /\ m.crnd \in Nat /\ m.crnd \in Round /\ m.crnd > rnd[i]
  BY <1>1, MsgFacts, RoundFacts DEF OnPrepare, PrepareMsg
<1>5. rnd'[i] = m.crnd /\ \A a \in Node : a # i => rnd'[a] = rnd[a]
  BY <1>1 DEF OnPrepare, TypeOK
<1>6. \A a \in Node : rnd[a] \in Nat /\ rnd'[a] \in Nat /\ rnd[a] <= rnd'[a]
  BY <1>1, <1>4, <1>5, RoundFacts
<1>7. \A a, r, x : Voted(a, r, x)' <=> Voted(a, r, x)
  BY <1>2, SameVotes DEF Sends
<1>8. vrnd[i] \in Nat /\ vrnd[i] <= rnd[i]
  BY <1>1, RoundFacts DEF VotesKept
<1>9. VotesKept'
  <2>1. ASSUME NEW a \in Node
        PROVE  vrnd'[a] <= rnd'[a]
    BY <1>1, <1>3, <1>6, RoundFacts DEF VotesKept
  <2>2. ASSUME NEW a \in Node, vrnd'[a] > 0
        PROVE  Voted(a, vrnd[a], vval[a])'
    BY <1>1, <1>2, <1>3, <2>2 DEF VotesKept, Voted, Learn
  <2>3. ASSUME NEW a \in Node, NEW r \in Round, NEW x \in AnyValue, Voted(a, r, x)'
        PROVE  r <= vrnd'[a]
    BY <1>1, <1>3, <1>7, <2>3 DEF VotesKept
  <2> QED BY <2>1, <2>2, <2>3, Zenon DEF VotesKept
<1>10. PromisesKept'
  <2> SUFFICES ASSUME NEW p \in msgs', p.type = "promise"
               PROVE  /\ p.rnd <= rnd'[p.src] /\ p.vrnd < p.rnd
                      /\ p.vrnd > 0 => Voted(p.src, p.vrnd, p.vval)'
                      /\ \A c \in Round, x \in AnyValue :
                           p.vrnd < c /\ c < p.rnd => ~Voted(p.src, c, x)'
    BY Zenon DEF PromisesKept
  <2>1. CASE p \in msgs
    <3>1. p.src \in Node /\ p.rnd \in Nat
      BY <1>1, <2>1, MsgFacts, RoundFacts DEF PromiseMsg
    <3>2. p.rnd <= rnd[p.src]
      BY <1>1, <2>1 DEF PromisesKept
    <3>3. p.rnd <= rnd'[p.src]
      BY <1>6, <3>1, <3>2
    <3> QED BY <1>1, <1>7, <2>1, <3>3 DEF PromisesKept
  <2>2. CASE p = new
    <3>1. p.src = i /\ p.rnd = m.crnd /\ p.vrnd = vrnd[i] /\ p.vval = vval[i]
      BY <2>2 DEF Promise
    <3>2. p.rnd <= rnd'[p.src] /\ p.vrnd < p.rnd
      BY <1>4, <1>5, <1>6, <1>8, <3>1
    <3>3. p.vrnd > 0 => Voted(p.src, p.vrnd, p.vval)'
      BY <1>1, <1>7, <3>1 DEF VotesKept
    <3>4. ASSUME NEW c \in Round, NEW x \in AnyValue, p.vrnd < c, Voted(p.src, c, x)'
          PROVE  FALSE
      <4>1. c <= vrnd[i] /\ c \in Nat
        BY <1>1, <1>7, <3>1, <3>4, RoundFacts DEF VotesKept
      <4> QED BY <1>8, <3>1, <3>4, <4>1
    <3> QED BY <3>2, <3>3, <3>4
  <2> QED BY <1>2, <2>1, <2>2
<1>11. PromiseOnce'
  <2>1. ASSUME NEW p \in msgs, p.type = "promise", p.src = i
        PROVE  p.rnd # m.crnd
    <3>1. p.rnd <= rnd[i] /\ p.rnd \in Nat
      BY <1>1, <2>1, MsgFacts, RoundFacts DEF PromisesKept, PromiseMsg
    <3> QED BY <1>4, <1>6, <3>1
  <2>2. new.src = i /\ new.rnd = m.crnd
    BY DEF Promise
  <2>3. ASSUME NEW p \in msgs', NEW q \in msgs', p.type = "promise", q.type = "promise",
               p.src = q.src, p.rnd = q.rnd
        PROVE  p = q
    <3> HIDE DEF new
    <3>1. CASE p \in msgs /\ q \in msgs
      BY <1>1, <2>3, <3>1 DEF PromiseOnce
    <3>2. CASE p = new \/ q = new
      BY <1>2, <2>1, <2>2, <2>3, <3>2
    <3> QED BY <1>2, <3>1, <3>2
  <2> QED BY <2>3, Zenon DEF PromiseOnce
<1>12. RoundsOwned' /\ PromisesCounted' /\ AcceptAfterEnough'
  BY <1>1, <1>2, <1>3, RoundsOwnedStays, PromisesCountedStays, AcceptAfterEnoughStays
     DEF PInv, Sends
<1> QED BY <1>1, <1>9, <1>10, <1>11, <1>12 DEF PInv

\* A proposer asks for votes when enough nodes have promised.
LEMMA OnPromisePInv ==
  ASSUME PInv, NEW i \in Node, NEW m \in msgs, OnPromise(i, m)
  PROVE  PInv'
<1>1. TypeOK /\ TypeOK' /\ RoundsOwned /\ PromisesCounted /\ PromiseOnce
  BY OnPromiseType DEF PInv
<1>2. Sends("accept")
  BY <1>1, OnPromiseSends DEF Sends, Accept
<1>3. UNCHANGED <<rnd, vrnd, vval, crnd>>
  BY DEF OnPromise
<1>4. /\ crnd[i] \in Round \ {0} /\ mv'[i] \in SUBSET Vote
      /\ \A j \in Node \ {i} : mv'[j] = mv[j]
      /\ \A q \in mv'[i] : Promise(q.a, i, crnd[i], q.vrnd, q.vval) \in msgs
  BY <1>1, OnPromiseFacts
<1>5. \A n \in msgs' : n \in msgs \/ (n.type = "accept" /\ n.src = i /\ n.crnd = crnd[i])
  BY <1>1, OnPromiseSends DEF Accept
<1>6. RoundsOwned'
  <2>1. Owns(i, crnd[i]) /\ crnd[i] <= crnd[i]
    BY <1>1, <1>4, RoundFacts DEF RoundsOwned
  <2>2. \A n \in msgs' : n.type \in {"prepare", "accept"} =>
          Owns(n.src, n.crnd) /\ n.crnd <= crnd[n.src]
    BY <1>1, <1>5, <2>1 DEF RoundsOwned
  <2> QED BY <1>1, <1>3, <2>2 DEF RoundsOwned
<1>7. VotesKept' /\ PromisesKept' /\ PromiseOnce'
  BY <1>2, <1>3, VotesKeptStays, PromisesKeptStays, PromiseOnceStays DEF PInv
<1>8. PromisesCounted'
  BY <1>1, <1>2, <1>3, <1>4 DEF PromisesCounted, Sends, Promise
<1>9. AcceptAfterEnough'
  <2> SUFFICES ASSUME NEW n \in msgs', n.type = "accept"
               PROVE  Cardinality(Promised(n.crnd)') >= Enough
    BY Zenon DEF AcceptAfterEnough
  <2>1. Promised(n.crnd)' = Promised(n.crnd)
    <3>1. {q \in msgs' : q.type = "promise" /\ q.rnd = n.crnd}
          = {q \in msgs : q.type = "promise" /\ q.rnd = n.crnd}
      BY <1>2 DEF Sends
    <3> QED BY <3>1 DEF Promised
  <2>2. CASE n \in msgs
    BY <2>1, <2>2 DEF PInv, AcceptAfterEnough
  <2>3. CASE n \notin msgs
    <3>1. Cardinality(mv'[i]) = Enough /\ n.crnd = crnd[i]
      BY <1>1, <1>5, <2>3, OnPromiseSends
    <3>2. /\ Sources(mv'[i]) \subseteq Promised(crnd[i])
          /\ Cardinality(mv'[i]) <= Cardinality(Sources(mv'[i]))
          /\ Sources(mv'[i]) \subseteq Node
      BY <1>1, <1>4, SourcesCount
    <3>3. IsFiniteSet(Promised(crnd[i])) /\ Cardinality(Promised(crnd[i])) \in Nat
      BY <1>1, PromisedNodes
    <3>4. /\ Cardinality(Sources(mv'[i])) <= Cardinality(Promised(crnd[i]))
          /\ Cardinality(Sources(mv'[i])) \in Nat
      BY <3>2, <3>3, FS_Subset, FS_CardinalityType
    <3> QED BY <2>1, <3>1, <3>2, <3>3, <3>4, NodeFacts
  <2> QED BY <2>2, <2>3
<1> QED BY <1>1, <1>6, <1>7, <1>8, <1>9 DEF PInv

\* An acceptor votes once per round, and in no round before the one that it is in.
LEMMA OnAcceptPInv ==
  ASSUME PInv, NEW i \in Node, NEW m \in msgs, OnAccept(i, m)
  PROVE  PInv'
<1> DEFINE new == Learn(i, m.crnd, m.cval)
<1>1. TypeOK /\ TypeOK' /\ VotesKept /\ PromisesKept
  BY OnAcceptType DEF PInv
<1>2. Sends("learn") /\ msgs' = msgs \cup {new}
  BY DEF OnAccept, Sends, Learn
<1>3. UNCHANGED <<crnd, mv>>
  BY DEF OnAccept
<1>4. m \in AcceptMsg /\ m.crnd \in Nat /\ m.crnd \in Round /\ m.crnd >= rnd[i]
  BY <1>1, MsgFacts, RoundFacts DEF OnAccept, AcceptMsg
<1>5. /\ rnd'[i] = m.crnd /\ vrnd'[i] = m.crnd /\ vval'[i] = m.cval
      /\ \A a \in Node : a # i =>
           rnd'[a] = rnd[a] /\ vrnd'[a] = vrnd[a] /\ vval'[a] = vval[a]
  BY <1>1 DEF OnAccept, TypeOK
<1>6. \A a \in Node : /\ rnd[a] \in Nat /\ rnd'[a] \in Nat /\ rnd[a] <= rnd'[a]
                      /\ vrnd[a] \in Nat /\ vrnd'[a] \in Nat /\ vrnd[a] <= rnd[a]
  BY <1>1, <1>4, <1>5, RoundFacts DEF VotesKept
<1>7. \A a, r, x : Voted(a, r, x)' <=> Voted(a, r, x) \/ (a = i /\ r = m.crnd /\ x = m.cval)
  BY <1>2 DEF Voted, Learn
<1>8. VotesKept'
  <2>1. ASSUME NEW a \in Node
        PROVE  vrnd'[a] <= rnd'[a]
    BY <1>4, <1>5, <1>6
  <2>2. ASSUME NEW a \in Node, vrnd'[a] > 0
        PROVE  Voted(a, vrnd[a], vval[a])'
    BY <1>1, <1>2, <1>5, <2>2 DEF VotesKept, Voted
  <2>3. ASSUME NEW a \in Node, NEW r \in Round, NEW x \in AnyValue, Voted(a, r, x)'
        PROVE  r <= vrnd'[a]
    <3>1. CASE Voted(a, r, x)
      <4>1. r <= vrnd[a] /\ r \in Nat
        BY <1>1, <3>1, RoundFacts DEF VotesKept
      <4>2. vrnd[a] <= vrnd'[a]
        BY <1>4, <1>5, <1>6
      <4> QED BY <1>6, <4>1, <4>2
    <3>2. CASE a = i /\ r = m.crnd
      BY <1>4, <1>5, <3>2
    <3> QED BY <1>7, <2>3, <3>1, <3>2
  <2> QED BY <2>1, <2>2, <2>3, Zenon DEF VotesKept
<1>9. PromisesKept'
  <2> SUFFICES ASSUME NEW p \in msgs', p.type = "promise"
               PROVE  /\ p.rnd <= rnd'[p.src] /\ p.vrnd < p.rnd
                      /\ p.vrnd > 0 => Voted(p.src, p.vrnd, p.vval)'
                      /\ \A c \in Round, x \in AnyValue :
                           p.vrnd < c /\ c < p.rnd => ~Voted(p.src, c, x)'
    BY Zenon DEF PromisesKept
  <2>1. p \in msgs
    BY <1>2 DEF Sends
  <2>2. p.src \in Node /\ p.rnd \in Nat
    BY <1>1, <2>1, MsgFacts, RoundFacts DEF PromiseMsg
  <2>3. p.rnd <= rnd[p.src] /\ p.vrnd < p.rnd
    BY <1>1, <2>1 DEF PromisesKept
  <2>4. p.rnd <= rnd'[p.src]
    BY <1>6, <2>2, <2>3
  <2>5. p.vrnd > 0 => Voted(p.src, p.vrnd, p.vval)'
    BY <1>1, <1>7, <2>1 DEF PromisesKept
  <2>6. ASSUME NEW c \in Round, NEW x \in AnyValue, p.vrnd < c, c < p.rnd,
               Voted(p.src, c, x)'
        PROVE  FALSE
    <3>1. ~Voted(p.src, c, x)
      BY <1>1, <2>1, <2>6 DEF PromisesKept
    <3>2. p.src = i /\ c = m.crnd
      BY <1>7, <2>6, <3>1
    <3> QED BY <1>4, <1>6, <2>2, <2>3, <2>6, <3>2
  <2> QED BY <2>3, <2>4, <2>5, <2>6
<1>10. RoundsOwned' /\ PromiseOnce' /\ PromisesCounted' /\ AcceptAfterEnough'
  BY <1>1, <1>2, <1>3, RoundsOwnedStays, PromiseOnceStays, PromisesCountedStays,
     AcceptAfterEnoughStays DEF PInv, Sends
<1> QED BY <1>1, <1>8, <1>9, <1>10 DEF PInv

\* A learner changes nothing else.
LEMMA OnLearnPInv ==
  ASSUME PInv, NEW i \in Node, NEW m \in msgs, OnLearn(i, m)
  PROVE  PInv'
<1>1. TypeOK'
  BY OnLearnType DEF PInv
<1>2. Sends("prepare") /\ Sends("promise")
  BY DEF OnLearn, Sends
<1>3. UNCHANGED <<rnd, vrnd, vval, crnd, mv>>
  BY DEF OnLearn
<1> QED BY <1>1, <1>2, <1>3, RoundsOwnedStays, VotesKeptStays, PromisesKeptStays,
           PromiseOnceStays, PromisesCountedStays, AcceptAfterEnoughStays DEF PInv, Sends

\* The kinds of steps.  Without TRUST-VALUEs that reach other nodes than those they
\* name, v changes with a new round only.
LEMMA NextSteps ==
  ASSUME TypeOK, [Next]_vars
  PROVE  /\ v' \in [Node -> AnyValue]
         /\ \/ \E i \in Node : StartRound(i) /\ \A j \in Node \ {i} : v'[j] = v[j]
            \/ KeepsRound /\ (Addressed => v' = v)
            \/ \E i \in Node, m \in msgs :
                 OnPrepare(i, m) \/ OnPromise(i, m) \/ OnAccept(i, m) \/ OnLearn(i, m)
<1>1. CASE UNCHANGED vars
  BY <1>1 DEF vars, KeepsRound, TypeOK
<1>2. ASSUME NEW i \in Node, Trust(i)
      PROVE  StartRound(i) /\ v' = v
  BY <1>2 DEF Trust, OnTrust, StartRound
<1>3. ASSUME NEW i \in Node, NEW c \in Node, NEW x \in Value, TrustValue(i, c, x)
      PROVE  /\ v' \in [Node -> AnyValue] /\ \A j \in Node \ {i} : v'[j] = v[j]
             /\ StartRound(i) \/ (KeepsRound /\ ~Addressed)
  <2>1. v' \in [Node -> AnyValue] /\ \A j \in Node \ {i} : v'[j] = v[j]
    BY <1>3 DEF TrustValue, TypeOK, AnyValue
  <2>2. OnTrust(i, c) /\ (c # i => Misaddressed)
    BY <1>3 DEF TrustValue
  <2>3. CASE c = i
    BY <2>1, <2>2, <2>3 DEF OnTrust, StartRound
  <2>4. CASE c # i
    <3>1. KeepsRound
      BY <2>2, <2>4 DEF OnTrust, KeepsRound
    <3> QED BY <2>1, <2>2, <2>4, <3>1 DEF Addressed
  <2> QED BY <2>1, <2>3, <2>4
<1>4. ASSUME NEW i \in Node, NEW m \in msgs,
             OnPrepare(i, m) \/ OnPromise(i, m) \/ OnAccept(i, m) \/ OnLearn(i, m)
      PROVE  v' = v
  BY <1>4 DEF OnPrepare, OnPromise, OnAccept, OnLearn
<1>5. v \in [Node -> AnyValue]
  BY DEF TypeOK
<1> QED BY <1>1, <1>2, <1>3, <1>4, <1>5 DEF Next

\* Every step keeps the invariant.
LEMMA NextPInv == PInv /\ [Next]_vars => PInv'
<1> SUFFICES ASSUME PInv, [Next]_vars PROVE PInv'
  OBVIOUS
<1>1. TypeOK
  BY DEF PInv
<1>2. v' \in [Node -> AnyValue]
  BY <1>1, NextSteps
<1>3. CASE \E i \in Node : StartRound(i)
  BY <1>2, <1>3, StartRoundPInv
<1>4. CASE KeepsRound
  BY <1>2, <1>4, KeepsRoundPInv
<1>5. ASSUME NEW i \in Node, NEW m \in msgs,
             OnPrepare(i, m) \/ OnPromise(i, m) \/ OnAccept(i, m) \/ OnLearn(i, m)
      PROVE  PInv'
  BY <1>5, OnPreparePInv, OnPromisePInv, OnAcceptPInv, OnLearnPInv
<1> QED BY <1>1, <1>3, <1>4, <1>5, NextSteps

\* Whatever a TRUST-VALUE reaches, PInv holds.
THEOREM Invariant == Spec => []PInv
<1>1. Init => PInv
  BY InitPInv
<1>2. PInv /\ [Next]_vars => PInv'
  BY NextPInv
<1> QED BY <1>1, <1>2, PTL DEF Spec

\* Every variable holds a value of the kind the code gives it.
THEOREM TypeCorrect == Spec => []TypeOK
<1>1. PInv => TypeOK
  BY DEF PInv
<1> QED BY <1>1, Invariant, PTL

\* Where the number of nodes is odd, a majority of them has promised before an ACCEPT
\* goes out (on_promise), also when its proposer has begun another round since then.
THEOREM Majorities ==
  ASSUME N % 2 = 1
  PROVE  Spec => []AcceptAfterMajority
<1>1. 2 * Enough > N
  BY NAssumption DEF Enough
<1>2. PInv => AcceptAfterMajority
  <2> SUFFICES ASSUME PInv, NEW m \in msgs, m.type = "accept"
               PROVE  Majority(Promised(m.crnd))
    BY Zenon DEF AcceptAfterMajority, Promised
  <2>1. Cardinality(Promised(m.crnd)) \in Nat
    BY PromisedNodes DEF PInv
  <2>2. Cardinality(Promised(m.crnd)) >= Enough
    BY DEF PInv, AcceptAfterEnough
  <2> QED BY <1>1, <2>1, <2>2, NodeFacts DEF Majority
<1> QED BY <1>2, Invariant, PTL

-----------------------------------------------------------------------------
(* Votes and promises *)

\* In one round there are votes for one value only.
LEMMA VotedOnce ==
  ASSUME TypeOK, OneAccept, VotesProposed, NEW a, NEW b, NEW r, NEW x, NEW y,
         Voted(a, r, x), Voted(b, r, y)
  PROVE  x = y
<1>1. PICK p \in msgs : p.type = "accept" /\ p.crnd = r /\ p.cval = x
  BY DEF Voted, Learn, VotesProposed
<1>2. PICK q \in msgs : q.type = "accept" /\ q.crnd = r /\ q.cval = y
  BY DEF Voted, Learn, VotesProposed
<1>3. p = q
  BY <1>1, <1>2 DEF OneAccept
<1> QED BY <1>1, <1>2, <1>3

\* The promises of a proposer, one by one.
LEMMA CountedPromise ==
  ASSUME TypeOK, PromisesKept, NEW i, NEW r, NEW M \in SUBSET Vote,
         \A p \in M : Promise(p.a, i, r, p.vrnd, p.vval) \in msgs, NEW p \in M
  PROVE  /\ r <= rnd[p.a] /\ p.a \in Node /\ p.vrnd \in Nat /\ r \in Nat
         /\ p.vval \in AnyValue /\ p.vrnd \in Round
         /\ p.vrnd > 0 => Voted(p.a, p.vrnd, p.vval)
         /\ \A c \in Round, x \in AnyValue : p.vrnd < c /\ c < r => ~Voted(p.a, c, x)
<1> DEFINE q == Promise(p.a, i, r, p.vrnd, p.vval)
<1>1. /\ q \in msgs /\ q.type = "promise" /\ q.rnd = r /\ q.src = p.a
      /\ q.vrnd = p.vrnd /\ q.vval = p.vval
  BY DEF Promise
<1> HIDE DEF q
<1>2. p \in Vote /\ q \in PromiseMsg
  BY <1>1, MsgFacts
<1>3. p.a \in Node /\ p.vrnd \in Nat /\ p.vrnd \in Round /\ p.vval \in AnyValue /\ r \in Nat
  BY <1>1, <1>2, RoundFacts DEF Vote, PromiseMsg
<1> QED BY <1>1, <1>3 DEF PromisesKept

\* A proposer that does not send its own value has one value to send.
LEMMA PickOnce ==
  ASSUME TypeOK, PromisesKept, OneAccept, VotesProposed, NEW i, NEW r,
         NEW M \in SUBSET Vote, \A p \in M : Promise(p.a, i, r, p.vrnd, p.vval) \in msgs,
         NEW own, NEW x \in Pick(M, own), NEW y \in Pick(M, own)
  PROVE  x = y
<1>1. CASE \A p \in M : p.vrnd = 0
  BY <1>1 DEF Pick
<1>2. CASE ~ \A p \in M : p.vrnd = 0
  <2>1. PICK z \in M : z.vrnd # 0
    BY <1>2
  <2>2. PICK p \in M : x = p.vval /\ \A o \in M : o.vrnd <= p.vrnd
    BY <1>2 DEF Pick
  <2>3. PICK q \in M : y = q.vval /\ \A o \in M : o.vrnd <= q.vrnd
    BY <1>2 DEF Pick
  <2>4. z.vrnd \in Nat /\ p.vrnd \in Nat /\ q.vrnd \in Nat
    BY CountedPromise
  <2>5. p.vrnd = q.vrnd /\ p.vrnd > 0
    BY <2>1, <2>2, <2>3, <2>4
  <2>6. Voted(p.a, p.vrnd, p.vval) /\ Voted(q.a, q.vrnd, q.vval)
    BY <2>5, CountedPromise
  <2> QED BY <2>2, <2>3, <2>5, <2>6, VotedOnce
<1> QED BY <1>1, <1>2

-----------------------------------------------------------------------------
(* What is safe stays safe *)

\* Votes stay, and new ones are cast in rounds that their acceptors do not refuse.
VotesGrow ==
  /\ \A a \in Node : rnd[a] \in Nat /\ rnd'[a] \in Nat /\ rnd[a] <= rnd'[a]
  /\ \A a, r, x : Voted(a, r, x) => Voted(a, r, x)'
  /\ \A x : \A a \in Node, r \in Round : Voted(a, r, x)' => Voted(a, r, x) \/ r >= rnd[a]

\* That is so of a step that casts no vote,
LEMMA NoVoteGrows ==
  ASSUME TypeOK, NEW kind, Sends(kind), kind # "learn",
         \A a \in Node : rnd'[a] \in Nat /\ rnd[a] <= rnd'[a]
  PROVE  VotesGrow
<1>1. \A a, r, x : Voted(a, r, x)' <=> Voted(a, r, x)
  BY SameVotes DEF Sends
<1> QED BY <1>1, RoundFacts DEF VotesGrow

\* and so of all others.
LEMMA StepGrows ==
  ASSUME PInv, [Next]_vars
  PROVE  VotesGrow
<1>1. TypeOK
  BY DEF PInv
<1>2. \A a \in Node : rnd[a] \in Nat /\ rnd[a] <= rnd[a]
  BY <1>1, RoundFacts
<1>3. ASSUME NEW i \in Node, StartRound(i)
      PROVE  VotesGrow
  <2>1. Sends("prepare") /\ rnd' = rnd
    BY <1>3 DEF StartRound, Sends, Prepare
  <2> QED BY <1>1, <1>2, <2>1, NoVoteGrows
<1>4. CASE KeepsRound
  <2>1. Sends("prepare") /\ rnd' = rnd
    BY <1>4 DEF KeepsRound, Sends
  <2> QED BY <1>1, <1>2, <2>1, NoVoteGrows
<1>5. ASSUME NEW i \in Node, NEW m \in msgs, OnPrepare(i, m)
      PROVE  VotesGrow
  <2>1. Sends("promise")
    BY <1>5 DEF OnPrepare, Sends, Promise
  <2>2. m \in PrepareMsg /\ m.crnd \in Nat /\ m.crnd > rnd[i]
    BY <1>1, <1>5, MsgFacts, RoundFacts DEF OnPrepare, PrepareMsg
  <2>3. rnd'[i] = m.crnd /\ \A a \in Node : a # i => rnd'[a] = rnd[a]
    BY <1>1, <1>5 DEF OnPrepare, TypeOK
  <2>4. \A a \in Node : rnd'[a] \in Nat /\ rnd[a] <= rnd'[a]
    BY <1>2, <2>2, <2>3
  <2> QED BY <1>1, <2>1, <2>4, NoVoteGrows
<1>6. ASSUME NEW i \in Node, NEW m \in msgs, OnPromise(i, m)
      PROVE  VotesGrow
  <2>1. Sends("accept") /\ rnd' = rnd
    BY <1>1, <1>6, OnPromiseSends DEF Sends, Accept, OnPromise
  <2> QED BY <1>1, <1>2, <2>1, NoVoteGrows
<1>7. ASSUME NEW i \in Node, NEW m \in msgs, OnAccept(i, m)
      PROVE  VotesGrow
  <2>1. m \in AcceptMsg /\ m.crnd \in Nat /\ m.crnd >= rnd[i]
    BY <1>1, <1>7, MsgFacts, RoundFacts DEF OnAccept, AcceptMsg
  <2>2. rnd'[i] = m.crnd /\ \A a \in Node : a # i => rnd'[a] = rnd[a]
    BY <1>1, <1>7 DEF OnAccept, TypeOK
  <2>3. \A a \in Node : rnd'[a] \in Nat /\ rnd[a] <= rnd'[a]
    BY <1>2, <2>1, <2>2
  <2>4. \A a, r, x : Voted(a, r, x)' <=> Voted(a, r, x) \/ (a = i /\ r = m.crnd /\ x = m.cval)
    BY <1>7 DEF OnAccept, Voted, Learn
  <2> QED BY <1>2, <2>1, <2>3, <2>4 DEF VotesGrow
<1>8. ASSUME NEW i \in Node, NEW m \in msgs, OnLearn(i, m)
      PROVE  VotesGrow
  <2>1. Sends("prepare") /\ rnd' = rnd
    BY <1>8 DEF OnLearn, Sends
  <2> QED BY <1>1, <1>2, <2>1, NoVoteGrows
<1> QED BY <1>1, <1>3, <1>4, <1>5, <1>6, <1>7, <1>8, NextSteps

\* Who will not vote in a round never does.
LEMMA WontVoteStays ==
  ASSUME VotesGrow, NEW a \in Node, NEW c \in Round, WontVote(a, c), c \in Nat
  PROVE  WontVote(a, c)'
<1>1. rnd'[a] > c /\ ~(c >= rnd[a])
  BY DEF VotesGrow, WontVote
<1>2. \A x \in AnyValue : ~Voted(a, c, x)'
  BY <1>1 DEF VotesGrow, WontVote
<1> QED BY <1>1, <1>2 DEF WontVote

\* So no other value than x gets a chance to be chosen.
LEMMA SafeStays ==
  ASSUME TypeOK, VotesGrow, NEW x, NEW r, SafeAt(x, r)
  PROVE  SafeAt(x, r)'
<1> SUFFICES ASSUME NEW c \in Round, 0 < c, c < r
             PROVE  \E Q \in Quorum : \A a \in Q : Voted(a, c, x)' \/ WontVote(a, c)'
  BY DEF SafeAt
<1>1. PICK Q \in Quorum : \A a \in Q : Voted(a, c, x) \/ WontVote(a, c)
  BY DEF SafeAt
<1>2. c \in Nat
  BY RoundFacts
<1>3. ASSUME NEW a \in Q
      PROVE  Voted(a, c, x)' \/ WontVote(a, c)'
  <2>1. a \in Node
    BY DEF Quorum
  <2>2. CASE Voted(a, c, x)
    BY <2>2 DEF VotesGrow
  <2>3. CASE WontVote(a, c)
    BY <1>2, <2>1, <2>3, WontVoteStays
  <2> QED BY <1>1, <2>2, <2>3
<1> QED BY <1>3

\* What a proposer with enough promises sends is safe: those who promised will not
\* vote between the latest vote among theirs and the proposer's round.
LEMMA PickIsSafe ==
  ASSUME PInv, OneAccept, VotesProposed, AcceptsSafe, NEW i, NEW r \in Round,
         NEW M \in SUBSET Vote, Cardinality(M) = Enough,
         \A p \in M : Promise(p.a, i, r, p.vrnd, p.vval) \in msgs,
         NEW own, NEW x \in Pick(M, own)
  PROVE  SafeAt(x, r)
<1>1. TypeOK /\ PromisesKept /\ PromiseOnce /\ Round \subseteq Nat
  BY RoundFacts DEF PInv
<1> SUFFICES ASSUME NEW c \in Round, 0 < c, c < r
             PROVE  \E Q \in Quorum : \A a \in Q : Voted(a, c, x) \/ WontVote(a, c)
  BY DEF SafeAt
<1>2. Sources(M) \in Quorum
  <2>1. /\ Cardinality(M) <= Cardinality(Sources(M)) /\ Sources(M) \subseteq Node
    BY <1>1, SourcesCount
  <2> QED BY <2>1 DEF Quorum
<1>3. ASSUME NEW p \in M, p.vrnd < c
      PROVE  WontVote(p.a, c)
  <2>1. /\ r <= rnd[p.a] /\ p.a \in Node /\ r \in Nat
        /\ \A y \in AnyValue : ~Voted(p.a, c, y)
    BY <1>1, <1>3, CountedPromise
  <2>2. rnd[p.a] \in Nat /\ c \in Nat
    BY <1>1, <2>1, RoundFacts
  <2>3. rnd[p.a] > c
    BY <2>1, <2>2
  <2> QED BY <2>1, <2>3 DEF WontVote
<1>4. CASE \A p \in M : p.vrnd = 0
  <2>1. \A a \in Sources(M) : WontVote(a, c)
    BY <1>3, <1>4 DEF Sources
  <2> QED BY <1>2, <2>1
<1>5. CASE ~ \A p \in M : p.vrnd = 0
  <2>1. PICK z \in M : z.vrnd # 0
    BY <1>5
  <2>2. PICK q \in M : x = q.vval /\ \A o \in M : o.vrnd <= q.vrnd
    BY <1>5 DEF Pick
  <2>3. q.vrnd \in Nat /\ z.vrnd \in Nat /\ z.vrnd <= q.vrnd
    BY <1>1, <2>2, CountedPromise
  <2>4. q.vrnd > 0
    BY <2>1, <2>3
  <2>5. Voted(q.a, q.vrnd, x)
    BY <1>1, <2>2, <2>4, CountedPromise
  <2>6. CASE c < q.vrnd
    <3>1. PICK n \in msgs : n.type = "accept" /\ n.crnd = q.vrnd /\ n.cval = x
      BY <2>5 DEF Voted, Learn, VotesProposed
    <3>2. SafeAt(x, q.vrnd)
      BY <3>1 DEF AcceptsSafe
    <3> QED BY <2>6, <3>2 DEF SafeAt
  <2>7. CASE ~(c < q.vrnd)
    <3>1. ASSUME NEW p \in M
          PROVE  Voted(p.a, c, x) \/ WontVote(p.a, c)
      <4>1. p.vrnd \in Nat /\ p.vrnd <= q.vrnd /\ c \in Nat
        BY <1>1, <2>2, CountedPromise
      <4>2. CASE p.vrnd < c
        BY <1>3, <4>2
      <4>3. CASE ~(p.vrnd < c)
        <5>1. p.vrnd = c /\ p.vrnd = q.vrnd
          BY <2>3, <2>7, <4>1, <4>3
        <5>2. Voted(p.a, c, p.vval)
          BY <1>1, <2>4, <5>1, CountedPromise
        <5>3. p.vval = x
          BY <1>1, <2>5, <5>1, <5>2, VotedOnce
        <5> QED BY <5>2, <5>3
      <4> QED BY <4>2, <4>3
    <3>2. \A a \in Sources(M) : Voted(a, c, x) \/ WontVote(a, c)
      BY <3>1 DEF Sources
    <3> QED BY <1>2, <3>2
  <2> QED BY <2>6, <2>7
<1> QED BY <1>4, <1>5

-----------------------------------------------------------------------------
(* Each step keeps IInv *)

\* What holds of the values when nothing new is proposed, voted for or learned.
LEMMA ValuesStay ==
  ASSUME IInv, VotesGrow, NEW kind, Sends(kind), kind \notin {"accept", "learn"},
         UNCHANGED values
  PROVE  OneAccept' /\ VotesProposed' /\ AcceptsSafe' /\ LearnedVotes'
<1>1. /\ msgs \subseteq msgs'
      /\ \A m \in msgs' : m.type \in {"accept", "learn"} => m \in msgs
  BY DEF Sends
<1>2. OneAccept'
  BY <1>1 DEF IInv, OneAccept
<1>3. VotesProposed'
  BY <1>1 DEF IInv, VotesProposed
<1>4. AcceptsSafe'
  <2> SUFFICES ASSUME NEW m \in msgs', m.type = "accept"
               PROVE  SafeAt(m.cval, m.crnd)'
    BY Zenon DEF AcceptsSafe
  <2>1. SafeAt(m.cval, m.crnd)
    BY <1>1 DEF IInv, AcceptsSafe
  <2> QED BY <2>1, SafeStays DEF IInv, PInv
<1>5. LearnedVotes'
  BY DEF IInv, LearnedVotes, VotesGrow
<1> QED BY <1>2, <1>3, <1>4, <1>5

\* What was proposed still matches the promises when no proposer acts.
LEMMA ProposedStays ==
  ASSUME ProposedFromPromises, UNCHANGED <<crnd, mv, v>>, NEW kind, Sends(kind),
         kind # "accept"
  PROVE  ProposedFromPromises'
<1>1. \A m \in msgs' : m.type = "accept" => m \in msgs
  BY DEF Sends
<1> QED BY <1>1 DEF ProposedFromPromises

\* A new round is one that was not proposed in.
LEMMA StartRoundIInv ==
  ASSUME IInv, PInv', VotesGrow, NEW i \in Node, StartRound(i),
         \A j \in Node \ {i} : v'[j] = v[j]
  PROVE  IInv'
<1>1. TypeOK /\ RoundsOwned /\ ProposedFromPromises
  BY DEF IInv, PInv
<1>2. Sends("prepare") /\ UNCHANGED values
  BY DEF StartRound, Sends, Prepare
<1>3. ASSUME NEW m \in msgs', m.type = "accept", m.crnd = crnd'[m.src]
      PROVE  /\ Cardinality(mv'[m.src]) >= Enough
             /\ Cardinality(mv'[m.src]) = Enough => m.cval \in Pick(mv'[m.src], v'[m.src])
  <2>1. m \in msgs /\ m \in AcceptMsg /\ m.src \in Node /\ m.crnd \in Nat
    BY <1>1, <1>2, <1>3, MsgFacts, RoundFacts DEF Sends, AcceptMsg
  <2>2. CASE m.src = i
    <3>1. m.crnd <= crnd[i] /\ crnd[i] \in Nat
      BY <1>1, <1>3, <2>1, <2>2, RoundFacts DEF RoundsOwned
    <3>2. m.crnd = NextRound(i)
      BY <1>1, <1>3, <2>2 DEF StartRound, TypeOK
    <3>3. NextRound(i) > crnd[i]
      BY <1>1, NextRoundFacts
    <3> QED BY <2>1, <3>1, <3>2, <3>3
  <2>3. CASE m.src # i
    <3>1. /\ crnd'[m.src] = crnd[m.src] /\ mv'[m.src] = mv[m.src]
          /\ v'[m.src] = v[m.src]
      BY <1>1, <2>1, <2>3 DEF StartRound, TypeOK
    <3> QED BY <1>1, <1>3, <2>1, <3>1 DEF ProposedFromPromises
  <2> QED BY <2>2, <2>3
<1>4. ProposedFromPromises'
  BY <1>3, Zenon DEF ProposedFromPromises
<1> QED BY <1>2, <1>4, ValuesStay DEF IInv

\* An ACCEPT that is sent again is the one that was sent.
LEMMA SameAccept ==
  ASSUME IInv, NEW i \in Node, NEW m \in msgs, OnPromise(i, m),
         Cardinality(mv'[i]) = Enough, NEW x \in Pick(mv'[i], v[i]),
         NEW n \in msgs, n.type = "accept", n.crnd = crnd[i]
  PROVE  n = Accept(i, crnd[i], x) /\ mv'[i] = mv[i]
<1>1. /\ TypeOK /\ RoundsOwned /\ PromisesCounted /\ PromisesKept /\ PromiseOnce
      /\ OneAccept /\ VotesProposed /\ ProposedFromPromises
  BY DEF IInv, PInv
<1>2. /\ crnd[i] \in Round \ {0} /\ mv'[i] \in SUBSET Vote /\ mv[i] \subseteq mv'[i]
      /\ \A q \in mv'[i] : Promise(q.a, i, crnd[i], q.vrnd, q.vval) \in msgs
  BY <1>1, OnPromiseFacts
<1>3. n.src = i
  <2>1. n.src \in Node /\ Owns(n.src, crnd[i])
    BY <1>1, MsgFacts DEF RoundsOwned
  <2>2. Owns(i, crnd[i])
    BY <1>1, <1>2 DEF RoundsOwned
  <2> QED BY <2>1, <2>2, OwnsOnce
<1>4. Cardinality(mv[i]) >= Enough
  BY <1>1, <1>3 DEF ProposedFromPromises
<1>5. mv'[i] = mv[i]
  <2>1. IsFiniteSet(mv'[i])
    BY <1>1, <1>2, SourcesCount
  <2>2. Cardinality(mv[i]) <= Cardinality(mv'[i]) /\ Cardinality(mv[i]) \in Nat
    BY <1>2, <2>1, FS_Subset, FS_CardinalityType
  <2>3. Cardinality(mv[i]) = Cardinality(mv'[i])
    BY <1>4, <2>2, NodeFacts
  <2> QED BY <1>2, <2>1, <2>3, FS_Subset
<1>6. n.cval \in Pick(mv'[i], v[i])
  BY <1>1, <1>3, <1>5 DEF ProposedFromPromises
<1>7. n.cval = x
  <2>1. ASSUME NEW M \in SUBSET Vote, NEW y \in Pick(M, v[i]), NEW z \in Pick(M, v[i]),
               \A p \in M : Promise(p.a, i, crnd[i], p.vrnd, p.vval) \in msgs
        PROVE  y = z
    BY <1>1, <2>1, PickOnce
  <2> QED BY <1>2, <1>6, <2>1
<1>8. n \in AcceptMsg
  BY <1>1, MsgFacts
<1> QED BY <1>3, <1>5, <1>7, <1>8 DEF AcceptMsg, Accept

\* A proposal is safe, and the only one of its round.
LEMMA OnPromiseIInv ==
  ASSUME IInv, PInv', VotesGrow, NEW i \in Node, NEW m \in msgs, OnPromise(i, m)
  PROVE  IInv'
<1>1. /\ TypeOK /\ PromisesCounted /\ PromiseOnce /\ OneAccept /\ VotesProposed
      /\ ProposedFromPromises /\ AcceptsSafe /\ LearnedVotes
  BY DEF IInv, PInv
<1>2. /\ crnd[i] \in Round \ {0} /\ mv'[i] \in SUBSET Vote /\ mv[i] \subseteq mv'[i]
      /\ \A j \in Node \ {i} : mv'[j] = mv[j]
      /\ \A q \in mv'[i] : Promise(q.a, i, crnd[i], q.vrnd, q.vval) \in msgs
  BY <1>1, OnPromiseFacts
<1>3. UNCHANGED <<crnd, v, values>>
  BY DEF OnPromise
<1>4. Sends("accept")
  BY <1>1, OnPromiseSends DEF Sends, Accept
<1>5. ASSUME NEW n \in msgs', n \notin msgs
      PROVE  /\ n.src = i /\ n.crnd = crnd[i] /\ n.cval \in Pick(mv'[i], v[i])
             /\ n = Accept(i, crnd[i], n.cval) /\ Cardinality(mv'[i]) = Enough
  BY <1>1, <1>5, OnPromiseSends DEF Accept
<1>6. ASSUME NEW n \in msgs', NEW o \in msgs, n \notin msgs, o.type = "accept",
             o.crnd = n.crnd
      PROVE  FALSE
  BY <1>5, <1>6, SameAccept
<1>7. OneAccept'
  <2>1. ASSUME NEW n \in msgs', NEW o \in msgs', n.type = "accept", o.type = "accept",
               n.crnd = o.crnd
        PROVE  n = o
    <3>1. CASE n \in msgs /\ o \in msgs
      BY <1>1, <2>1, <3>1 DEF OneAccept
    <3>2. CASE n \notin msgs /\ o \notin msgs
      <4>1. PICK x : msgs' = msgs \cup {Accept(i, crnd[i], x)}
        BY <1>1, <3>2, OnPromiseSends
      <4> QED BY <3>2, <4>1
    <3> QED BY <1>6, <2>1, <3>1, <3>2
  <2> QED BY <2>1, Zenon DEF OneAccept
<1>8. ProposedFromPromises'
  <2> SUFFICES ASSUME NEW n \in msgs', n.type = "accept", n.crnd = crnd[n.src]
               PROVE  /\ Cardinality(mv'[n.src]) >= Enough
                      /\ Cardinality(mv'[n.src]) = Enough => n.cval \in Pick(mv'[n.src], v[n.src])
    BY <1>3 DEF ProposedFromPromises
  <2>1. CASE n \notin msgs
    BY <1>5, <2>1, NodeFacts
  <2>2. CASE n \in msgs /\ n.src # i
    <3>1. n.src \in Node
      BY <1>1, <2>2, MsgFacts
    <3> QED BY <1>1, <1>2, <2>2, <3>1 DEF ProposedFromPromises
  <2>3. CASE n \in msgs /\ n.src = i
    <3>1. IsFiniteSet(mv'[i])
      BY <1>1, <1>2, SourcesCount
    <3>2. /\ Cardinality(mv[i]) <= Cardinality(mv'[i]) /\ Cardinality(mv[i]) \in Nat
          /\ Cardinality(mv'[i]) \in Nat
      BY <1>2, <3>1, FS_Subset, FS_CardinalityType
    <3>3. /\ Cardinality(mv[i]) >= Enough
          /\ Cardinality(mv[i]) = Enough => n.cval \in Pick(mv[i], v[i])
      BY <1>1, <2>3 DEF ProposedFromPromises
    <3>4. Cardinality(mv'[i]) >= Enough
      BY <3>2, <3>3, NodeFacts
    <3>5. ASSUME Cardinality(mv'[i]) = Enough
          PROVE  n.cval \in Pick(mv'[i], v[i])
      <4>1. Cardinality(mv[i]) = Cardinality(mv'[i])
        BY <3>2, <3>3, <3>5, NodeFacts
      <4>2. mv[i] = mv'[i]
        BY <1>2, <3>1, <4>1, FS_Subset
      <4> QED BY <3>3, <3>5, <4>2
    <3> QED BY <2>3, <3>4, <3>5
  <2> QED BY <2>1, <2>2, <2>3
<1>9. VotesProposed'
  BY <1>1, <1>4 DEF VotesProposed, Sends
<1>10. AcceptsSafe'
  <2> SUFFICES ASSUME NEW n \in msgs', n.type = "accept"
               PROVE  SafeAt(n.cval, n.crnd)'
    BY Zenon DEF AcceptsSafe
  <2>1. CASE n \in msgs
    BY <1>1, <2>1, SafeStays DEF AcceptsSafe
  <2>2. CASE n \notin msgs
    <3>1. n.crnd = crnd[i] /\ n.cval \in Pick(mv'[i], v[i]) /\ Cardinality(mv'[i]) = Enough
      BY <1>5, <2>2
    <3>2. ASSUME NEW M \in SUBSET Vote, NEW x \in Pick(M, v[i]), Cardinality(M) = Enough,
                 \A p \in M : Promise(p.a, i, crnd[i], p.vrnd, p.vval) \in msgs
          PROVE  SafeAt(x, crnd[i])
      BY <1>1, <1>2, <3>2, PickIsSafe DEF IInv
    <3>3. SafeAt(n.cval, n.crnd)
      BY <1>2, <3>1, <3>2
    <3> QED BY <1>1, <3>3, SafeStays
  <2> QED BY <2>1, <2>2
<1>11. LearnedVotes'
  BY <1>1, <1>3 DEF LearnedVotes, VotesGrow
<1> QED BY <1>7, <1>8, <1>9, <1>10, <1>11 DEF IInv

\* A vote is for a proposal.
LEMMA OnAcceptIInv ==
  ASSUME IInv, PInv', VotesGrow, NEW i \in Node, NEW m \in msgs, OnAccept(i, m)
  PROVE  IInv'
<1>1. TypeOK /\ OneAccept /\ VotesProposed /\ ProposedFromPromises /\ AcceptsSafe /\ LearnedVotes
  BY DEF IInv, PInv
<1>2. Sends("learn") /\ UNCHANGED <<crnd, mv, v, values>>
  BY DEF OnAccept, Sends, Learn
<1>3. \A n \in msgs' : n.type = "accept" => n \in msgs
  BY <1>2 DEF Sends
<1>4. OneAccept'
  BY <1>1, <1>3 DEF OneAccept
<1>5. ProposedFromPromises'
  BY <1>1, <1>2, ProposedStays
<1>6. VotesProposed'
  <2>1. m \in msgs' /\ m.type = "accept" /\ msgs \subseteq msgs'
    BY DEF OnAccept
  <2>2. \A n \in msgs' : n \in msgs \/ (n.rnd = m.crnd /\ n.vval = m.cval)
    BY DEF OnAccept, Learn
  <2> QED BY <1>1, <2>1, <2>2 DEF VotesProposed
<1>7. AcceptsSafe'
  <2> SUFFICES ASSUME NEW n \in msgs', n.type = "accept"
               PROVE  SafeAt(n.cval, n.crnd)'
    BY Zenon DEF AcceptsSafe
  <2>1. SafeAt(n.cval, n.crnd)
    BY <1>1, <1>3 DEF AcceptsSafe
  <2> QED BY <1>1, <2>1, SafeStays
<1>8. LearnedVotes'
  BY <1>1, <1>2 DEF LearnedVotes, VotesGrow
<1> QED BY <1>4, <1>5, <1>6, <1>7, <1>8 DEF IInv

\* A learner records a vote.
LEMMA OnLearnIInv ==
  ASSUME IInv, PInv', NEW i \in Node, NEW m \in msgs, OnLearn(i, m)
  PROVE  IInv'
<1>1. TypeOK /\ LearnedVotes
  BY DEF IInv, PInv
<1>2. UNCHANGED <<rnd, vrnd, vval, crnd, mv, v, msgs>>
  BY DEF OnLearn
<1>3. OneAccept' /\ ProposedFromPromises' /\ VotesProposed'
  BY <1>2 DEF IInv, OneAccept, ProposedFromPromises, VotesProposed
<1>4. AcceptsSafe'
  BY <1>2 DEF IInv, AcceptsSafe, SafeAt, Voted, WontVote
<1>5. LearnedVotes'
  <2>1. Voted(m.src, m.rnd, m.vval) /\ m.src \in Node
    BY <1>1, LearnIsVote, MsgFacts DEF OnLearn
  <2>2. ASSUME NEW j \in Node, NEW e \in values'[j]
        PROVE  \E a \in Node : Voted(a, e[1], e[2])
    <3>1. CASE e \in values[j]
      BY <1>1, <3>1 DEF LearnedVotes
    <3>2. CASE e = <<m.rnd, m.vval>>
      BY <2>1, <3>2
    <3> QED BY <1>1, <3>1, <3>2 DEF OnLearn, TypeOK
  <2> QED BY <1>2, <2>2 DEF LearnedVotes, Voted
<1> QED BY <1>3, <1>4, <1>5 DEF IInv

\* The invariant holds before anything was sent.
LEMMA InitIInv == Init => IInv
<1> SUFFICES ASSUME Init PROVE IInv
  OBVIOUS
<1>1. OneAccept /\ ProposedFromPromises /\ VotesProposed /\ AcceptsSafe /\ LearnedVotes
  BY DEF Init, OneAccept, ProposedFromPromises, VotesProposed, AcceptsSafe, LearnedVotes
<1> QED BY <1>1, InitPInv DEF IInv

\* A step in which no node gets a TRUST-VALUE that names another.
AddressedStep ==
  \/ \E i \in Node : StartRound(i) /\ \A j \in Node \ {i} : v'[j] = v[j]
  \/ KeepsRound /\ v' = v
  \/ \E i \in Node, m \in msgs :
       OnPrepare(i, m) \/ OnPromise(i, m) \/ OnAccept(i, m) \/ OnLearn(i, m)

\* Every such step keeps the invariant.
LEMMA AddressedStepIInv ==
  ASSUME IInv, [Next]_vars, AddressedStep
  PROVE  IInv'
<1>1. PInv /\ TypeOK
  BY DEF IInv, PInv
<1>2. PInv' /\ VotesGrow
  BY <1>1, NextPInv, StepGrows
<1>3. ASSUME NEW i \in Node, StartRound(i), \A j \in Node \ {i} : v'[j] = v[j]
      PROVE  IInv'
  BY <1>2, <1>3, StartRoundIInv
<1>4. CASE KeepsRound /\ v' = v
  <2>1. Sends("prepare") /\ UNCHANGED <<crnd, mv, v, values>>
    BY <1>4 DEF KeepsRound, Sends
  <2> QED BY <1>2, <2>1, ValuesStay, ProposedStays DEF IInv
<1>5. ASSUME NEW i \in Node, NEW m \in msgs, OnPrepare(i, m)
      PROVE  IInv'
  <2>1. Sends("promise") /\ UNCHANGED <<crnd, mv, v, values>>
    BY <1>5 DEF OnPrepare, Sends, Promise
  <2> QED BY <1>2, <2>1, ValuesStay, ProposedStays DEF IInv
<1>6. ASSUME NEW i \in Node, NEW m \in msgs,
             OnPromise(i, m) \/ OnAccept(i, m) \/ OnLearn(i, m)
      PROVE  IInv'
  BY <1>2, <1>6, OnPromiseIInv, OnAcceptIInv, OnLearnIInv
<1> QED BY <1>3, <1>4, <1>5, <1>6 DEF AddressedStep

\* Where every TRUST-VALUE reaches the node that it names, every step is of that kind.
LEMMA NextIInv ==
  ASSUME Addressed
  PROVE  IInv /\ [Next]_vars => IInv'
<1> SUFFICES ASSUME IInv, [Next]_vars PROVE IInv'
  OBVIOUS
<1>1. TypeOK
  BY DEF IInv, PInv
<1>2. AddressedStep
  BY <1>1, NextSteps DEF AddressedStep
<1> QED BY <1>2, AddressedStepIInv

\* Where every TRUST-VALUE reaches the node that it names, IInv holds.
THEOREM AddressedInvariant ==
  ASSUME Addressed
  PROVE  Spec => []IInv
<1>1. Init => IInv
  BY InitIInv
<1>2. IInv /\ [Next]_vars => IInv'
  BY NextIInv
<1> QED BY <1>1, <1>2, PTL DEF Spec

\* One ACCEPT per round, and votes for what was proposed, make learners agree.
LEMMA AgreeInRounds == IInv => OneValuePerRound
<1> SUFFICES ASSUME IInv PROVE OneValuePerRound
  OBVIOUS
<1>1. TypeOK /\ OneAccept /\ VotesProposed /\ LearnedVotes
  BY DEF IInv, PInv
<1>2. ASSUME NEW i \in Node, NEW j \in Node, NEW e \in values[i], NEW f \in values[j],
             e[1] = f[1]
      PROVE  e = f
  <2>1. /\ e \in (Round \ {0}) \X AnyValue
        /\ f \in (Round \ {0}) \X AnyValue
    BY <1>1 DEF TypeOK
  <2>2. PICK a \in Node : Voted(a, e[1], e[2])
    BY <1>1 DEF LearnedVotes
  <2>3. PICK b \in Node : Voted(b, f[1], f[2])
    BY <1>1 DEF LearnedVotes
  <2>4. e[2] = f[2]
    BY <1>1, <1>2, <2>2, <2>3, VotedOnce
  <2> QED BY <1>2, <2>1, <2>4
<1> QED BY <1>1, <1>2 DEF OneValuePerRound, OneAccept

\* All ACCEPTs of one round carry one value (on_promise, pickNext), so learners that
\* recorded the same round recorded the same value (on_learn).
THEOREM RoundsAgree ==
  ASSUME Addressed
  PROVE  Spec => []OneValuePerRound
<1> QED BY AgreeInRounds, AddressedInvariant, PTL

-----------------------------------------------------------------------------
(* Consensus *)

\* Who voted for x in round r.
Voters(r, x) == {a \in Node : Voted(a, r, x)}

\* Nothing is chosen twice in one round,
LEMMA ChosenInRound ==
  ASSUME IInv, NEW r, NEW x, NEW y, Majority(Voters(r, x)), Majority(Voters(r, y))
  PROVE  x = y
<1>1. Voters(r, x) \in SUBSET Node /\ Voters(r, y) \in SUBSET Node
  BY DEF Voters
<1>2. PICK a \in Voters(r, x) : a \in Voters(r, y)
  BY <1>1, MajoritiesMeet
<1> QED BY <1>2, VotedOnce DEF Voters, IInv, PInv

\* or in a later one.
LEMMA ChosenBefore ==
  ASSUME IInv, NEW r \in Round, NEW s \in Round, r < s, NEW x \in AnyValue, NEW y,
         Majority(Voters(r, x)), Majority(Voters(s, y))
  PROVE  x = y
<1>1. Voters(r, x) \in SUBSET Node /\ Voters(s, y) \in SUBSET Node
  BY DEF Voters
<1>2. PICK a \in Voters(r, x) : TRUE
  BY <1>1, MajoritiesMeet
<1>3. r > 0
  BY <1>2, VoteFacts DEF Voters, IInv, PInv
<1>4. PICK b \in Voters(s, y) : TRUE
  BY <1>1, MajoritiesMeet
<1>5. PICK n \in msgs : n.type = "accept" /\ n.crnd = s /\ n.cval = y
  BY <1>4 DEF Voters, Voted, Learn, IInv, VotesProposed
<1>6. SafeAt(y, s)
  BY <1>5 DEF IInv, AcceptsSafe
<1>7. PICK Q \in Quorum : \A c \in Q : Voted(c, r, y) \/ WontVote(c, r)
  BY <1>3, <1>6 DEF SafeAt
<1>8. PICK c \in Q : c \in Voters(r, x)
  BY <1>1, QuorumMeetsMajority
<1>9. Voted(c, r, x) /\ ~WontVote(c, r)
  BY <1>8 DEF Voters, WontVote
<1> QED BY <1>7, <1>9, VotedOnce DEF IInv, PInv

\* So no second value is ever chosen.
LEMMA ChosenOnce == IInv => \A x, y \in Chosen : x = y
<1> SUFFICES ASSUME IInv, NEW x \in Chosen, NEW y \in Chosen
             PROVE  x = y
  OBVIOUS
<1>1. PICK r \in Round : Majority(Voters(r, x))
  BY DEF Chosen, Voters
<1>2. PICK s \in Round : Majority(Voters(s, y))
  BY DEF Chosen, Voters
<1>3. x \in AnyValue /\ y \in AnyValue /\ r \in Nat /\ s \in Nat
  BY RoundFacts DEF Chosen, IInv, PInv
<1>4. CASE r = s
  BY <1>1, <1>2, <1>4, ChosenInRound
<1>5. CASE r < s
  BY <1>1, <1>2, <1>3, <1>5, ChosenBefore
<1>6. CASE s < r
  BY <1>1, <1>2, <1>3, <1>6, ChosenBefore
<1> QED BY <1>3, <1>4, <1>5, <1>6

\* Nothing is chosen while nothing was sent.
LEMMA InitChosen == Init => Chosen = {}
<1> SUFFICES ASSUME Init, NEW x \in Chosen PROVE FALSE
  OBVIOUS
<1>1. PICK r \in Round : Majority(Voters(r, x))
  BY DEF Chosen, Voters
<1>2. Voters(r, x) \in SUBSET Node
  BY DEF Voters
<1>3. PICK a \in Voters(r, x) : TRUE
  BY <1>1, <1>2, MajoritiesMeet
<1> QED BY <1>3 DEF Voters, Voted, Init

\* What is chosen stays chosen.
LEMMA ChosenGrows ==
  ASSUME IInv, VotesGrow
  PROVE  Chosen \subseteq Chosen'
<1> SUFFICES ASSUME NEW x \in Chosen PROVE x \in Chosen'
  OBVIOUS
<1>1. PICK r \in Round : Majority(Voters(r, x))
  BY DEF Chosen, Voters
<1>2. Voters(r, x) \in SUBSET Node /\ Voters(r, x)' \in SUBSET Node
  BY DEF Voters
<1>3. Voters(r, x) \subseteq Voters(r, x)'
  BY DEF VotesGrow, Voters
<1>4. IsFiniteSet(Voters(r, x)')
  BY <1>2, NodeFacts, FS_Subset
<1>5. /\ Cardinality(Voters(r, x)) <= Cardinality(Voters(r, x)')
      /\ Cardinality(Voters(r, x)) \in Nat /\ Cardinality(Voters(r, x)') \in Nat
  BY <1>3, <1>4, FS_Subset, FS_CardinalityType
<1>6. Majority(Voters(r, x)')
  BY <1>1, <1>5, NodeFacts DEF Majority
<1>7. x \in AnyValue
  BY DEF Chosen
<1> QED BY <1>6, <1>7 DEF Chosen, Voters

\* A step chooses a first value or changes nothing of what was chosen.
LEMMA StepChooses ==
  ASSUME IInv, IInv', VotesGrow
  PROVE  [C!Choose]_Chosen
<1>1. Chosen \subseteq Chosen' /\ Chosen' \subseteq AnyValue
  BY ChosenGrows DEF Chosen
<1>2. \A x, y \in Chosen' : x = y
  <2>1. (IInv => \A x, y \in Chosen : x = y)'
    BY ChosenOnce, PTL
  <2> QED BY <2>1
<1>3. CASE Chosen' = Chosen
  BY <1>3
<1>4. CASE Chosen' # Chosen
  <2>1. PICK x \in Chosen' : x \notin Chosen
    BY <1>1, <1>4
  <2>2. Chosen = {} /\ Chosen' = {x} /\ x \in AnyValue
    BY <1>1, <1>2, <2>1
  <2> QED BY <2>2 DEF C!Choose
<1> QED BY <1>3, <1>4

\* Where every TRUST-VALUE reaches the node that it names, the nodes implement
\* Consensus on what a majority has accepted: by whatever rounds of whatever proposers,
\* no second value is ever chosen.
THEOREM Implements ==
  ASSUME Addressed
  PROVE  Spec => ImplementsConsensus
<1>1. Init => C!Init
  BY InitChosen DEF C!Init
<1>2. IInv /\ IInv' /\ [Next]_vars => [C!Choose]_Chosen
  <2> SUFFICES ASSUME IInv, IInv', [Next]_vars PROVE [C!Choose]_Chosen
    OBVIOUS
  <2>1. VotesGrow
    BY StepGrows DEF IInv
  <2> QED BY <2>1, StepChooses
<1>3. Spec => []IInv
  BY AddressedInvariant
<1> QED BY <1>1, <1>2, <1>3, PTL DEF Spec, ImplementsConsensus, C!Spec

-----------------------------------------------------------------------------
(* The program that starts the nodes *)

\* What waits in a socket: Paxos messages that were sent, TRUST-VALUEs that name the
\* node whose socket it is, and shutdowns.
InboxOK ==
  /\ inbox = [i \in Node |-> inbox[i]]
  /\ \A i \in Node : inbox[i] \subseteq msgs \cup {m \in TrustValueMsg : m.c = i} \cup ShutdownMsg

\* Only a node that is up answers,
AnswersFromUp == \A k \in 1..Len(replies) : process[replies[k]] # "starting"

\* and the parent pings the next one when this one has answered.
PingedInOrder == \A i \in Node : i < target => process[i] # "starting"

ParentOK ==
  /\ process \in [Node -> Process] /\ pings \in [Node -> 0..Pings]
  /\ replies \in Seq(Node) /\ client \in Client /\ target \in Node
  /\ AnswersFromUp /\ PingedInOrder /\ StartedMeansLooping

StartInv == IInv /\ InboxOK /\ ParentOK

\* A process that has bound its socket has done so for ever.
ProcessesGoOn ==
  /\ process' \in [Node -> Process]
  /\ \A i \in Node : process[i] # "starting" => process'[i] # "starting"

LEMMA SetupGoesOn ==
  ASSUME ParentOK, NEW i \in Node, Setup(i) \/ OnShutdown(i)
  PROVE  ProcessesGoOn
BY DEF ParentOK, Setup, OnShutdown, ProcessesGoOn, Process

LEMMA EndsGoesOn ==
  ASSUME ParentOK, NEW S, Ends(S)
  PROVE  ProcessesGoOn
BY DEF ParentOK, Ends, ProcessesGoOn, Process

LEMMA InterruptGoesOn ==
  ASSUME ParentOK, Interrupt
  PROVE  ProcessesGoOn
BY DEF ParentOK, Interrupt, ProcessesGoOn, Process

LEMMA SameProcessesGoOn ==
  ASSUME ParentOK, process' = process
  PROVE  ProcessesGoOn
BY DEF ParentOK, ProcessesGoOn

LEMMA StepGoesOn ==
  ASSUME ParentOK, [StartNext]_startVars
  PROVE  ProcessesGoOn
<1>1. CASE UNCHANGED startVars \/ Parent
  <2>1. process' = process
    BY <1>1 DEF startVars, Parent, Ping, TakeReply, TimesOut, SendValue, Finish, Stop, Joined
  <2> QED BY <2>1, SameProcessesGoOn
<1>2. ASSUME NEW i \in Node, OnPing(i) \/ \E m \in inbox[i] : Take(i, m)
      PROVE  ProcessesGoOn
  <2>1. process' = process
    BY <1>2 DEF OnPing, Take
  <2> QED BY <2>1, SameProcessesGoOn
<1> QED BY <1>1, <1>2, SetupGoesOn, EndsGoesOn, InterruptGoesOn DEF StartNext, Loop

\* What a node takes is Paxos's, or names it.
LEMMA TakeFacts ==
  ASSUME IInv, InboxOK, NEW i \in Node, NEW m \in inbox[i], Take(i, m)
  PROVE  \/ /\ m.c = i /\ m.value \in Value
            /\ TrustValue(i, i, m.value)
         \/ m \in msgs /\ Receive(i, m)
         \/ UNCHANGED vars
<1>1. m \in msgs \cup {n \in TrustValueMsg : n.c = i}
  BY DEF Take, InboxOK
<1>2. CASE m \in msgs
  <2>1. m.type # "trust-value"
    BY <1>2 DEF IInv, PInv, TypeOK, PrepareMsg, PromiseMsg, AcceptMsg, LearnMsg
  <2> QED BY <1>2, <2>1 DEF Take, Handle
<1>3. CASE m \in TrustValueMsg /\ m.c = i
  BY <1>3 DEF Take, Handle, TrustValueMsg
<1> QED BY <1>1, <1>2, <1>3

\* Each step of the program is one of the nodes, or leaves them alone.
LEMMA StartSteps ==
  ASSUME IInv, InboxOK, [StartNext]_startVars
  PROVE  [Next]_vars /\ AddressedStep /\ msgs \subseteq msgs'
<1>1. CASE UNCHANGED vars
  BY <1>1 DEF vars, AddressedStep, KeepsRound
<1>2. ASSUME NEW i \in Node, NEW m \in inbox[i], Take(i, m)
      PROVE  [Next]_vars /\ AddressedStep /\ msgs \subseteq msgs'
  <2>1. CASE m.value \in Value /\ TrustValue(i, i, m.value)
    <3>1. [Next]_vars
      BY <2>1 DEF Next
    <3>2. StartRound(i) /\ msgs \subseteq msgs'
      BY <2>1 DEF TrustValue, OnTrust, StartRound
    <3>3. \A j \in Node \ {i} : v'[j] = v[j]
      BY <2>1 DEF TrustValue, IInv, PInv, TypeOK
    <3> QED BY <3>1, <3>2, <3>3 DEF AddressedStep
  <2>2. CASE m \in msgs /\ Receive(i, m)
    <3>1. OnPrepare(i, m) \/ OnPromise(i, m) \/ OnAccept(i, m) \/ OnLearn(i, m)
      BY <2>2 DEF Receive
    <3>2. msgs \subseteq msgs'
      BY <3>1 DEF OnPrepare, OnPromise, OnAccept, OnLearn
    <3> QED BY <2>2, <3>1, <3>2 DEF AddressedStep, Next
  <2> QED BY <1>1, <1>2, <2>1, <2>2, TakeFacts
<1>3. CASE UNCHANGED startVars \/ Parent \/ Interrupt \/ \E S \in Failures : Ends(S)
  <2>1. UNCHANGED vars
    BY <1>3 DEF startVars, Parent, Ping, TakeReply, TimesOut, SendValue, Finish, Stop, Joined,
                Interrupt, Ends
  <2> QED BY <1>1, <2>1
<1>4. ASSUME NEW i \in Node, Setup(i) \/ OnPing(i) \/ OnShutdown(i)
      PROVE  UNCHANGED vars
  BY <1>4 DEF Setup, OnPing, OnShutdown
<1> QED BY <1>1, <1>2, <1>3, <1>4 DEF StartNext, Loop

\* A message that is sent lands in sockets only.
LEMMA SentFacts ==
  ASSUME NEW box, NEW M, NEW i \in Node
  PROVE  /\ Sent(box, M) = [j \in Node |-> Sent(box, M)[j]]
         /\ Sent(box, M)[i] \subseteq box[i] \cup M
BY DEF Sent

\* What is in the sockets stays what it is.
LEMMA StepInbox ==
  ASSUME InboxOK, msgs \subseteq msgs', [StartNext]_startVars
  PROVE  InboxOK'
<1> DEFINE OK(i) == msgs \cup {m \in TrustValueMsg : m.c = i} \cup ShutdownMsg
<1>1. \A i \in Node : OK(i) \subseteq OK(i)' /\ inbox[i] \subseteq OK(i)
  BY DEF InboxOK, TrustValueMsg, ShutdownMsg
<1>2. CASE inbox' = inbox
  BY <1>2 DEF InboxOK, TrustValueMsg, ShutdownMsg
<1>3. ASSUME NEW i \in Node, OnShutdown(i)
      PROVE  InboxOK'
  <2>1. inbox' = [inbox EXCEPT ![i] = @ \ ShutdownMsg]
    BY <1>3 DEF OnShutdown
  <2>2. \A j \in Node : inbox'[j] \subseteq inbox[j]
    BY <2>1 DEF InboxOK
  <2>3. inbox' = [j \in Node |-> inbox'[j]]
    BY <2>1 DEF InboxOK
  <2>4. \A j \in Node : inbox'[j] \subseteq OK(j)'
    BY <1>1, <2>2
  <2> QED BY <2>3, <2>4 DEF InboxOK, TrustValueMsg, ShutdownMsg
<1>4. ASSUME NEW i \in Node, NEW m \in inbox[i], Take(i, m)
      PROVE  InboxOK'
  <2> DEFINE box == [inbox EXCEPT ![i] = @ \ {m}]
             new == msgs' \ msgs
  <2>1. inbox' = Sent(box, new)
    BY <1>4 DEF Take
  <2>2. \A j \in Node : box[j] \subseteq inbox[j]
    BY DEF InboxOK
  <2> HIDE DEF box
  <2>3. ASSUME NEW j \in Node
        PROVE  inbox'[j] \subseteq OK(j)'
    <3>1. inbox'[j] \subseteq box[j] \cup new
      BY <2>1, SentFacts
    <3> QED BY <1>1, <2>2, <3>1
  <2>4. inbox' = [j \in Node |-> inbox'[j]]
    BY <2>1 DEF Sent
  <2> QED BY <2>3, <2>4 DEF InboxOK, TrustValueMsg, ShutdownMsg
<1>5. CASE SendValue
  <2>1. PICK x \in Value :
          inbox' = [inbox EXCEPT ![Leader] =
                      IF process[Leader] = "looping"
                      THEN @ \cup {[type |-> "trust-value", c |-> Leader, value |-> x]} ELSE @]
    BY <1>5 DEF SendValue
  <2>2. Leader \in Node
    BY NodeFacts DEF Leader, Node
  <2>3. [type |-> "trust-value", c |-> Leader, value |-> x]
          \in {m \in TrustValueMsg : m.c = Leader}
    BY <2>2 DEF TrustValueMsg
  <2>4. ASSUME NEW j \in Node
        PROVE  inbox'[j] \subseteq OK(j)
    BY <1>1, <2>1, <2>2, <2>3 DEF InboxOK
  <2>5. inbox' = [j \in Node |-> inbox'[j]]
    BY <2>1 DEF InboxOK
  <2> QED BY <1>1, <2>4, <2>5 DEF InboxOK, TrustValueMsg, ShutdownMsg
<1>6. CASE Stop
  <2>1. inbox' = Sent(inbox, ShutdownMsg)
    BY <1>6 DEF Stop
  <2>2. ASSUME NEW j \in Node
        PROVE  inbox'[j] \subseteq OK(j)'
    BY <1>1, <2>1, SentFacts
  <2>3. inbox' = [j \in Node |-> inbox'[j]]
    BY <2>1 DEF Sent
  <2> QED BY <2>2, <2>3 DEF InboxOK, TrustValueMsg, ShutdownMsg
<1>7. CASE UNCHANGED startVars \/ Ping \/ TakeReply \/ TimesOut \/ Finish \/ Joined
           \/ Interrupt \/ \E S \in Failures : Ends(S)
  BY <1>2, <1>7 DEF startVars, Ping, TakeReply, TimesOut, Finish, Joined, Interrupt, Ends
<1>8. ASSUME NEW i \in Node, Setup(i) \/ OnPing(i)
      PROVE  inbox' = inbox
  BY <1>8 DEF Setup, OnPing
<1> QED BY <1>2, <1>3, <1>4, <1>5, <1>6, <1>7, <1>8 DEF StartNext, Parent, Loop

\* A step of the parent's that leaves the processes alone, or of theirs that leaves the
\* parent alone.
LEMMA ParentStays ==
  ASSUME ParentOK, ProcessesGoOn, UNCHANGED <<pings, replies, target>>,
         client' \in Client, client' \in {"up", "waiting"} => client \in {"up", "waiting"}
  PROVE  ParentOK'
<1>1. \A k \in 1..Len(replies) : replies[k] \in Node
  BY DEF ParentOK
<1>2. AnswersFromUp'
  BY <1>1 DEF ParentOK, ProcessesGoOn, AnswersFromUp
<1>3. PingedInOrder' /\ StartedMeansLooping'
  BY DEF ParentOK, ProcessesGoOn, PingedInOrder, StartedMeansLooping
<1> QED BY <1>2, <1>3 DEF ParentOK, ProcessesGoOn

\* There are never more pings of a node under way than counted.
LEMMA PingOK ==
  ASSUME ParentOK, Ping
  PROVE  ParentOK'
<1>1. Cardinality({k \in DOMAIN replies : replies[k] = target}) \in Nat
  <2>1. DOMAIN replies = 1..Len(replies) /\ Len(replies) \in Nat /\ 1 \in Int
    BY DEF ParentOK
  <2>2. IsFiniteSet(DOMAIN replies)
    BY <2>1, FS_Interval
  <2> QED BY <2>2, FS_Subset, FS_CardinalityType
<1>2. pings' \in [Node -> 0..Pings]
  <2>1. target \in Node /\ pings[target] \in 0..Pings /\ Pings \in Nat
    BY PingsAssumption DEF ParentOK
  <2>2. UnderWay(target) < Pings => pings[target] + 1 \in 0..Pings
    BY <1>1, <2>1 DEF UnderWay
  <2> QED BY <2>1, <2>2 DEF Ping, ParentOK
<1> QED BY <1>2 DEF Ping, ParentOK, Client, AnswersFromUp, PingedInOrder, StartedMeansLooping

\* An answer is one of a node that is up,
LEMMA OnPingOK ==
  ASSUME ParentOK, NEW i \in Node, OnPing(i)
  PROVE  ParentOK'
<1>1. pings' \in [Node -> 0..Pings]
  BY PingsAssumption DEF OnPing, ParentOK
<1>2. /\ replies' \in Seq(Node)
      /\ \A k \in 1..Len(replies') : process[replies'[k]] # "starting"
  <2>1. CASE replies' = replies
    BY <2>1 DEF ParentOK, AnswersFromUp
  <2>2. CASE replies' = Append(replies, i)
    BY <2>2 DEF ParentOK, AnswersFromUp, OnPing
  <2> QED BY <2>1, <2>2 DEF OnPing
<1> QED BY <1>1, <1>2 DEF OnPing, ParentOK, AnswersFromUp, PingedInOrder, StartedMeansLooping

\* so the parent goes on when its node is.
LEMMA TakeReplyOK ==
  ASSUME ParentOK, TakeReply
  PROVE  ParentOK'
<1>1. /\ replies \in Seq(Node) /\ replies # <<>> /\ target \in Node
      /\ Len(replies) \in Nat /\ Len(replies) > 0
      /\ target \in Nat /\ N \in Nat
  BY NodeFacts DEF TakeReply, ParentOK, Node
<1>2. Head(replies) = replies[1] /\ process[Head(replies)] # "starting"
  BY <1>1 DEF ParentOK, AnswersFromUp
<1>3. /\ Tail(replies) \in Seq(Node) /\ Len(Tail(replies)) = Len(replies) - 1
      /\ \A k \in 1..Len(Tail(replies)) : Tail(replies)[k] = replies[k + 1]
  BY <1>1
<1>4. replies' \in Seq(Node) /\ AnswersFromUp'
  <2>1. CASE replies' = <<>>
    BY <2>1 DEF AnswersFromUp
  <2>2. CASE replies' = Tail(replies)
    BY <1>1, <1>3, <2>2 DEF AnswersFromUp, ParentOK, TakeReply
  <2> QED BY <2>1, <2>2 DEF TakeReply
<1>5. target' \in Node /\ PingedInOrder'
  <2>1. CASE target' = target
    BY <1>1, <2>1 DEF ParentOK, PingedInOrder, TakeReply
  <2>2. CASE Head(replies) = target /\ target < N /\ target' = target + 1
    <3>1. target' \in Node
      BY <1>1, <2>2 DEF Node
    <3>2. \A i \in Node : i < target' => i < target \/ i = target
      BY <1>1, <2>2 DEF Node
    <3> QED BY <1>2, <2>2, <3>1, <3>2 DEF ParentOK, PingedInOrder, TakeReply
  <2> QED BY <2>1, <2>2 DEF TakeReply
<1>6. client' \in Client
  BY DEF TakeReply, Client
<1>7. StartedMeansLooping'
  <2>1. CASE client' = "up"
    <3>1. Head(replies) = target /\ target = N
      BY <2>1 DEF TakeReply
    <3>2. \A i \in Node : i < target \/ i = target
      BY <1>1, <3>1 DEF Node
    <3> QED BY <1>2, <3>1, <3>2 DEF ParentOK, PingedInOrder, TakeReply, StartedMeansLooping
  <2> QED BY <2>1 DEF TakeReply, StartedMeansLooping
<1> QED BY <1>4, <1>5, <1>6, <1>7 DEF ParentOK, TakeReply

\* Nobody reads the answers any more.
LEMMA InterruptOK ==
  ASSUME ParentOK, Interrupt
  PROVE  ParentOK'
<1>1. ProcessesGoOn
  BY InterruptGoesOn
<1>2. replies' \in Seq(Node) /\ Len(replies') = 0
  BY DEF Interrupt
<1>3. client' = "stopping" /\ UNCHANGED <<pings, target>>
  BY DEF Interrupt
<1> QED BY <1>1, <1>2, <1>3 DEF ParentOK, ProcessesGoOn, Client, AnswersFromUp, PingedInOrder,
           StartedMeansLooping

\* Every step keeps what the parent relies on.
LEMMA StepParent ==
  ASSUME ParentOK, [StartNext]_startVars
  PROVE  ParentOK'
<1>1. ProcessesGoOn
  BY StepGoesOn
<1>2. CASE UNCHANGED startVars \/ TimesOut \/ SendValue \/ Finish \/ Stop \/ Joined
           \/ \E S \in Failures : Ends(S)
  <2>1. /\ UNCHANGED <<pings, replies, target>> /\ client' \in Client
        /\ client' \in {"up", "waiting"} => client \in {"up", "waiting"}
    BY <1>2 DEF startVars, TimesOut, SendValue, Finish, Stop, Joined, Ends, ParentOK, Client
  <2> QED BY <1>1, <2>1, ParentStays
<1>3. ASSUME NEW i \in Node, Setup(i) \/ OnShutdown(i) \/ \E m \in inbox[i] : Take(i, m)
      PROVE  ParentOK'
  <2>1. UNCHANGED <<pings, replies, client, target>> /\ client \in Client
    BY <1>3 DEF Setup, OnShutdown, Take, ParentOK
  <2> QED BY <1>1, <2>1, ParentStays
<1> QED BY <1>2, <1>3, PingOK, OnPingOK, TakeReplyOK, InterruptOK DEF StartNext, Parent, Loop

\* Nothing waits anywhere when the program begins.
LEMMA InitStartInv == StartInit => StartInv
<1> SUFFICES ASSUME StartInit PROVE StartInv
  OBVIOUS
<1>1. IInv
  BY InitIInv DEF StartInit
<1>2. InboxOK
  BY DEF StartInit, InboxOK
<1>3. 1 \in Node /\ Pings \in Nat /\ \A i \in Node : i >= 1
  BY NodeFacts, PingsAssumption DEF Node
<1>4. replies \in Seq(Node) /\ Len(replies) = 0
  BY DEF StartInit
<1>5. ParentOK
  BY <1>3, <1>4 DEF StartInit, ParentOK, Process, Client, AnswersFromUp, PingedInOrder,
     StartedMeansLooping
<1> QED BY <1>1, <1>2, <1>5 DEF StartInv

\* Every step of the program keeps the invariant.
LEMMA NextStartInv == StartInv /\ [StartNext]_startVars => StartInv'
<1> SUFFICES ASSUME StartInv, [StartNext]_startVars PROVE StartInv'
  OBVIOUS
<1>1. [Next]_vars /\ AddressedStep /\ msgs \subseteq msgs'
  BY StartSteps DEF StartInv
<1>2. IInv'
  BY <1>1, AddressedStepIInv DEF StartInv
<1>3. InboxOK' /\ ParentOK'
  BY <1>1, StepInbox, StepParent DEF StartInv
<1> QED BY <1>2, <1>3 DEF StartInv

\* The invariant of the program, which needs no assumption on TRUST-VALUEs: send_value
\* names the node that it sends to.
THEOREM StartInvariant == StartSpec => []StartInv
<1>1. StartInit => StartInv
  BY InitStartInv
<1>2. StartInv /\ [StartNext]_startVars => StartInv'
  BY NextStartInv
<1> QED BY <1>1, <1>2, PTL DEF StartSpec

\* Every variable of the program holds a value of the kind the code gives it.
THEOREM StartTypeCorrect == StartSpec => []StartTypeOK
<1>1. StartInv => StartTypeOK
  BY DEF StartInv, IInv, PInv, InboxOK, ParentOK, StartTypeOK
<1> QED BY <1>1, StartInvariant, PTL

\* When start() returns every node has bound its socket, whatever late answers to
\* repeated pings wait in the parent's.
THEOREM StartWaitsForAll == StartSpec => []StartedMeansLooping
<1>1. StartInv => StartedMeansLooping
  BY DEF StartInv, ParentOK
<1> QED BY <1>1, StartInvariant, PTL

\* The program runs the nodes of InsanePaxos: what waits in the sockets was sent, and
\* everything else that happens leaves the nodes' state alone.
THEOREM StartRuns == StartSpec => Spec
<1>1. StartInit => Init
  BY DEF StartInit
<1>2. StartInv /\ [StartNext]_startVars => [Next]_vars
  BY StartSteps DEF StartInv
<1> QED BY <1>1, <1>2, StartInvariant, PTL DEF StartSpec, Spec

\* In the program all ACCEPTs of one round carry one value, for on_trust_value on no node
\* gets a TRUST-VALUE that names another.
THEOREM StartRoundsAgree == StartSpec => []OneValuePerRound
<1>1. StartInv => OneValuePerRound
  BY AgreeInRounds DEF StartInv
<1> QED BY <1>1, StartInvariant, PTL

\* So the program implements Consensus whatever nodes and the parent fail or are
\* interrupted, for no TRUST-VALUE reaches a node that it does not name.
THEOREM StartImplements == StartSpec => ImplementsConsensus
<1>1. StartInit => C!Init
  BY InitChosen DEF StartInit, C!Init
<1>2. StartInv /\ StartInv' /\ [StartNext]_startVars => [C!Choose]_Chosen
  <2> SUFFICES ASSUME StartInv, StartInv', [StartNext]_startVars PROVE [C!Choose]_Chosen
    OBVIOUS
  <2>1. IInv /\ IInv' /\ [Next]_vars
    BY StartSteps DEF StartInv
  <2>2. VotesGrow
    BY <2>1, StepGrows DEF IInv
  <2> QED BY <2>1, <2>2, StepChooses
<1> QED BY <1>1, <1>2, StartInvariant, PTL DEF StartSpec, ImplementsConsensus, C!Spec
=============================================================================
