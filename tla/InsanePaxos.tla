----------------------------- MODULE InsanePaxos -----------------------------
(***************************************************************************)
(* The Node of python/insane-paxos/node.py, which is proposer, acceptor and *)
(* learner in one, and runs both phases of Paxos on one value.  A node is a *)
(* process that handles one UDP message at a time.  The transport may lose, *)
(* duplicate and reorder: msgs holds every message ever sent, and each may  *)
(* be received by any of its receivers any number of times, or never.       *)
(***************************************************************************)
EXTENDS Integers, FiniteSets

CONSTANTS
  N,           \* the number of nodes
  Value,       \* the values that clients ask for
  NoValue,     \* Python's None: what a node without a value proposes
  MaxRound,    \* Bound: the largest round that is started
  Learner,     \* Bound: the nodes whose learning is followed
  Misaddressed \* may a TRUST-VALUE reach a node that it does not name?

ASSUME NAssumption == N \in Nat \ {0}
ASSUME LearnerAssumption == Learner \subseteq 1..N
ASSUME MaxRoundAssumption == MaxRound \in Nat
ASSUME MisaddressedAssumption == Misaddressed \in BOOLEAN

VARIABLES
  rnd,     \* the round each acceptor is in
  vrnd,    \* the round it voted in last, 0 for None
  vval,    \* what it voted for
  crnd,    \* the round each proposer has picked, 0 for None
  mv,      \* the promises it has for this round
  v,       \* the value it wants consensus for
  values,  \* what each learner has recorded, as pairs of a round and a value
  msgs     \* the messages that were sent

vars == <<rnd, vrnd, vval, crnd, mv, v, values, msgs>>

-----------------------------------------------------------------------------
(* Data *)

Node == 1..N

Round == 0..MaxRound

AnyValue == Value \cup {NoValue}

\* PREPARE, ACCEPT and LEARN go to every node, PROMISE to the one that asked.
Prepare(i, r) == [type |-> "prepare", src |-> i, crnd |-> r]
Promise(a, i, r, vr, x) ==
  [type |-> "promise", src |-> a, dst |-> i, rnd |-> r, vrnd |-> vr, vval |-> x]
Accept(i, r, x) == [type |-> "accept", src |-> i, crnd |-> r, cval |-> x]
Learn(a, r, x) == [type |-> "learn", src |-> a, rnd |-> r, vval |-> x]

PrepareMsg == [type: {"prepare"}, src: Node, crnd: Round \ {0}]
PromiseMsg == [type: {"promise"}, src: Node, dst: Node, rnd: Round \ {0},
               vrnd: Round, vval: AnyValue]
AcceptMsg == [type: {"accept"}, src: Node, crnd: Round \ {0}, cval: AnyValue]
LearnMsg == [type: {"learn"}, src: Node, rnd: Round \ {0}, vval: AnyValue]

\* A member (vrnd, vval, a) of mv.
Vote == [vrnd: Round, vval: AnyValue, a: Node]

-----------------------------------------------------------------------------
(* Proposer *)

\* Wrong: the nodes are numbered from 0.
NextRoundFromZero(i) == IF crnd[i] = 0 THEN i - 1 ELSE crnd[i] + N

\* pickNext
NextRound(i) == IF crnd[i] = 0 THEN i ELSE crnd[i] + N

\* Wrong: only those that may fail are counted.
FailureNodes == (N - 1) \div 2

\* failure_nodes() + 1, in Python 2's integer division
Enough == ((N - 1) \div 2) + 1

\* Wrong: a value that may have been chosen is not looked for.
PickOwn(votes, own) == {own}

\* The values that a proposer with these promises, and own in v, may propose.
\* sorted(mv)[-1] has the largest vrnd; None sorts before the numbers.
Pick(votes, own) ==
  IF \A p \in votes : p.vrnd = 0
  THEN {own}
  ELSE {p.vval : p \in {q \in votes : \A o \in votes : o.vrnd <= q.vrnd}}

-----------------------------------------------------------------------------
(* Actions *)

Init ==
  /\ rnd = [i \in Node |-> 0]
  /\ vrnd = [i \in Node |-> 0]
  /\ vval = [i \in Node |-> NoValue]
  /\ crnd = [i \in Node |-> 0]
  /\ mv = [i \in Node |-> {}]
  /\ v = [i \in Node |-> NoValue]
  /\ values = [i \in Node |-> {}]
  /\ msgs = {}

\* on_trust(c) on node i
OnTrust(i, c) ==
  /\ IF c = i
     THEN /\ NextRound(i) <= MaxRound
          /\ crnd' = [crnd EXCEPT ![i] = NextRound(i)]
          /\ mv' = [mv EXCEPT ![i] = {}]
          /\ msgs' = msgs \cup {Prepare(i, NextRound(i))}
     ELSE UNCHANGED <<crnd, mv, msgs>>
  /\ UNCHANGED <<rnd, vrnd, vval, values>>

Trust(i) == OnTrust(i, i) /\ UNCHANGED v

\* Wrong: the value of a round that has started is replaced.
TrustValueLate(i, c, x) ==
  /\ v' = [v EXCEPT ![i] = x]
  /\ IF crnd[i] = 0 THEN OnTrust(i, c)
     ELSE UNCHANGED <<rnd, vrnd, vval, crnd, mv, values, msgs>>

\* on_trust_value(c, x): the value is set before c is looked at.
TrustValue(i, c, x) ==
  /\ c # i => Misaddressed
  /\ v' = [v EXCEPT ![i] = x]
  /\ OnTrust(i, c)

OnPrepare(i, m) ==
  /\ m.type = "prepare"
  /\ m.crnd > rnd[i]
  /\ rnd' = [rnd EXCEPT ![i] = m.crnd]
  /\ msgs' = msgs \cup {Promise(i, m.src, m.crnd, vrnd[i], vval[i])}
  /\ UNCHANGED <<vrnd, vval, crnd, mv, v, values>>

\* ACCEPTs go out whenever mv has just the size of a quorum, so also when a
\* promise that is in mv arrives again.
OnPromise(i, m) ==
  /\ m.type = "promise" /\ m.dst = i
  /\ m.rnd = crnd[i]
  /\ mv' = [mv EXCEPT ![i] = @ \cup {[vrnd |-> m.vrnd, vval |-> m.vval, a |-> m.src]}]
  /\ IF Cardinality(mv'[i]) = Enough
     THEN \E x \in Pick(mv'[i], v[i]) : msgs' = msgs \cup {Accept(i, crnd[i], x)}
     ELSE UNCHANGED msgs
  /\ UNCHANGED <<rnd, vrnd, vval, crnd, v, values>>

\* Wrong: a promise for this very round bars its ACCEPT.
OnAcceptNewer(i, m) ==
  /\ m.type = "accept"
  /\ m.crnd > rnd[i]
  /\ rnd' = [rnd EXCEPT ![i] = m.crnd]
  /\ vrnd' = [vrnd EXCEPT ![i] = m.crnd]
  /\ vval' = [vval EXCEPT ![i] = m.cval]
  /\ msgs' = msgs \cup {Learn(i, m.crnd, m.cval)}
  /\ UNCHANGED <<crnd, mv, v, values>>

OnAccept(i, m) ==
  /\ m.type = "accept"
  /\ m.crnd >= rnd[i] /\ m.crnd # vrnd[i]
  /\ rnd' = [rnd EXCEPT ![i] = m.crnd]
  /\ vrnd' = [vrnd EXCEPT ![i] = m.crnd]
  /\ vval' = [vval EXCEPT ![i] = m.cval]
  /\ msgs' = msgs \cup {Learn(i, m.crnd, m.cval)}
  /\ UNCHANGED <<crnd, mv, v, values>>

OnLearn(i, m) ==
  /\ m.type = "learn" /\ i \in Learner
  /\ \A e \in values[i] : e[1] # m.rnd
  /\ values' = [values EXCEPT ![i] = @ \cup {<<m.rnd, m.vval>>}]
  /\ UNCHANGED <<rnd, vrnd, vval, crnd, mv, v, msgs>>

Receive(i, m) == OnPrepare(i, m) \/ OnPromise(i, m) \/ OnAccept(i, m) \/ OnLearn(i, m)

Next ==
  \E i \in Node :
    \/ Trust(i)
    \/ \E c \in Node, x \in Value : TrustValue(i, c, x)
    \/ \E m \in msgs : OnPrepare(i, m) \/ OnPromise(i, m) \/ OnAccept(i, m) \/ OnLearn(i, m)

Spec == Init /\ [][Next]_vars

\* The nodes are up and no message is lost for good.
FairSpec == Spec /\ \A i \in Node : WF_vars(\E m \in msgs : Receive(i, m))

-----------------------------------------------------------------------------
(* Properties *)

\* Every variable holds a value of the kind the code gives it.
TypeOK ==
  /\ rnd \in [Node -> Round]
  /\ vrnd \in [Node -> Round]
  /\ vval \in [Node -> AnyValue]
  /\ crnd \in [Node -> Round]
  /\ mv \in [Node -> SUBSET Vote]
  /\ v \in [Node -> AnyValue]
  /\ values \in [Node -> SUBSET ((Round \ {0}) \X AnyValue)]
  /\ msgs \subseteq PrepareMsg \cup PromiseMsg \cup AcceptMsg \cup LearnMsg

\* What the LEARNs of on_accept have made known: a voted for x in round r.
Voted(a, r, x) == Learn(a, r, x) \in msgs

Majority(S) == 2 * Cardinality(S) > N

Chosen == {x \in AnyValue : \E r \in Round : Majority({a \in Node : Voted(a, r, x)})}

\* All ACCEPTs of one round carry one value, although on_promise may send them
\* again and pickNext of each node counts on its own; so learners that recorded
\* the same round recorded the same value.
OneValuePerRound ==
  /\ \A m1, m2 \in msgs :
       m1.type = "accept" /\ m2.type = "accept" /\ m1.crnd = m2.crnd => m1 = m2
  /\ \A i, j \in Node : \A e \in values[i], f \in values[j] : e[1] = f[1] => e = f

\* "Same as all_promises, but fires as soon as we have a majority": what an ACCEPT
\* carries was picked from the promises of a majority, also after pickNext has
\* begun another round.  True when N is odd.
AcceptAfterMajority ==
  \A m \in msgs : m.type = "accept" =>
    Majority({p.src : p \in {q \in msgs : q.type = "promise" /\ q.rnd = m.crnd}})

\* The nodes implement Consensus on what a majority has accepted: no second
\* value is ever chosen, by whatever rounds of whatever proposers, although the
\* acceptors only compare round numbers (on_prepare, on_accept) and a proposer
\* asks only some of them (on_promise).
C == INSTANCE Consensus WITH Value <- AnyValue, chosen <- Chosen

ImplementsConsensus == C!Spec

\* A node that is the only one to lead gets every learner to learn a value.
LeaderDecides ==
  \A i \in Node :
    (crnd[i] # 0 /\ \A j \in Node \ {i} : crnd[j] = 0) ~>
      \/ \A j \in Learner : \E e \in values[j] : e[1] = crnd[i]
      \/ \E j \in Node \ {i} : crnd[j] # 0
=============================================================================
