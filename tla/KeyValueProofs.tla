---------------------------- MODULE KeyValueProofs ----------------------------
(* Proofs about KeyValue, for any length of the network and of the count. *)
EXTENDS KeyValue, SequenceTheorems, TLAPS

-----------------------------------------------------------------------------
(* The inductive invariant *)

Types ==
  /\ db \in Nat \cup {Missing}
  /\ value \in Nat
  /\ op \in {"ping", "get", "put"}
  /\ requests \in Seq(Request)

IsPut(i) == i \in 1..Len(requests) /\ requests[i].op = "put"

\* The puts under way carry numbers that go up, from what the server has to the next
\* number of the client, however often they were sent and whichever were lost.
PutsGoUp ==
  /\ db # Missing => db <= value + 1
  /\ \A i \in 1..Len(requests) : IsPut(i) =>
       /\ requests[i].value <= value + 1
       /\ db # Missing => db <= requests[i].value
  /\ \A i, j \in 1..Len(requests) :
       i < j /\ IsPut(i) /\ IsPut(j) => requests[i].value <= requests[j].value

IInv == Types /\ PutsGoUp

-----------------------------------------------------------------------------
(* Requests *)

\* The fields of the requests under way.
LEMMA RequestFacts ==
  ASSUME Types
  PROVE  /\ Len(requests) \in Nat
         /\ \A i \in 1..Len(requests) :
              requests[i] \in Request /\ (IsPut(i) => requests[i].value \in Nat)
<1>1. Len(requests) \in Nat
  BY DEF Types
<1>2. ASSUME NEW i \in 1..Len(requests)
      PROVE  requests[i] \in Request /\ (IsPut(i) => requests[i].value \in Nat)
  <2>1. requests[i] \in Request
    BY <1>2, ElementOfSeq DEF Types
  <2> QED BY <2>1, BoundsAssumption DEF Request, Value, IsPut
<1> QED BY <1>1, <1>2

\* The oldest request, and those behind it.
LEMMA FirstRequest ==
  ASSUME Types, requests # <<>>
  PROVE  /\ 1 \in 1..Len(requests) /\ Head(requests) = requests[1]
         /\ Tail(requests) \in Seq(Request) /\ Len(Tail(requests)) = Len(requests) - 1
         /\ \A i \in 1..Len(Tail(requests)) :
              i + 1 \in 1..Len(requests) /\ Tail(requests)[i] = requests[i + 1]
<1>1. Len(requests) \in Nat /\ Len(requests) # 0
  BY EmptySeq DEF Types
<1>2. /\ Tail(requests) \in Seq(Request) /\ Len(Tail(requests)) = Len(requests) - 1
      /\ \A i \in 1..Len(Tail(requests)) : Tail(requests)[i] = requests[i + 1]
  BY HeadTailProperties DEF Types
<1> QED BY <1>1, <1>2

\* A request that is dropped or done leaves the others in order.
LEMMA TakeFirst ==
  ASSUME IInv, requests # <<>>, requests' = Tail(requests), UNCHANGED <<db, value>>
  PROVE  requests' \in Seq(Request) /\ PutsGoUp'
<1>1. Types /\ Types => requests' \in Seq(Request)
  BY FirstRequest DEF IInv
<1>2. \A i \in 1..Len(requests') :
        i + 1 \in 1..Len(requests) /\ requests'[i] = requests[i + 1]
  BY FirstRequest DEF IInv
<1>3. \A i \in 1..Len(requests') : IsPut(i)' => IsPut(i + 1)
  BY <1>2 DEF IsPut
<1>4. Len(requests') \in Nat
  BY <1>1 DEF IInv
<1>5. ASSUME NEW i \in 1..Len(requests'), IsPut(i)'
      PROVE  /\ requests'[i].value <= value' + 1
             /\ db' # Missing => db' <= requests'[i].value
  BY <1>2, <1>3, <1>5 DEF IInv, PutsGoUp
<1>6. ASSUME NEW i \in 1..Len(requests'), NEW j \in 1..Len(requests'), i < j,
             IsPut(i)', IsPut(j)'
      PROVE  requests'[i].value <= requests'[j].value
  <2>1. i + 1 < j + 1
    BY <1>4, <1>6
  <2> QED BY <1>2, <1>3, <1>6, <2>1 DEF IInv, PutsGoUp
<1> QED BY <1>1, <1>5, <1>6 DEF IInv, PutsGoUp

-----------------------------------------------------------------------------
(* Each step keeps the invariant *)

\* The invariant holds before the client has sent anything.
LEMMA InitIInv == Init => IInv
<1> SUFFICES ASSUME Init PROVE IInv
  OBVIOUS
<1>1. Len(requests) = 0 /\ requests \in Seq(Request)
  BY EmptySeq DEF Init
<1>2. Types
  BY <1>1 DEF Init, Types
<1>3. PutsGoUp
  BY <1>1 DEF Init, PutsGoUp
<1> QED BY <1>2, <1>3 DEF IInv

\* A put that the client sends has the largest number so far.
LEMMA SendRequestIInv ==
  ASSUME IInv, SendRequest
  PROVE  IInv'
<1>1. Types /\ PutsGoUp /\ UNCHANGED <<db, value, op>>
  BY DEF IInv, SendRequest
<1>2. value \in Nat /\ value + 1 \in Value /\ Len(requests) \in Nat
  BY <1>1, BoundsAssumption, RequestFacts DEF SendRequest, Types, Value
<1>3. TheRequest \in Request
  BY <1>1, <1>2 DEF TheRequest, Request, Types
<1>4. TheRequest.op = "put" => TheRequest.value = value + 1
  BY DEF TheRequest
<1>5. CASE requests' = requests
  <2>1. Types'
    BY <1>1, <1>5 DEF Types
  <2>2. PutsGoUp'
    BY <1>1, <1>5 DEF PutsGoUp, IsPut
  <2> QED BY <2>1, <2>2 DEF IInv
<1>6. CASE requests' = Append(requests, TheRequest)
  <2>1. /\ requests' \in Seq(Request) /\ Len(requests') = Len(requests) + 1
        /\ \A i \in 1..Len(requests) : requests'[i] = requests[i]
        /\ requests'[Len(requests) + 1] = TheRequest
    BY <1>1, <1>3, <1>6, AppendProperties DEF Types
  <2>2. \A i \in 1..Len(requests') : i \in 1..Len(requests) \/ i = Len(requests) + 1
    BY <1>2, <2>1
  <2>3. \A i \in 1..Len(requests) : IsPut(i)' => IsPut(i)
    BY <2>1 DEF IsPut
  <2>4. Types'
    BY <1>1, <2>1 DEF Types
  <2>5. ASSUME NEW i \in 1..Len(requests'), IsPut(i)'
        PROVE  /\ requests'[i].value <= value' + 1
               /\ db' # Missing => db' <= requests'[i].value
    <3>1. CASE i \in 1..Len(requests)
      BY <1>1, <2>1, <2>3, <2>5, <3>1 DEF PutsGoUp
    <3>2. CASE i = Len(requests) + 1
      <4>1. requests'[i].value = value + 1
        BY <1>4, <2>1, <2>5, <3>2 DEF IsPut
      <4> QED BY <1>1, <1>2, <4>1 DEF PutsGoUp
    <3> QED BY <2>2, <3>1, <3>2
  <2>6. ASSUME NEW i \in 1..Len(requests'), NEW j \in 1..Len(requests'), i < j,
               IsPut(i)', IsPut(j)'
        PROVE  requests'[i].value <= requests'[j].value
    <3>1. i \in 1..Len(requests) /\ IsPut(i)
      BY <1>2, <2>1, <2>3, <2>6
    <3>2. CASE j \in 1..Len(requests)
      BY <1>1, <2>1, <2>3, <2>6, <3>1, <3>2 DEF PutsGoUp
    <3>3. CASE j = Len(requests) + 1
      <4>1. requests'[j].value = value + 1
        BY <1>4, <2>1, <2>6, <3>3 DEF IsPut
      <4> QED BY <1>1, <2>1, <3>1, <4>1 DEF PutsGoUp
    <3> QED BY <2>2, <3>2, <3>3
  <2>7. PutsGoUp'
    BY <1>1, <2>5, <2>6 DEF PutsGoUp
  <2> QED BY <2>4, <2>7 DEF IInv
<1> QED BY <1>5, <1>6 DEF SendRequest, Post

\* The client's number goes up.
LEMMA ReceiveIInv ==
  ASSUME IInv, Receive
  PROVE  IInv'
<1>1. UNCHANGED <<db, requests>> /\ value \in Nat
  BY DEF IInv, Types, Receive
<1>2. value' = value \/ value' = value + 1
  BY DEF Receive, NextValue
<1>3. op' \in {"put", "get"}
  BY DEF Receive
<1>4. Types'
  BY <1>1, <1>2, <1>3 DEF IInv, Types
<1>5. db # Missing => db <= value' + 1
  <2>1. db # Missing => db \in Nat /\ db <= value + 1
    BY DEF IInv, Types, PutsGoUp
  <2> QED BY <1>1, <1>2, <2>1
<1>6. ASSUME NEW i \in 1..Len(requests), IsPut(i)
      PROVE  requests[i].value <= value' + 1
  <2>1. requests[i].value \in Nat /\ requests[i].value <= value + 1
    BY <1>6, RequestFacts DEF IInv, PutsGoUp
  <2> QED BY <1>1, <1>2, <2>1
<1>7. \A i : IsPut(i)' <=> IsPut(i)
  BY <1>1 DEF IsPut
<1>8. PutsGoUp'
  BY <1>1, <1>5, <1>6, <1>7 DEF IInv, PutsGoUp
<1> QED BY <1>4, <1>8 DEF IInv

\* The server takes the number of the oldest put.
LEMMA ServePut ==
  ASSUME IInv, requests # <<>>, requests[1].op = "put", requests' = Tail(requests),
         db' = requests[1].value, UNCHANGED <<value, op>>
  PROVE  IInv' /\ (db # Missing => db' >= db) /\ db' \in Nat
<1>1. Types /\ IsPut(1) /\ 1 \in 1..Len(requests) /\ Len(requests) \in Nat
  BY FirstRequest, RequestFacts DEF IInv, IsPut
<1>2. /\ requests' \in Seq(Request) /\ Len(requests') \in Nat
      /\ \A i \in 1..Len(requests') :
           i + 1 \in 1..Len(requests) /\ requests'[i] = requests[i + 1]
  BY <1>1, FirstRequest
<1>3. \A i \in 1..Len(requests') : IsPut(i)' => IsPut(i + 1)
  BY <1>2 DEF IsPut
<1>4. db' \in Nat /\ db' <= value + 1 /\ value \in Nat
  BY <1>1, RequestFacts DEF IInv, Types, PutsGoUp
<1>5. ASSUME db # Missing
      PROVE  db' >= db
  <2>1. db \in Nat /\ db <= requests[1].value
    BY <1>1, <1>5 DEF IInv, Types, PutsGoUp
  <2> QED BY <1>4, <2>1
<1>6. Types'
  BY <1>1, <1>2, <1>4 DEF Types
<1>7. ASSUME NEW i \in 1..Len(requests'), IsPut(i)'
      PROVE  requests'[i].value <= value' + 1 /\ db' <= requests'[i].value
  <2>1. 1 < i + 1 /\ IsPut(i + 1)
    BY <1>2, <1>3, <1>7
  <2> QED BY <1>1, <1>2, <1>7, <2>1 DEF IInv, PutsGoUp
<1>8. ASSUME NEW i \in 1..Len(requests'), NEW j \in 1..Len(requests'), i < j,
             IsPut(i)', IsPut(j)'
      PROVE  requests'[i].value <= requests'[j].value
  <2>1. i + 1 < j + 1 /\ IsPut(i + 1) /\ IsPut(j + 1)
    BY <1>2, <1>3, <1>8
  <2> QED BY <1>2, <1>8, <2>1 DEF IInv, PutsGoUp
<1>9. PutsGoUp'
  BY <1>4, <1>7, <1>8 DEF PutsGoUp
<1> QED BY <1>4, <1>5, <1>6, <1>9 DEF IInv

\* Every step keeps the invariant, and never takes the counter back.
LEMMA NextIInv ==
  ASSUME IInv, [Next]_vars
  PROVE  IInv' /\ (db # Missing => db' \in Int /\ db' >= db)
<1>1. db # Missing => db \in Nat
  BY DEF IInv, Types
<1>2. CASE SendRequest
  <2>1. db' = db
    BY <1>2 DEF SendRequest
  <2> QED BY <1>1, <1>2, <2>1, SendRequestIInv
<1>3. CASE UNCHANGED <<db, value, op, requests>>
  <2>1. IInv'
    BY <1>3 DEF IInv, Types, PutsGoUp, IsPut
  <2> QED BY <1>1, <1>3, <2>1
<1>4. CASE Receive
  <2>1. db' = db
    BY <1>4 DEF Receive
  <2> QED BY <1>1, <1>4, <2>1, ReceiveIInv
<1>5. CASE requests # <<>> /\ requests' = Tail(requests) /\ UNCHANGED <<db, value, op>>
  <2>1. requests' \in Seq(Request) /\ PutsGoUp'
    BY <1>5, TakeFirst
  <2>2. Types'
    BY <1>5, <2>1 DEF IInv, Types
  <2> QED BY <1>1, <1>5, <2>1, <2>2 DEF IInv
<1>6. ASSUME NEW lost \in BOOLEAN, Serve(lost)
      PROVE  IInv' /\ (db # Missing => db' \in Int /\ db' >= db)
  <2>1. /\ requests # <<>> /\ requests' = Tail(requests) /\ UNCHANGED <<value, op>>
        /\ db' = IF Head(requests).op = "put" THEN Head(requests).value ELSE db
    BY <1>6 DEF Serve
  <2>2. Head(requests) = requests[1]
    BY <2>1, FirstRequest DEF IInv
  <2>3. CASE requests[1].op = "put"
    BY <2>1, <2>2, <2>3, ServePut
  <2>4. CASE requests[1].op # "put"
    BY <1>5, <2>1, <2>2, <2>4
  <2> QED BY <2>3, <2>4
<1>7. TimesOut \/ UNCHANGED vars => UNCHANGED <<db, value, op, requests>>
  BY DEF TimesOut, vars
<1>8. Lose => requests # <<>> /\ requests' = Tail(requests) /\ UNCHANGED <<db, value, op>>
  BY DEF Lose
<1> QED BY <1>2, <1>3, <1>4, <1>5, <1>6, <1>7, <1>8 DEF Next

-----------------------------------------------------------------------------

\* The invariant holds whatever is lost or sent again.
THEOREM Invariant == Spec => []IInv
<1>1. Init => IInv
  BY InitIInv
<1>2. IInv /\ [Next]_vars => IInv'
  BY NextIInv
<1> QED BY <1>1, <1>2, PTL DEF Spec

\* Repeated and forgotten puts never take the server's counter back (client.main).
THEOREM CountsUp == Spec => ServerCountsUp
<1>1. IInv /\ [Next]_vars => [db # Missing => db' \in Int /\ db' >= db]_vars
  BY NextIInv
<1> QED BY <1>1, Invariant, PTL DEF Spec, ServerCountsUp
=============================================================================
