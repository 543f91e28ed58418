------------------------------- MODULE KeyValue -------------------------------
(***************************************************************************)
(* The key-value client and server that run over the ordered network        *)
(* (python/key-value-store).  The client counts: it pings the server until   *)
(* it answers, and then fetches the counter and stores its own next number,  *)
(* over and over.  Each call sends a datagram and waits; when nothing comes  *)
(* within a second it sends again.  Answers do not say what they answer.     *)
(*                                                                         *)
(* The network loses datagrams, but keeps their order, as the Paxos network  *)
(* between the two is meant to do.                                          *)
(***************************************************************************)
EXTENDS Integers, Sequences

CONSTANTS
  Missing,   \* None: what get returns for a key that is not there
  Pong,      \* "Ping reply"
  MaxValue,  \* Bound: where the client stops counting
  Buffer     \* Bound: datagrams under way in each direction; more are lost

ASSUME BoundsAssumption == MaxValue \in Nat /\ Buffer \in Nat \ {0}
ASSUME ReplyAssumption == Missing # Pong /\ {Missing, Pong} \cap Int = {}

Value == 0..(MaxValue + 1)
Request == [op: {"ping", "get"}] \cup [op: {"put"}, value: Value]
Reply == Value \cup {Missing, Pong}

VARIABLES
  db,        \* the server's counter
  value,     \* the client's
  op,        \* the call the client is in
  waiting,   \* has it sent its request?
  requests,  \* datagrams to the server
  replies    \* datagrams to the client

vars == <<db, value, op, waiting, requests, replies>>

-----------------------------------------------------------------------------

Post(q, m) == IF Len(q) < Buffer THEN Append(q, m) ELSE q

Init ==
  /\ db = Missing
  /\ value = 0
  /\ op = "ping" /\ waiting = FALSE
  /\ requests = <<>> /\ replies = <<>>

\* The datagram of the call the client is in.
TheRequest == IF op = "put" THEN [op |-> "put", value |-> value + 1] ELSE [op |-> op]

\* sendrecv, up to the wait.
SendRequest ==
  /\ ~waiting /\ value < MaxValue
  /\ waiting' = TRUE
  /\ requests' = Post(requests, TheRequest)
  /\ UNCHANGED <<db, value, op, replies>>

\* Wrong: the client waits on.
StillWaiting == TRUE

\* Does the client wait on after a timeout?
AfterTimeout == FALSE

\* socket.timeout: the call tries again.
TimesOut ==
  /\ waiting
  /\ waiting' = AfterTimeout
  /\ UNCHANGED <<db, value, op, requests, replies>>

\* Wrong: the client resets its number to what it has fetched, if anything.
NextValueFetched(r) ==
  CASE op = "get" -> IF r \in Int THEN r ELSE 0
    [] op = "put" -> value + 1
    [] OTHER -> value

\* The client's number after answer r; only a put changes it.
NextValue(r) == IF op = "put" THEN value + 1 ELSE value

\* recv: whatever comes is the answer to the call under way.
Receive ==
  /\ waiting /\ replies # <<>>
  /\ replies' = Tail(replies)
  /\ waiting' = FALSE
  /\ op' = IF op = "get" THEN "put" ELSE "get"
  /\ value' = NextValue(Head(replies))
  /\ UNCHANGED <<db, requests>>

\* What the server answers to request r.
Answer(r) == CASE r.op = "ping" -> Pong
               [] r.op = "get"  -> db
               [] r.op = "put"  -> Missing

\* The server's serve, dispatch and handler; the answer may get lost.
Serve(lost) ==
  /\ requests # <<>>
  /\ LET r == Head(requests)
     IN  /\ replies' = IF lost THEN replies ELSE Post(replies, Answer(r))
         /\ db' = IF r.op = "put" THEN r.value ELSE db
  /\ requests' = Tail(requests)
  /\ UNCHANGED <<value, op, waiting>>

\* The network loses a request.
Lose ==
  /\ requests # <<>>
  /\ requests' = Tail(requests)
  /\ UNCHANGED <<db, value, op, waiting, replies>>

Next == SendRequest \/ TimesOut \/ Receive \/ Lose \/ \E lost \in BOOLEAN : Serve(lost)

Spec == Init /\ [][Next]_vars

\* The client runs, and a datagram that is sent again and again gets through.
FairSpec ==
  /\ Spec
  /\ WF_vars(SendRequest) /\ WF_vars(TimesOut) /\ SF_vars(Receive) /\ SF_vars(Serve(FALSE))

-----------------------------------------------------------------------------
(* Properties *)

\* "In normal operation, we want ... a monotonically increasing server value":
\* repeated and forgotten puts never take the counter back (client.main).
ServerCountsUp ==
  [][db # Missing => db' \in Int /\ db' >= db]_vars

\* The client gets on as long as datagrams get through at times ("Try until we
\* get a reply").
ClientCounts == <>(value = MaxValue)
=============================================================================
