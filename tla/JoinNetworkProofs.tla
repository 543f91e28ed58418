-------------------------- MODULE JoinNetworkProofs --------------------------
(* Proofs about JoinNetwork, for any tree of switches.                         *)
EXTENDS JoinNetwork, FiniteSetTheorems, SequenceTheorems, TLAPS

-----------------------------------------------------------------------------
(* The inductive invariant *)

\* The frames on link e, when l is on the links.
On(l, e) == {l[e][i] : i \in 1..Len(l[e])}

\* The switches on the way from a to b.
Between(a, b) == {c \in Node \ {a, b} : Hop[c][a] # Hop[c][b]}

\* A frame of switch a may be on link e: a and all switches on the way are up.
CameFrom(e, a) ==
  /\ a # e[2] /\ Hop[e[2]][a] = e[1]
  /\ {a, e[1]} \cup Between(a, e[1]) \subseteq up

FramesOK(l) == \A e \in Link : \A f \in On(l, e) : f.mac # All => CameFrom(e, f.mac)

\* Those that know each other have only switches that are up between them.
KnownOK ==
  \A a \in Node : \A b \in known[a] : {a, b} \cup Between(a, b) \subseteq up

\* Frame f on link e is on its way from a to b.
Tells(f, e, a, b) ==
  f.mac = a /\ f.dst \in {All, b} /\ b # e[1] /\ Hop[e[1]][b] = e[2]

\* b knows a or will hear of it.
Heard(a, b, l) == a \in known[b] \/ \E e \in Link : \E f \in On(l, e) : Tells(f, e, a, b)

\* Whom a knows will hear of it, unless a JOIN was lost.
Answered == lost = 0 => \A a \in Node : \A b \in known[a] : Heard(a, b, link)

\* Nobody's time runs out before POX shuts down.
InTime == ~quit => \A a \in Node : timer[a] >= 1

IInv == TypeOK /\ InTime /\ FramesOK(link) /\ KnownOK /\ Answered

-----------------------------------------------------------------------------
(* Trees *)

LEMMA LinkFacts ==
  ASSUME NEW e \in Link
  PROVE  /\ e[1] \in Node /\ e[2] \in Node /\ e = <<e[1], e[2]>> /\ e[1] # e[2]
         /\ Hop[e[1]][e[2]] = e[2] /\ Hop[e[2]][e[1]] = e[1]
         /\ \A c \in Node \ {e[1], e[2]} :
              Hop[c][e[1]] = Hop[c][e[2]] /\ (Hop[e[1]][c] = e[2] <=> Hop[e[2]][c] # e[1])
<1>1. e[1] \in Node /\ e[2] \in Node /\ e = <<e[1], e[2]>> /\ Linked(e[1], e[2])
  BY DEF Link
<1> QED BY <1>1, TreeAssumption DEF Linked

\* The first link of the way from a to b, and the same link backwards.
LEMMA FirstHop ==
  ASSUME NEW a \in Node, NEW b \in Node, a # b
  PROVE  <<a, Hop[a][b]>> \in Link
BY HopAssumption, TreeAssumption DEF Link

\* A frame that has come to a switch which is up may go on by any other port.
LEMMA GoesOn ==
  ASSUME NEW e \in Link, NEW d \in Link, NEW a \in Node, CameFrom(e, a), e[2] \in up,
         d[1] = e[2], d[2] # e[1]
  PROVE  CameFrom(d, a)
<1> DEFINE x == e[1]
           y == e[2]
           z == d[2]
<1>1. /\ x \in Node /\ y \in Node /\ z \in Node /\ y # z /\ x # y /\ x # z
      /\ Hop[y][a] = x /\ a # y /\ Hop[y][z] = z
      /\ {a, x} \cup Between(a, x) \subseteq up
  BY LinkFacts DEF CameFrom
<1>2. a # z
  BY <1>1
<1>3. Hop[z][a] = y
  BY <1>1, <1>2, LinkFacts
<1>4. ASSUME NEW c \in Between(a, y) PROVE c \in up
  <2>1. c \in Node /\ c # a /\ c # y /\ Hop[c][a] # Hop[c][y]
    BY DEF Between
  <2>2. CASE c = x
    BY <1>1, <2>2
  <2>3. CASE c # x
    <3>1. Hop[c][x] = Hop[c][y]
      BY <2>1, <2>3, LinkFacts
    <3>2. c \in Between(a, x)
      BY <2>1, <2>3, <3>1 DEF Between
    <3> QED BY <1>1, <3>2
  <2> QED BY <2>2, <2>3
<1> QED BY <1>1, <1>2, <1>3, <1>4 DEF CameFrom

\* Whoever hears of a has only switches that are up between itself and a.
LEMMA HasHeard ==
  ASSUME NEW e \in Link, NEW a \in Node, CameFrom(e, a), e[2] \in up
  PROVE  {e[2], a} \cup Between(e[2], a) \subseteq up
<1>1. /\ e[1] \in Node /\ e[2] \in Node /\ {a, e[1]} \cup Between(a, e[1]) \subseteq up
  BY LinkFacts DEF CameFrom
<1>2. ASSUME NEW c \in Between(e[2], a) PROVE c \in up
  <2>1. c \in Node /\ c # a /\ c # e[2] /\ Hop[c][a] # Hop[c][e[2]]
    BY DEF Between
  <2>2. CASE c = e[1]
    BY <1>1, <2>2
  <2>3. CASE c # e[1]
    <3>1. Hop[c][e[1]] = Hop[c][e[2]]
      BY <2>1, <2>3, LinkFacts
    <3>2. c \in Between(a, e[1])
      BY <2>1, <2>3, <3>1 DEF Between
    <3> QED BY <1>1, <3>2
  <2> QED BY <2>2, <2>3
<1> QED BY <1>1, <1>2

\* Where a frame on its way from a to b comes to another switch, that is between them,
\* and the way goes on.
LEMMA OnItsWay ==
  ASSUME NEW e \in Link, NEW a \in Node, NEW b \in Node, CameFrom(e, a),
         b # e[1], Hop[e[1]][b] = e[2], b # e[2]
  PROVE  /\ e[2] \in Between(a, b)
         /\ Hop[e[2]][b] # e[1] /\ <<e[2], Hop[e[2]][b]>> \in Link
<1>1. Hop[e[2]][b] # e[1]
  BY LinkFacts
<1>2. <<e[2], Hop[e[2]][b]>> \in Link
  BY LinkFacts, FirstHop
<1>3. e[2] \in Between(a, b)
  BY <1>1, LinkFacts DEF CameFrom, Between
<1> QED BY <1>1, <1>2, <1>3

-----------------------------------------------------------------------------
(* Sending *)

LinkState == [Link -> Seq(Join)]

\* A frame that is sent is on the links it is sent by; nothing else changes.
LEMMA SendFacts ==
  ASSUME NEW l \in LinkState, NEW a, NEW f \in Join, NEW S
  PROVE  /\ Send(l, a, f, S) \in LinkState
         /\ \A e \in Link :
              On(Send(l, a, f, S), e) =
                On(l, e) \cup (IF e[1] = a /\ e[2] \in S THEN {f} ELSE {})
<1> DEFINE m == Send(l, a, f, S)
<1>1. \A e \in Link : m[e] = IF e[1] = a /\ e[2] \in S THEN Append(l[e], f) ELSE l[e]
  BY DEF Send
<1>2. \A e \in Link : l[e] \in Seq(Join)
  BY DEF LinkState
<1>3. m \in LinkState
  <2>1. \A e \in Link : (IF e[1] = a /\ e[2] \in S THEN Append(l[e], f) ELSE l[e]) \in Seq(Join)
    BY <1>2, AppendProperties
  <2> QED BY <2>1 DEF Send, LinkState
<1>4. ASSUME NEW e \in Link
      PROVE  On(m, e) = On(l, e) \cup (IF e[1] = a /\ e[2] \in S THEN {f} ELSE {})
  <2> HIDE DEF m
  <2>1. CASE e[1] = a /\ e[2] \in S
    <3> DEFINE q == l[e]
               n == Len(q)
    <3>1. m[e] = Append(q, f) /\ q \in Seq(Join)
      BY <1>1, <1>2, <2>1
    <3>2. /\ n \in Nat /\ Len(m[e]) = n + 1 /\ m[e][n + 1] = f
          /\ \A i \in 1..n : m[e][i] = q[i]
      BY <3>1, LenProperties, AppendProperties
    <3>3. On(m, e) = {m[e][i] : i \in 1..n + 1} /\ On(l, e) = {q[i] : i \in 1..n}
      BY <3>2 DEF On
    <3>4. 1..n + 1 = 1..n \cup {n + 1}
      BY <3>2
    <3> HIDE DEF q, n
    <3>5. On(m, e) = On(l, e) \cup {f}
      BY <3>2, <3>3, <3>4
    <3> QED BY <2>1, <3>5
  <2>2. CASE ~(e[1] = a /\ e[2] \in S)
    <3>1. m[e] = l[e]
      BY <1>1, <2>2
    <3> QED BY <2>2, <3>1 DEF On
  <2> QED BY <2>1, <2>2
<1> QED BY <1>3, <1>4

\* A frame that is taken from a link; the others stay.
LEMMA TakeFacts ==
  ASSUME NEW l \in LinkState, NEW e \in Link, l[e] # <<>>
  PROVE  LET rest == [l EXCEPT ![e] = Tail(@)]
         IN  /\ rest \in LinkState /\ Head(l[e]) \in Join
             /\ On(l, e) = On(rest, e) \cup {Head(l[e])}
             /\ \A d \in Link \ {e} : On(rest, d) = On(l, d)
<1> DEFINE rest == [l EXCEPT ![e] = Tail(@)]
           q == l[e]
           n == Len(q)
<1>1. q \in Seq(Join) /\ q # <<>>
  BY DEF LinkState
<1>2. /\ n \in Nat /\ n > 0 /\ Head(q) \in Join /\ Head(q) = q[1]
      /\ Tail(q) \in Seq(Join) /\ Len(Tail(q)) = n - 1
      /\ \A i \in 1..n - 1 : Tail(q)[i] = q[i + 1]
  BY <1>1, EmptySeq, HeadTailProperties
<1>3. rest \in LinkState /\ rest[e] = Tail(q) /\ \A d \in Link \ {e} : rest[d] = l[d]
  BY <1>2 DEF LinkState
<1>4. \A d \in Link \ {e} : On(rest, d) = On(l, d)
  BY <1>3 DEF On
<1>5. On(l, e) = On(rest, e) \cup {Head(q)}
  <2>1. On(l, e) = {q[i] : i \in 1..n} /\ On(rest, e) = {Tail(q)[i] : i \in 1..n - 1}
    <3>1. On(l, e) = {q[i] : i \in 1..n}
      BY DEF On
    <3> HIDE DEF rest, q, n
    <3>2. On(rest, e) = {rest[e][i] : i \in 1..Len(rest[e])}
      BY DEF On
    <3> QED BY <1>2, <1>3, <3>1, <3>2
  <2> HIDE DEF q, n, rest
  <2>2. ASSUME NEW i \in 1..n PROVE q[i] \in On(rest, e) \cup {Head(q)}
    <3>1. CASE i = 1
      BY <1>2, <3>1
    <3>2. CASE i # 1
      <4>1. i - 1 \in 1..n - 1 /\ (i - 1) + 1 = i
        BY <1>2, <3>2
      <4>2. Tail(q)[i - 1] = q[i]
        BY <1>2, <4>1
      <4> QED BY <2>1, <4>1, <4>2
    <3> QED BY <3>1, <3>2
  <2>3. ASSUME NEW i \in 1..n - 1 PROVE Tail(q)[i] \in On(l, e)
    <3>1. i + 1 \in 1..n
      BY <1>2
    <3> QED BY <1>2, <2>1, <3>1
  <2>4. Head(q) \in On(l, e)
    <3>1. 1 \in 1..n
      BY <1>2
    <3> QED BY <1>2, <2>1, <3>1
  <2> QED BY <2>1, <2>2, <2>3, <2>4
<1> QED BY <1>2, <1>3, <1>4, <1>5

\* What x says of itself.
LEMMA HelloOK ==
  ASSUME NEW x \in Node, x \in up, NEW m \in LinkState, FramesOK(m),
         NEW dst \in Node \cup {All}, NEW S
  PROVE  /\ Send(m, x, Hello(x, dst), S) \in LinkState
         /\ FramesOK(Send(m, x, Hello(x, dst), S))
         /\ \A e \in Link : On(m, e) \subseteq On(Send(m, x, Hello(x, dst), S), e)
<1> DEFINE h == Hello(x, dst)
           l == Send(m, x, h, S)
<1>1. h \in Join /\ h.mac = x
  BY DEF Hello, Join
<1>2. /\ l \in LinkState
      /\ \A e \in Link : On(l, e) = On(m, e) \cup (IF e[1] = x /\ e[2] \in S THEN {h} ELSE {})
  BY <1>1, SendFacts
<1> HIDE DEF l, h
<1>3. ASSUME NEW e \in Link, e[1] = x PROVE CameFrom(e, x)
  <2>1. Between(x, x) = {}
    BY DEF Between
  <2> QED BY <1>3, <2>1, LinkFacts DEF CameFrom
<1>4. FramesOK(l)
  BY <1>1, <1>2, <1>3 DEF FramesOK
<1> QED BY <1>2, <1>4 DEF l, h

\* What the learning switch of x passes on.
LEMMA ForwardOK ==
  ASSUME NEW x \in Node, x \in up, NEW y, NEW f \in Join, NEW m \in LinkState, FramesOK(m),
         f.mac # All => <<y, x>> \in Link /\ CameFrom(<<y, x>>, f.mac),
         link' = Forward(m, x, y, f), UNCHANGED up
  PROVE  /\ link' \in LinkState
         /\ FramesOK(link)'
         /\ \A e \in Link : On(m, e) \subseteq On(link', e)
         /\ \A a, b \in Node : Tells(f, <<y, x>>, a, b) /\ b # x =>
              \E e \in Link : \E g \in On(link', e) : Tells(g, e, a, b)
<1> DEFINE S == (IF f.dst \in {All, x} THEN Node ELSE {Hop[x][f.dst]}) \ {y}
<1>1. /\ link' \in LinkState
      /\ \A e \in Link :
           On(link', e) = On(m, e) \cup (IF e[1] = x /\ e[2] \in S THEN {f} ELSE {})
  <2>1. link' = Send(m, x, f, S)
    BY DEF Forward
  <2> HIDE DEF S
  <2> QED BY <2>1, SendFacts
<1>2. ASSUME NEW e \in Link, e[1] = x, e[2] \in S, f.mac # All PROVE CameFrom(e, f.mac)
  <2> DEFINE w == <<y, x>>
  <2>1. w \in Link /\ CameFrom(w, f.mac) /\ w[2] \in up /\ e[1] = w[2] /\ e[2] # w[1]
    BY <1>2
  <2>2. f.mac \in Node
    BY <1>2 DEF Join
  <2> HIDE DEF w
  <2> QED BY <2>1, <2>2, GoesOn
<1>3. FramesOK(link')
  <2> HIDE DEF S
  <2> QED BY <1>1, <1>2 DEF FramesOK
<1>4. FramesOK(link)'
  BY <1>3 DEF FramesOK, CameFrom
<1>5. ASSUME NEW a \in Node, NEW b \in Node, Tells(f, <<y, x>>, a, b), b # x
      PROVE  \E e \in Link : \E g \in On(link', e) : Tells(g, e, a, b)
  <2>1. f.mac = a /\ f.dst \in {All, b} /\ b # y /\ Hop[y][b] = x /\ a # All
    BY <1>5, NodeAssumption DEF Tells
  <2>2. <<y, x>> \in Link /\ CameFrom(<<y, x>>, a) /\ <<y, x>>[1] = y /\ <<y, x>>[2] = x
    BY <2>1
  <2>3. Hop[x][b] # y /\ <<x, Hop[x][b]>> \in Link
    BY <1>5, <2>1, <2>2, OnItsWay
  <2>4. Hop[x][b] \in S
    <3>1. Hop[x][b] \in Node
      BY HopAssumption
    <3> QED BY <1>5, <2>1, <2>3, <3>1
  <2> DEFINE d == <<x, Hop[x][b]>>
  <2>5. d[1] = x /\ d[2] = Hop[x][b]
    OBVIOUS
  <2>6. f \in On(link', d)
    BY <1>1, <2>3, <2>4, <2>5
  <2>7. Tells(f, d, a, b)
    BY <1>5, <2>1, <2>5 DEF Tells
  <2> QED BY <2>3, <2>6, <2>7
<1> QED BY <1>1, <1>4, <1>5

\* on_join: who is told of somebody tells it of itself.
LEMMA OnJoinOK ==
  ASSUME known \in [Node -> SUBSET Node], KnownOK, NEW x \in Node, x \in up, NEW y,
         NEW f \in Join, NEW rest \in LinkState, FramesOK(rest),
         f.mac # All => <<y, x>> \in Link /\ CameFrom(<<y, x>>, f.mac),
         OnJoin(x, y, f, rest), UNCHANGED up
  PROVE  /\ known' \in [Node -> SUBSET Node] /\ link' \in LinkState
         /\ FramesOK(link)' /\ KnownOK'
         /\ \A a \in Node : \A b \in known'[a] :
              \/ Heard(a, b, link)'
              \/ b \in known[a] /\ ~Heard(a, b, rest) /\ ~Tells(f, <<y, x>>, a, b)
<1>1. CASE f.mac = All
  <2> DEFINE m == Send(rest, x, Hello(x, All), Node)
  <2>1. link' = Forward(m, x, y, f) /\ known' = known
    BY <1>1 DEF OnJoin
  <2>2. m \in LinkState /\ FramesOK(m) /\ \A e \in Link : On(rest, e) \subseteq On(m, e)
    BY HelloOK
  <2> HIDE DEF m
  <2>3. /\ link' \in LinkState /\ FramesOK(link)'
        /\ \A e \in Link : On(m, e) \subseteq On(link', e)
    BY <1>1, <2>1, <2>2, ForwardOK
  <2>4. ASSUME NEW a \in Node, NEW b \in known[a],
               Heard(a, b, rest) \/ Tells(f, <<y, x>>, a, b)
        PROVE  Heard(a, b, link)'
    <3>1. ~Tells(f, <<y, x>>, a, b)
      BY <1>1, NodeAssumption DEF Tells
    <3> QED BY <2>1, <2>2, <2>3, <2>4, <3>1 DEF Heard
  <2>5. KnownOK'
    BY <2>1 DEF KnownOK
  <2> QED BY <2>1, <2>3, <2>4, <2>5
<1>2. CASE f.mac \notin known[x] \cup {All}
  <2> DEFINE c == f.mac
             m == Send(rest, x, Hello(x, c), {y})
  <2>1. link' = Forward(m, x, y, f) /\ known' = [known EXCEPT ![x] = @ \cup {c}]
    BY <1>2 DEF OnJoin
  <2>2. /\ c \in Node /\ <<y, x>> \in Link /\ CameFrom(<<y, x>>, c)
        /\ <<y, x>>[1] = y /\ <<y, x>>[2] = x
    BY <1>2 DEF Join
  <2>3. m \in LinkState /\ FramesOK(m) /\ \A e \in Link : On(rest, e) \subseteq On(m, e)
    BY <2>2, HelloOK
  <2>4. /\ <<x, y>> \in Link /\ Hello(x, c) \in On(m, <<x, y>>)
        /\ Tells(Hello(x, c), <<x, y>>, x, c)
    <3>1. <<x, y>> \in Link /\ c # x /\ Hop[x][c] = y
      <4>1. c # x /\ Hop[x][c] = y
        BY <2>2 DEF CameFrom
      <4> QED BY <2>2, <4>1, FirstHop
    <3>2. Hello(x, c) \in Join
      BY <2>2 DEF Hello, Join
    <3>3. On(m, <<x, y>>) = On(rest, <<x, y>>) \cup {Hello(x, c)}
      BY <3>1, <3>2, SendFacts
    <3> QED BY <3>1, <3>3 DEF Tells, Hello
  <2> HIDE DEF m
  <2>5. /\ link' \in LinkState /\ FramesOK(link)'
        /\ \A e \in Link : On(m, e) \subseteq On(link', e)
        /\ \A a, b \in Node : Tells(f, <<y, x>>, a, b) /\ b # x =>
             \E e \in Link : \E g \in On(link', e) : Tells(g, e, a, b)
    BY <2>1, <2>2, <2>3, ForwardOK
  <2>6. /\ known' \in [Node -> SUBSET Node] /\ known'[x] = known[x] \cup {c}
        /\ \A a \in Node \ {x} : known'[a] = known[a]
    BY <2>1, <2>2
  <2>7. KnownOK'
    <3>1. {x, c} \cup Between(x, c) \subseteq up
      BY <2>2, HasHeard
    <3> QED BY <2>6, <3>1 DEF KnownOK
  <2>8. ASSUME NEW a \in Node, NEW b \in known[a],
               Heard(a, b, rest) \/ Tells(f, <<y, x>>, a, b)
        PROVE  Heard(a, b, link)'
    <3>0. b \in Node
      OBVIOUS
    <3>1. CASE Heard(a, b, rest)
      BY <2>3, <2>5, <2>6, <3>0, <3>1 DEF Heard
    <3>2. CASE Tells(f, <<y, x>>, a, b)
      <4>1. CASE b = x
        <5>1. a = c
          BY <3>2 DEF Tells
        <5> QED BY <2>6, <4>1, <5>1 DEF Heard
      <4>2. CASE b # x
        BY <2>5, <3>0, <3>2, <4>2 DEF Heard
      <4> QED BY <4>1, <4>2
    <3> QED BY <2>8, <3>1, <3>2
  <2>9. Heard(x, c, link)'
    <3>1. Hello(x, c) \in On(link', <<x, y>>)
      BY <2>4, <2>5
    <3> QED BY <2>4, <3>1 DEF Heard
  <2>10. ASSUME NEW a \in Node, NEW b \in known'[a]
         PROVE  b \in known[a] \/ (a = x /\ b = c)
    BY <2>6
  <2> QED BY <2>5, <2>6, <2>7, <2>8, <2>9, <2>10
<1>3. CASE f.mac \in known[x]
  <2>1. link' = Forward(rest, x, y, f) /\ known' = known
    BY <1>3, NodeAssumption DEF OnJoin
  <2>2. /\ link' \in LinkState /\ FramesOK(link)'
        /\ \A e \in Link : On(rest, e) \subseteq On(link', e)
        /\ \A a, b \in Node : Tells(f, <<y, x>>, a, b) /\ b # x =>
             \E e \in Link : \E g \in On(link', e) : Tells(g, e, a, b)
    BY <2>1, ForwardOK
  <2>3. ASSUME NEW a \in Node, NEW b \in known[a],
               Heard(a, b, rest) \/ Tells(f, <<y, x>>, a, b)
        PROVE  Heard(a, b, link)'
    <3>1. CASE Heard(a, b, rest)
      BY <2>1, <2>2, <3>1 DEF Heard
    <3>2. CASE Tells(f, <<y, x>>, a, b)
      <4>1. CASE b = x
        <5>1. a \in known[b]
          BY <1>3, <3>2, <4>1 DEF Tells
        <5> QED BY <2>1, <5>1 DEF Heard
      <4>2. CASE b # x
        BY <2>2, <3>2, <4>2 DEF Heard
      <4> QED BY <4>1, <4>2
    <3> QED BY <2>3, <3>1, <3>2
  <2>4. KnownOK'
    BY <2>1 DEF KnownOK
  <2> QED BY <2>1, <2>2, <2>3, <2>4
<1> QED BY <1>1, <1>2, <1>3

-----------------------------------------------------------------------------
(* Steps *)

LEMMA Sizes == Needed \in Nat /\ Timeout \in Nat /\ Timeout > 1 /\ Losses \in Nat
BY NodeAssumption, TimeoutAssumption, BoundsAssumption, FS_CardinalityType DEF Needed

\* A step that changes neither acquaintances nor links.
LEMMA NothingSaid ==
  ASSUME FramesOK(link), KnownOK, Answered, UNCHANGED <<known, lost, link>>, up \subseteq up'
  PROVE  FramesOK(link)' /\ KnownOK' /\ Answered'
<1>1. FramesOK(link)'
  BY DEF FramesOK, CameFrom
<1>2. KnownOK'
  BY DEF KnownOK
<1>3. Answered'
  BY DEF Answered, Heard
<1> QED BY <1>1, <1>2, <1>3

\* A step by which frames are only added.
LEMMA MoreSaid ==
  ASSUME Answered, UNCHANGED <<known, lost>>,
         \A e \in Link : On(link, e) \subseteq On(link', e)
  PROVE  Answered'
BY DEF Answered, Heard

LEMMA AnnounceIInv ==
  ASSUME IInv, NEW a \in Node, Announce(a)
  PROVE  IInv'
<1> DEFINE h == Hello(a, All)
<1>1. /\ a \in up /\ a \notin known[a] /\ known' = [known EXCEPT ![a] = @ \cup {a}]
      /\ link' = Send(link, a, Hello(a, All), Node)
      /\ UNCHANGED <<up, joined, timer, due, asked, quit, lost>>
  BY DEF Announce
<1>2. TypeOK /\ FramesOK(link) /\ KnownOK /\ Answered /\ InTime /\ link \in LinkState
  BY DEF IInv, TypeOK, LinkState
<1>3. /\ link' \in LinkState /\ FramesOK(link')
      /\ \A e \in Link : On(link, e) \subseteq On(link', e)
  BY <1>1, <1>2, HelloOK
<1>4. /\ known' \in [Node -> SUBSET Node] /\ known'[a] = known[a] \cup {a}
      /\ \A b \in Node \ {a} : known'[b] = known[b]
  BY <1>1, <1>2 DEF TypeOK
<1>5. TypeOK' /\ InTime'
  BY <1>1, <1>2, <1>3, <1>4 DEF TypeOK, LinkState, InTime
<1>6. FramesOK(link)'
  BY <1>1, <1>3 DEF FramesOK, CameFrom
<1>7. KnownOK'
  <2>1. Between(a, a) = {}
    BY DEF Between
  <2> QED BY <1>1, <1>2, <1>4, <2>1 DEF KnownOK
<1>8. Answered'
  <2>1. ASSUME lost' = 0, NEW c \in Node, NEW b \in known'[c] PROVE Heard(c, b, link)'
    <3>1. CASE b \in known[c]
      <4>1. Heard(c, b, link) /\ b \in Node
        BY <1>1, <1>2, <2>1, <3>1 DEF Answered, TypeOK
      <4> QED BY <1>3, <1>4, <4>1 DEF Heard
    <3>2. CASE b \notin known[c]
      <4>1. b = a /\ c = a
        BY <1>4, <3>2
      <4> QED BY <1>4, <4>1 DEF Heard
    <3> QED BY <3>1, <3>2
  <2> QED BY <2>1 DEF Answered
<1> QED BY <1>5, <1>6, <1>7, <1>8 DEF IInv

LEMMA DeliverIInv ==
  ASSUME IInv, NEW e \in Link, Deliver(e)
  PROVE  IInv'
<1> DEFINE x == e[2]
           y == e[1]
           f == Head(link[e])
           rest == [link EXCEPT ![e] = Tail(@)]
<1>1. /\ link[e] # <<>>
      /\ IF x \in up THEN OnJoin(x, y, f, rest) ELSE link' = rest /\ UNCHANGED known
      /\ UNCHANGED <<up, joined, timer, due, asked, quit, lost>>
  BY DEF Deliver
<1>2. TypeOK /\ FramesOK(link) /\ KnownOK /\ Answered /\ InTime /\ link \in LinkState
  BY DEF IInv, TypeOK, LinkState
<1>3. x \in Node /\ y \in Node /\ e = <<y, x>>
  BY LinkFacts
<1>4. /\ rest \in LinkState /\ f \in Join /\ On(link, e) = On(rest, e) \cup {f}
      /\ \A d \in Link \ {e} : On(rest, d) = On(link, d)
  BY <1>1, <1>2, TakeFacts
<1> HIDE DEF f, rest
<1>5. FramesOK(rest) /\ (f.mac # All => CameFrom(e, f.mac))
  <2>1. \A d \in Link : On(rest, d) \subseteq On(link, d)
    BY <1>4
  <2> QED BY <1>2, <1>4, <2>1 DEF FramesOK
<1>6. ASSUME NEW a \in Node, NEW b \in known[a], lost = 0
      PROVE  Heard(a, b, rest) \/ Tells(f, e, a, b)
  <2>1. Heard(a, b, link)
    BY <1>2, <1>6 DEF Answered
  <2>2. CASE a \in known[b]
    BY <2>2 DEF Heard
  <2>3. CASE a \notin known[b]
    <3>1. PICK d \in Link : \E g \in On(link, d) : Tells(g, d, a, b)
      BY <2>1, <2>3 DEF Heard
    <3>2. PICK g \in On(link, d) : Tells(g, d, a, b)
      BY <3>1
    <3>3. CASE g \in On(rest, d)
      BY <3>2, <3>3 DEF Heard
    <3>4. CASE g \notin On(rest, d)
      <4>1. d = e /\ g = f
        BY <1>4, <3>4
      <4> QED BY <3>2, <4>1
    <3> QED BY <3>3, <3>4
  <2> QED BY <2>2, <2>3
<1>7. CASE x \in up
  <2>1. /\ known' \in [Node -> SUBSET Node] /\ link' \in LinkState
        /\ FramesOK(link)' /\ KnownOK'
        /\ \A a \in Node : \A b \in known'[a] :
             \/ Heard(a, b, link)'
             \/ b \in known[a] /\ ~Heard(a, b, rest) /\ ~Tells(f, <<y, x>>, a, b)
    <3>1. known \in [Node -> SUBSET Node] /\ OnJoin(x, y, f, rest) /\ UNCHANGED up
      BY <1>1, <1>2, <1>7 DEF TypeOK
    <3>2. f.mac # All => <<y, x>> \in Link /\ CameFrom(<<y, x>>, f.mac)
      BY <1>3, <1>5
    <3> HIDE DEF x, y
    <3> QED BY <1>2, <1>3, <1>4, <1>5, <1>7, <3>1, <3>2, OnJoinOK
  <2>2. Answered'
    <3>1. ASSUME lost' = 0, NEW a \in Node, NEW b \in known'[a] PROVE Heard(a, b, link)'
      BY <1>1, <1>3, <1>6, <2>1, <3>1
    <3> QED BY <3>1 DEF Answered
  <2>3. TypeOK' /\ InTime'
    BY <1>1, <1>2, <2>1 DEF TypeOK, LinkState, InTime
  <2> QED BY <2>1, <2>2, <2>3 DEF IInv
<1>8. CASE x \notin up
  <2>1. link' = rest /\ known' = known
    BY <1>1, <1>8
  <2>2. TypeOK' /\ InTime'
    BY <1>1, <1>2, <1>4, <2>1 DEF TypeOK, LinkState, InTime
  <2>3. FramesOK(link)' /\ KnownOK'
    BY <1>1, <1>2, <1>5, <2>1 DEF FramesOK, CameFrom, KnownOK
  <2>4. Answered'
    <3>1. ASSUME lost' = 0, NEW a \in Node, NEW b \in known[a] PROVE Heard(a, b, link)'
      <4>1. b \in Node /\ {a, b} \cup Between(a, b) \subseteq up
        BY <1>2 DEF TypeOK, KnownOK
      <4>2. ~Tells(f, e, a, b)
        <5>1. SUFFICES ASSUME Tells(f, e, a, b) PROVE FALSE
          OBVIOUS
        <5>2. a # All /\ CameFrom(e, a) /\ b # y /\ Hop[y][b] = x
          BY <1>5, <5>1, NodeAssumption DEF Tells
        <5>3. b # x
          BY <1>8, <4>1
        <5>4. x \in Between(a, b)
          BY <4>1, <5>2, <5>3, OnItsWay
        <5> QED BY <1>8, <4>1, <5>4
      <4>3. Heard(a, b, rest)
        BY <1>1, <1>6, <3>1, <4>2
      <4> QED BY <2>1, <4>3 DEF Heard
    <3> QED BY <2>1, <3>1 DEF Answered
  <2> QED BY <2>2, <2>3, <2>4 DEF IInv
<1> QED BY <1>7, <1>8

LEMMA LoseIInv ==
  ASSUME IInv, NEW e \in Link, Lose(e)
  PROVE  IInv'
<1> DEFINE rest == [link EXCEPT ![e] = Tail(@)]
<1>1. /\ link[e] # <<>> /\ lost < Losses /\ lost' = lost + 1 /\ link' = rest
      /\ UNCHANGED <<up, known, joined, timer, due, asked, quit>>
  BY DEF Lose
<1>2. TypeOK /\ FramesOK(link) /\ KnownOK /\ InTime /\ link \in LinkState
  BY DEF IInv, TypeOK, LinkState
<1>3. /\ rest \in LinkState /\ \A d \in Link : On(rest, d) \subseteq On(link, d)
  BY <1>1, <1>2, TakeFacts
<1> HIDE DEF rest
<1>4. lost' \in 0..Losses /\ lost' # 0
  BY <1>1, <1>2, Sizes DEF TypeOK
<1>5. TypeOK' /\ InTime'
  BY <1>1, <1>2, <1>3, <1>4 DEF TypeOK, LinkState, InTime
<1>6. FramesOK(link)' /\ KnownOK'
  BY <1>1, <1>2, <1>3 DEF FramesOK, CameFrom, KnownOK
<1> QED BY <1>4, <1>5, <1>6 DEF IInv, Answered

LEMMA WanAsksIInv ==
  ASSUME IInv, WanAsks
  PROVE  IInv'
<1>1. /\ ~asked /\ Gateway \in up /\ asked' = TRUE /\ OnJoin(Gateway, All, Ask, link)
      /\ UNCHANGED <<up, joined, timer, due, quit, lost>>
  BY DEF WanAsks
<1>2. TypeOK /\ FramesOK(link) /\ KnownOK /\ Answered /\ InTime /\ link \in LinkState
  BY DEF IInv, TypeOK, LinkState
<1>3. Ask \in Join /\ Ask.mac = All /\ Gateway \in Node
  BY NodeAssumption DEF Ask, Join
<1>4. /\ known' \in [Node -> SUBSET Node] /\ link' \in LinkState
      /\ FramesOK(link)' /\ KnownOK'
      /\ \A a \in Node : \A b \in known'[a] :
           \/ Heard(a, b, link)'
           \/ b \in known[a] /\ ~Heard(a, b, link) /\ ~Tells(Ask, <<All, Gateway>>, a, b)
  <2>1. known \in [Node -> SUBSET Node]
    BY <1>2 DEF TypeOK
  <2> QED BY <1>1, <1>2, <1>3, <2>1, OnJoinOK
<1>5. Answered'
  BY <1>1, <1>2, <1>4 DEF Answered
<1>6. TypeOK' /\ InTime'
  BY <1>1, <1>2, <1>4 DEF TypeOK, LinkState, InTime
<1> QED BY <1>4, <1>5, <1>6 DEF IInv

LEMMA TurnIInv ==
  ASSUME IInv, NEW a \in Node, Turn(a)
  PROVE  IInv'
<1>1. TypeOK /\ FramesOK(link) /\ KnownOK /\ Answered /\ InTime /\ link \in LinkState
  BY DEF IInv, TypeOK, LinkState
<1>2. /\ ~quit /\ due' = due \ {a} /\ UNCHANGED <<up, known, joined, asked, lost>>
  BY DEF Turn
<1>3. CASE joined[a]
  <2>1. UNCHANGED <<timer, quit, link>>
    BY <1>3 DEF Turn
  <2> QED BY <1>1, <1>2, <2>1, NothingSaid DEF IInv, TypeOK, InTime
<1>4. CASE ~joined[a]
  <2>1. timer' = [timer EXCEPT ![a] = @ - 1] /\ quit' = GivesUp(a) /\ link' = AskAgain(a)
    BY <1>4 DEF Turn
  <2>2. \A b \in Node : timer[b] >= 1 /\ timer[b] \in 0..Timeout
    BY <1>1, <1>2 DEF InTime, TypeOK
  <2>3. timer' \in [Node -> 0..Timeout] /\ quit' \in BOOLEAN
    BY <1>1, <2>1, <2>2, Sizes DEF TypeOK, GivesUp
  <2>4. InTime'
    <3>1. ASSUME ~quit', NEW b \in Node PROVE timer'[b] >= 1
      <4>1. ~(timer[a] - 1 <= 0)
        BY <2>1, <3>1 DEF GivesUp
      <4>2. timer'[b] = IF b = a THEN timer[a] - 1 ELSE timer[b]
        BY <1>1, <2>1 DEF TypeOK
      <4> QED BY <2>2, <4>1, <4>2, Sizes
    <3> QED BY <3>1 DEF InTime
  <2>5. /\ link' \in LinkState
        /\ \A e \in Link : On(link, e) \subseteq On(link', e)
        /\ \A e \in Link : \A f \in On(link', e) : f \in On(link, e) \/ f.mac = All
    <3>1. Ask \in Join /\ Ask.mac = All
      BY DEF Ask, Join
    <3>2. CASE timer[a] % 3 = 0
      <4>1. link' = Send(link, a, Ask, Node)
        BY <2>1, <3>2 DEF AskAgain
      <4> QED BY <1>1, <3>1, <4>1, SendFacts
    <3>3. CASE timer[a] % 3 # 0
      BY <1>1, <2>1, <3>3 DEF AskAgain
    <3> QED BY <3>2, <3>3
  <2>6. FramesOK(link)' /\ KnownOK' /\ Answered'
    <3>1. FramesOK(link)'
      BY <1>1, <1>2, <2>5 DEF FramesOK, CameFrom
    <3>2. KnownOK'
      BY <1>1, <1>2 DEF KnownOK
    <3> QED BY <1>1, <1>2, <2>5, <3>1, <3>2, MoreSaid
  <2>7. TypeOK'
    BY <1>1, <1>2, <2>3, <2>5 DEF TypeOK, LinkState
  <2> QED BY <2>4, <2>6, <2>7 DEF IInv
<1> QED BY <1>3, <1>4

LEMMA NextIInv == IInv /\ [Next]_vars => IInv'
<1>1. SUFFICES ASSUME IInv, [Next]_vars PROVE IInv'
  OBVIOUS
<1>2. TypeOK /\ FramesOK(link) /\ KnownOK /\ Answered /\ InTime
  BY <1>1 DEF IInv
<1>3. ASSUME NEW a \in Node, Start(a) PROVE IInv'
  <2>1. /\ up' = up \cup {a} /\ timer' = [timer EXCEPT ![a] = Timeout - 1]
        /\ UNCHANGED <<known, joined, due, asked, quit, lost, link>>
    BY <1>3 DEF Start
  <2>2. TypeOK' /\ InTime'
    BY <1>2, <2>1, Sizes DEF TypeOK, InTime
  <2> QED BY <1>2, <2>1, <2>2, NothingSaid DEF IInv
<1>4. ASSUME NEW a \in Node, Poll(a) PROVE IInv'
  <2>1. /\ joined' = [joined EXCEPT ![a] = TRUE]
        /\ UNCHANGED <<up, known, timer, due, asked, quit, lost, link>>
    BY <1>4 DEF Poll
  <2>2. TypeOK' /\ InTime'
    BY <1>2, <2>1 DEF TypeOK, InTime
  <2> QED BY <1>2, <2>1, <2>2, NothingSaid DEF IInv
<1>5. CASE Second
  <2>1. /\ due' = {a \in Node : Waiting(a)}
        /\ UNCHANGED <<up, known, joined, timer, asked, quit, lost, link>>
    BY <1>5 DEF Second
  <2>2. TypeOK' /\ InTime'
    BY <1>2, <2>1 DEF TypeOK, InTime, Waiting
  <2> QED BY <1>2, <2>1, <2>2, NothingSaid DEF IInv
<1>6. CASE UNCHANGED vars
  <2>1. UNCHANGED <<up, known, joined, timer, due, asked, quit, lost, link>>
    BY <1>6 DEF vars
  <2>2. TypeOK' /\ InTime'
    BY <1>2, <2>1 DEF TypeOK, InTime
  <2> QED BY <1>2, <2>1, <2>2, NothingSaid DEF IInv
<1> QED BY <1>1, <1>3, <1>4, <1>5, <1>6, AnnounceIInv, TurnIInv, DeliverIInv, LoseIInv,
           WanAsksIInv DEF Next

LEMMA InitIInv == Init => IInv
<1>1. SUFFICES ASSUME Init PROVE IInv
  OBVIOUS
<1>2. \A e \in Link : link[e] = <<>> /\ On(link, e) = {}
  <2>1. \A e \in Link : link[e] = <<>>
    BY <1>1 DEF Init
  <2>2. 1..0 = {} /\ Len(<<>>) = 0
    BY EmptySeq
  <2> QED BY <2>1, <2>2 DEF On
<1>3. TypeOK /\ InTime
  <2>1. link \in [Link -> Seq(Join)]
    <3>1. \A S : <<>> \in Seq(S)
      BY EmptySeq
    <3> QED BY <1>1, <3>1 DEF Init
  <2>2. timer \in [Node -> 0..Timeout] /\ lost \in 0..Losses
    BY <1>1, Sizes DEF Init
  <2>3. up \subseteq Node /\ due \subseteq up
    BY <1>1 DEF Init
  <2>4. known \in [Node -> SUBSET Node] /\ joined \in [Node -> BOOLEAN]
    BY <1>1 DEF Init
  <2>5. asked \in BOOLEAN /\ quit \in BOOLEAN
    BY <1>1 DEF Init
  <2>6. TypeOK
    BY <2>1, <2>2, <2>3, <2>4, <2>5 DEF TypeOK
  <2>7. InTime
    BY <1>1, Sizes DEF Init, InTime
  <2> QED BY <2>6, <2>7
<1>4. FramesOK(link)
  BY <1>2 DEF FramesOK
<1>5. KnownOK /\ Answered
  BY <1>1 DEF Init, KnownOK, Answered
<1> QED BY <1>3, <1>4, <1>5 DEF IInv

-----------------------------------------------------------------------------

\* The invariant holds on any tree, whatever is late or lost.
THEOREM Invariant == Spec => []IInv
<1> QED BY InitIInv, NextIInv, PTL DEF Spec

\* Every variable holds a value of the kind the code gives it.
THEOREM TypeCorrect == Spec => []TypeOK
<1>1. IInv => TypeOK
  BY DEF IInv
<1> QED BY <1>1, Invariant, PTL

\* When no JOIN is under way or was lost, a node knows those who know it (on_join): the
\* leader never sends ACCEPTs to a node that cannot send LEARNs back.
THEOREM Mutual == Spec => []MutualKnowledge
<1>1. IInv => MutualKnowledge
  <2>1. SUFFICES ASSUME IInv, Quiet, lost = 0, NEW a \in up, NEW b \in up, b \in known[a]
                 PROVE  a \in known[b]
    BY DEF MutualKnowledge
  <2>2. a \in Node /\ Heard(a, b, link)
    BY <2>1 DEF IInv, TypeOK, Answered
  <2>3. \A e \in Link : On(link, e) = {}
    <3>1. 1..0 = {} /\ Len(<<>>) = 0
      BY EmptySeq
    <3> QED BY <2>1, <3>1 DEF Quiet, On
  <2> QED BY <2>2, <2>3 DEF Heard
<1> QED BY <1>1, Invariant, PTL
=============================================================================
