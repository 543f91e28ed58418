---------------------------- MODULE WANController ----------------------------
(***************************************************************************)
(* The controller of the WAN switch (paxos/controller/paxosctrl.py,         *)
(* WANController), which stands between the clients and the Paxos network.  *)
(* It drops everything until a JOIN tells it the port of that network, wraps *)
(* what clients send to hosts by UDP or TCP in CLIENT messages for the       *)
(* leader, and lets everything else pass.  It installs no flows, so that     *)
(* every frame is an upcall.                                                *)
(***************************************************************************)
EXTENDS Integers, Sequences

CONSTANTS
  Client,      \* the WAN clients; each has a port of its own, of its name
  Host,        \* the hosts behind the Paxos network
  Pax,         \* the port of the Paxos network
  All,         \* ETHER_BROADCAST
  None,        \* no port
  MaxSent,     \* Bound: frames the clients send
  MaxReplies   \* Bound: frames the hosts send

ASSUME NameAssumption ==
  /\ Client \cap Host = {} /\ {Pax, All, None} \cap (Client \cup Host) = {}
  /\ Pax # All /\ Pax # None /\ All # None
ASSUME BoundsAssumption == MaxSent \in Nat /\ MaxReplies \in Nat

Port == Client \cup {Pax}

\* data is UDP or TCP, other is ARP, ICMP and the like; id tells frames apart.
Frame == [src: Client \cup Host, dst: Client \cup Host \cup {All},
          kind: {"data", "other", "client"}, id: 1..(MaxSent + MaxReplies)]
JoinMsg == [src |-> Pax, dst |-> All, kind |-> "join", id |-> 0]

VARIABLES
  paxos_port,    \* the port of the Paxos network, when it is known
  wan_macports,  \* the port of an address on the WAN side
  upcalls,       \* frames on their way to the controller, with their port
  gateway,       \* is the PaxosController of the switch next to us up?
  asking,        \* is a request to announce under way to it?
  dropped,       \* History: has a frame been dropped since the gateway came up?
  toPaxos,       \* History: what left by the port of the Paxos network
  inbox,         \* History: what each client got
  sent,          \* History: what the clients sent
  replies        \* the number of frames the hosts sent

vars == <<paxos_port, wan_macports, upcalls, gateway, asking, dropped, toPaxos,
          inbox, sent, replies>>

-----------------------------------------------------------------------------
(* The controller *)

\* A gateway that is up at first has announced itself before we could hear it.
Init ==
  /\ paxos_port = None
  /\ wan_macports = [a \in Client \cup Host |-> None]
  /\ upcalls = <<>>
  /\ gateway \in BOOLEAN
  /\ asking = FALSE /\ dropped = FALSE
  /\ toPaxos = <<>>
  /\ inbox = [c \in Client |-> <<>>]
  /\ sent = <<>> /\ replies = 0

\* forward: the switch puts f out by the ports P, but not where it came from.
Forward(f, in, P) ==
  /\ toPaxos' = IF Pax \in P \ {in} THEN Append(toPaxos, f) ELSE toPaxos
  /\ inbox' = [c \in Client |->
                 IF c \in P \ {in} /\ f.dst \in {c, All} THEN Append(inbox[c], f)
                 ELSE inbox[c]]

Wrapped(f) == [f EXCEPT !.kind = "client"]

\* wrap_and_send_to_paxos: a new frame, that has come in nowhere.
Wrap(f) ==
  /\ toPaxos' = Append(toPaxos, Wrapped(f))
  /\ UNCHANGED inbox

\* Wrong: addresses are learned whatever side they are on.
LearnBothSides(m, f, in) == IF m[f.src] = None THEN [m EXCEPT ![f.src] = in] ELSE m

\* Wrong: addresses are learned only from frames that are not wrapped.
LearnLate(m, f, in) ==
  IF in # Pax /\ m[f.src] = None /\ (f.kind = "other" \/ (f.dst # All /\ m[f.dst] # None))
  THEN [m EXCEPT ![f.src] = in] ELSE m

\* The addresses of the WAN side are learned, each once.
Learn(m, f, in) ==
  IF in # Pax /\ m[f.src] = None THEN [m EXCEPT ![f.src] = in] ELSE m

\* Wrong: the Paxos network is not asked to announce itself.
AskNever(a) == a

\* ask_for_paxos_announce.
Ask(a) == TRUE

ToWanAddr(f) == f.dst # All /\ wan_macports'[f.dst] # None

\* _handle_PacketIn, for a JOIN.
OnJoin(in) ==
  /\ paxos_port' = IF paxos_port = None THEN in ELSE paxos_port
  /\ UNCHANGED <<wan_macports, toPaxos, inbox, asking, dropped>>

\* _handle_PacketIn before the first JOIN.
Drop ==
  /\ asking' = Ask(asking)
  /\ dropped' = gateway
  /\ UNCHANGED <<paxos_port, wan_macports, toPaxos, inbox>>

\* _handle_PacketIn after it.
Dispatch(f, in) ==
  /\ wan_macports' = Learn(wan_macports, f, in)
  /\ CASE ~ToWanAddr(f) /\ f.kind = "data" -> Wrap(f)
       [] ToWanAddr(f) -> Forward(f, in, {wan_macports'[f.dst]})
       [] f.dst = All /\ f.kind = "other" -> Forward(f, in, Port)
       [] OTHER -> Forward(f, in, {paxos_port})
  /\ UNCHANGED <<paxos_port, asking, dropped>>

PacketIn ==
  /\ upcalls # <<>>
  /\ LET u == Head(upcalls)
     IN  CASE u.frame = JoinMsg -> OnJoin(u.in)
           [] u.frame # JoinMsg /\ paxos_port = None -> Drop
           [] OTHER -> Dispatch(u.frame, u.in)
  /\ upcalls' = Tail(upcalls)
  /\ UNCHANGED <<gateway, sent, replies>>

-----------------------------------------------------------------------------
(* The surroundings *)

ClientSends(c, d, kind) ==
  LET f == [src |-> c, dst |-> d, kind |-> kind, id |-> Len(sent) + 1]
  IN  /\ Len(sent) < MaxSent /\ d # c
      /\ sent' = Append(sent, f)
      /\ upcalls' = Append(upcalls, [frame |-> f, in |-> c])
      /\ UNCHANGED <<paxos_port, wan_macports, gateway, asking, dropped, toPaxos, inbox, replies>>

\* A host answers a client it got something from, or calls everybody.
HostSends(h, d, kind) ==
  LET f == [src |-> h, dst |-> d, kind |-> kind, id |-> MaxSent + replies + 1]
  IN  /\ gateway /\ replies < MaxReplies
      /\ d = All \/ \E i \in DOMAIN toPaxos : toPaxos[i].src = d
      /\ replies' = replies + 1
      /\ upcalls' = Append(upcalls, [frame |-> f, in |-> Pax])
      /\ UNCHANGED <<paxos_port, wan_macports, gateway, asking, dropped, toPaxos, inbox, sent>>

\* The gateway comes up and announces itself.
GatewayUp ==
  /\ ~gateway
  /\ gateway' = TRUE
  /\ upcalls' = Append(upcalls, [frame |-> JoinMsg, in |-> Pax])
  /\ UNCHANGED <<paxos_port, wan_macports, asking, dropped, toPaxos, inbox, sent, replies>>

\* The request to announce gets to the gateway, which answers if it is up.
Announce ==
  /\ asking
  /\ asking' = FALSE
  /\ upcalls' = IF gateway THEN Append(upcalls, [frame |-> JoinMsg, in |-> Pax]) ELSE upcalls
  /\ UNCHANGED <<paxos_port, wan_macports, gateway, dropped, toPaxos, inbox, sent, replies>>

Next ==
  \/ PacketIn
  \/ \E c \in Client, d \in Client \cup Host \cup {All}, k \in {"data", "other"} :
       ClientSends(c, d, k)
  \/ \E h \in Host, d \in Client \cup {All}, k \in {"data", "other"} : HostSends(h, d, k)
  \/ GatewayUp
  \/ Announce

Spec == Init /\ [][Next]_vars

\* POX serves its upcalls, and the link to the gateway delivers.
FairSpec == Spec /\ WF_vars(PacketIn) /\ WF_vars(Announce)

-----------------------------------------------------------------------------
(* Properties *)

\* What is to be ordered on its way to the hosts.
ForHost(f) == f.src \in Client /\ f.dst \in Host /\ f.kind \in {"data", "client"}

\* Only a first part of what the clients send to the hosts is lost, the frames from
\* before the first JOIN: all others come out once, in order, and wrapped.  So behind
\* a frame that has come out, those that were sent later come out or wait.
OnlyThePrefixIsLost ==
  \A i \in DOMAIN toPaxos : ForHost(toPaxos[i]) =>
    /\ \E k \in DOMAIN sent : sent[k].kind = "data" /\ toPaxos[i] = Wrapped(sent[k])
    /\ \A j \in DOMAIN toPaxos :
         j < i /\ ForHost(toPaxos[j]) => toPaxos[j].id < toPaxos[i].id
    /\ \A k \in DOMAIN sent : k > toPaxos[i].id /\ ForHost(sent[k]) =>
         \/ \E j \in DOMAIN toPaxos : j > i /\ toPaxos[j] = Wrapped(sent[k])
         \/ \E j \in DOMAIN upcalls : upcalls[j].frame = sent[k]

\* What a host answers a client is never taken for something to be ordered: the
\* address of whoever has got through to the hosts is known.
RepliesGetOut ==
  \A i \in DOMAIN toPaxos : ~(toPaxos[i].src \in Host /\ toPaxos[i].dst \in Client)

\* Who sends to a Paxos network that is up makes it known, also when the WAN
\* switch has missed its JOINs (ask_for_paxos_announce).
PaxosIsFound == dropped ~> paxos_port # None
=============================================================================
