----------------------------- MODULE PacketOrder -----------------------------
(***************************************************************************)
(* What the Paxos switches promise to the hosts behind them (the thesis,   *)
(* "each host will receive packets in the same order"): there is one log   *)
(* of the packets of all clients, and every switch sends its hosts the     *)
(* entries of this log, in order, without gaps or repetitions.             *)
(*                                                                         *)
(* Blank is what a switch may send in place of an entry: {} in the promise *)
(* as the thesis states it.                                                *)
(***************************************************************************)
EXTENDS Naturals, Sequences

CONSTANTS Node, Packet, Blank

VARIABLES
  log,  \* the packets, in the order of their sequence numbers
  out   \* what each switch has sent to its hosts

Init == log = <<>> /\ out = [a \in Node |-> <<>>]

\* A packet of a client gets the next place in the log.
Submit == \E v \in Packet : log' = Append(log, v)

\* Switch a sends some of the entries it has not sent.
Forward(a) ==
  \E k \in 0..Len(log') : \E new \in [1..k -> Packet \cup Blank] :
    /\ Len(out[a]) + k <= Len(log')
    /\ \A i \in 1..k : new[i] \in {log'[Len(out[a]) + i]} \cup Blank
    /\ out' = [out EXCEPT ![a] = @ \o new]

\* The switch that numbers a packet may in the same step send earlier ones.
Next == (Submit \/ UNCHANGED log) /\ \E a \in Node : Forward(a)

Spec == Init /\ [][Next]_<<log, out>>
=============================================================================
