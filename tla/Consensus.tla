------------------------------ MODULE Consensus ------------------------------
(***************************************************************************)
(* What a Paxos round is for: the nodes reach agreement on one of the      *)
(* values, and never go back on it.                                        *)
(***************************************************************************)
CONSTANT Value

VARIABLE chosen  \* the values that were agreed on

Init == chosen = {}

Choose == chosen = {} /\ \E x \in Value : chosen' = {x}

Spec == Init /\ [][Choose]_chosen
=============================================================================
