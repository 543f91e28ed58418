--------------------------- MODULE MCWANController ---------------------------
(* An instance of WANController with two clients and one host. *)
EXTENDS WANController

\* The clients could change places: c1 sends first.
ClientOrder == sent # <<>> => sent[1].src = "c1"
=============================================================================
