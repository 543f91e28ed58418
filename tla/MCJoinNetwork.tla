---------------------------- MODULE MCJoinNetwork ----------------------------
(* JoinNetwork on the line S1 - S2 - S3 of PaxosTopology. *)
EXTENDS JoinNetwork

MCHop == [S1 |-> [S1 |-> "S1", S2 |-> "S2", S3 |-> "S2"],
          S2 |-> [S1 |-> "S1", S2 |-> "S2", S3 |-> "S3"],
          S3 |-> [S1 |-> "S2", S2 |-> "S2", S3 |-> "S3"]]

MCNode == DOMAIN MCHop
=============================================================================
