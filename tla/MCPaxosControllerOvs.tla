------------------------ MODULE MCPaxosControllerOvs ------------------------
(* PaxosControllerOvs on each switch of the line S1 - S2 - S3. *)
EXTENDS PaxosControllerOvs

MCNodeId == [S1 |-> 1, S2 |-> 2, S3 |-> 3]

MCNode == DOMAIN MCNodeId

MCHop == [S1 |-> [S1 |-> "S1", S2 |-> "S2", S3 |-> "S2"],
          S2 |-> [S1 |-> "S1", S2 |-> "S2", S3 |-> "S3"],
          S3 |-> [S1 |-> "S2", S2 |-> "S2", S3 |-> "S3"]]

\* What left the switch in the last step makes no difference to the next.
View == <<me, stage, N, tables, state, submitted, inbox>>
=============================================================================
