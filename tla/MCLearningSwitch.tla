--------------------------- MODULE MCLearningSwitch ---------------------------
(* LearningSwitch on two linked switches, with two hosts at S1 and one at S2. *)
EXTENDS LearningSwitch

MCHome == [P1 |-> "S1", P2 |-> "S1", P3 |-> "S2", P4 |-> "S2"]
MCSeat == DOMAIN MCHome
MCFirstSeat == [h1 |-> "P1", h2 |-> "P2", h3 |-> "P3"]
MCHost == DOMAIN MCFirstSeat
MCSwitch == {"S1", "S2"}
MCTrunk == {<<"S1", "S2">>, <<"S2", "S1">>}

\* h1 and h2 could change places: the first frame that one of them is named in names h1.
HostOrder ==
  sent # <<>> => sent[1].src # "h2" /\ (sent[1].src = "h3" => sent[1].dst # "h2")
=============================================================================
