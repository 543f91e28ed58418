SPECIFICATION FairSpec
CONSTANTS
  N = 3
  Value = {x, y}
  NoValue = NoValue
  MaxRound = 2
  Misaddressed = FALSE
  Learner = {3}
INVARIANTS
  TypeOK
  OneValuePerRound
  AcceptAfterMajority
PROPERTIES
  ImplementsConsensus
  LeaderDecides
