SPECIFICATION FairStartSpec
CONSTANTS
  N = 3
  Value = {x}
  NoValue = NoValue
  MaxRound = 1
  Misaddressed = TRUE
  Learner = {3}
  Failures = {{1}, {2}, {1, 2, 3}}
  Pings = 2
  EarlyInterrupt = FALSE
CHECK_DEADLOCK FALSE
INVARIANTS
  StartTypeOK
  StartedMeansLooping
PROPERTIES
  StartReturns
  ValueLearned
  StopJoins
