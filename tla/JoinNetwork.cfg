SPECIFICATION Spec
CONSTANTS
  Node <- MCNode
  Gateway = "S1"
  Hop <- MCHop
  All = "all"
  Timeout = 4
  Calm = FALSE
  Losses = 0
  Grace = 3
CHECK_DEADLOCK FALSE
INVARIANTS
  TypeOK
  MutualKnowledge
