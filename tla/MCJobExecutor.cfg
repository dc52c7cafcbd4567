SPECIFICATION FairSpec
CONSTANTS
  Jobs = {j1, j2}
  Limits = {1, 3}
  MaxStops = 2
  MaxDbErrors = 1
CHECK_DEADLOCK FALSE
INVARIANTS
  SingleTask
  AttemptsBounded
  EffectsBounded
PROPERTIES
  CommittedSettles
  Implements
