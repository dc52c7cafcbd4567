CONSTANTS
  MaxCalls = 2
  Near <- AllNear
  PageSize = 2
  Cap = 1
  MaxAttempts = 2
  Responses <- TwoCalls
SPECIFICATION FairSpec
INVARIANTS
  RoutingErrorIsTrue
  ParkedInTime
  NeverGuessed
PROPERTY NotStarved
CHECK_DEADLOCK FALSE
