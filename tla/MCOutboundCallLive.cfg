CONSTANTS
  h1 = h1
  h2 = h2
  MaxSessions = 1
  Requests = {h1, h2}
  MaxStops = 1
SPECIFICATION FairSpec
PROPERTIES
  Unblocks
  GetsClosed
CHECK_DEADLOCK FALSE
