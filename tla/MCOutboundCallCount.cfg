CONSTANTS
  h1 = h1
  h2 = h2
  MaxSessions = 1
  Requests = {h1, h2}
  MaxStops = 0
SPECIFICATION Spec
INVARIANT CountedOnce
CHECK_DEADLOCK FALSE
