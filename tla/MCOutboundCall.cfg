CONSTANTS
  h1 = h1
  h2 = h2
  MaxSessions = 2
  Requests = {h1}
  MaxStops = 0
SPECIFICATION Spec
PROPERTIES
  LifeOfCall
  ProbePreserves
CHECK_DEADLOCK FALSE
