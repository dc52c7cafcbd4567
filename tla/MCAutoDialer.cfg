CONSTANTS
  r1 = r1
  r2 = r2
  l1 = l1
  Calls = {r1, r2}
  Leads = {l1}
  LeadOf <- TwoRows
  Limit = 2
  MaxTechRetries = 2
  MaxDials = 2
  OpRequests <- CancelFirst
  MaxOps = 1
  MaxStops = 1
SPECIFICATION FairSpec
INVARIANTS
  
  OneLiveCall
  OneParkedRetry
PROPERTIES
  StaysTerminal
  NotStranded
CHECK_DEADLOCK FALSE
