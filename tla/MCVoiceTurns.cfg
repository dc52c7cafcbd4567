SPECIFICATION Spec
CONSTANTS
  MaxCalls = 2
  Carrying = {1}
  Requests <- MCRequests
  MaxRows = 2
  MaxFaults = 1
  SoleAgent = TRUE
INVARIANTS
  TypeOK
  TurnsStayInTheirCall
  ClosedRowsCountTheirTurns
  OneRowPerCall
CHECK_DEADLOCK FALSE
