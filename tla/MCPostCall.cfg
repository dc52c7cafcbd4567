SPECIFICATION Spec
CONSTANTS
  MaxCalls = 2
  QuoteReady = TRUE
  Keys = {1}
  RetryOn = {"retry_call", "schedule_call"}
  MaxRetries = 1
  MaxRuns = 2
  MaxFaults = 1
  Reanalysable = {1}
INVARIANTS
  TypeOK
  WholeOrNothing
  WritesAccounted
  CompletedIsDone
PROPERTIES
  StopIsFinal
CHECK_DEADLOCK FALSE
