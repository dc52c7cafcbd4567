SPECIFICATION AnalysisSpec
CONSTANTS
  HoursPerDay = 4
  TicksPerHour = 2
  StartHour = 1
  EndHour = 3
  Offset <- MCOffset
  MaxAttempts = 2
  MinInterest = 60
  CloseOnHard = TRUE
  Cooldown = 3
  HasProducts = TRUE
  Clocks = {8, 12, 15}
  Outcomes <- MCOutcomes
  Promises <- MCPromises
  Scores = {10, 84}
  Previous <- MCPrevious
INVARIANTS
  StopIsRespected
  TimesAreCallable
  RaisedForCause
  UnreadNeverCloses
CHECK_DEADLOCK FALSE
