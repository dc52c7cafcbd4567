SPECIFICATION FairSpec
CONSTANTS
  None = None
  Fields <- MCFields
  Values <- MCValues
  Standard <- MCStandard
  MaxRequests = 2
  MaxFaults = 2
INVARIANTS
  ColumnsFollow
  SyncedIsTrue
PROPERTIES
  DriftIsReported
