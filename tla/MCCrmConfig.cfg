SPECIFICATION CrmSpec
SYMMETRY Symmetry
CONSTANTS
  Absent = Absent
  q1 = q1
  q2 = q2
  q3 = q3
  r1 = r1
  r2 = r2
  Bases = {1}
  Maps = {1, 2}
  Names = {"airtable_api_key", "AIRTABLE_KEY", "OTHER_KEY"}
  Canonical = "airtable_api_key"
  EnvSet = {"AIRTABLE_KEY"}
  TTL = 2
  Writers = {q1, q2, q3}
  Readers = {r1}
INVARIANTS
  ServedIsRecent
  StatusTrue
PROPERTIES
  NotResurrected
CHECK_DEADLOCK FALSE
