SPECIFICATION Spec
SYMMETRY Symmetry
CONSTANTS
  None = None
  i1 = i1
  i2 = i2
  c1 = c1
  Phones = {"p", "q"}
  Values = {"x", "y"}
  Tables <- MCTables
  Imports = {i1, i2}
  Captures = {c1}
  Routes = {1}
  MaxLeads = 2
INVARIANTS
  DuplicatesAccounted
  FactIsField
PROPERTIES
  ForwardOnly
CHECK_DEADLOCK FALSE
