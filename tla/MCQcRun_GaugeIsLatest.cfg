SPECIFICATION Spec
CONSTANTS
  Runs = {r1, r2}
  Symbols = {s1, s2}
  MaxDate = 2
  Means = {1, 2}
  ColdStartMin = 1
  MaxWrites = 2
  None = None
SYMMETRY Symmetry
INVARIANTS GaugeIsLatest
CHECK_DEADLOCK FALSE
