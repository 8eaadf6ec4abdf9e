CONSTANTS
  Jobs = {j1, j2}
  MaxDate = 2
  Size <- MCSize
  Overrides = {}
  Absent = Absent
SPECIFICATION Spec
INVARIANTS
  PredictorCanScore
\* All runs have ended and no trading day is left.
CHECK_DEADLOCK FALSE
