SPECIFICATION Spec
CONSTANTS
  Runs = {r1, r2}
  NumSymbols = 2
  MaxDay = 2
  MaxVersion = 2
  BatchSize = 1
  Retries = 1
  Nobody = Nobody
SYMMETRY Symmetry
INVARIANTS FailedUntouched SuccessIsStored NoHole
PROPERTIES RowsForward
CHECK_DEADLOCK FALSE
