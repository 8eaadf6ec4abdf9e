SPECIFICATION Spec
CONSTANTS
  Runs = {r1, r2}
  MaxAttempts = 2
  None = None
SYMMETRY Symmetry
INVARIANTS PromotedStaysOut OutputsAreTrue
PROPERTIES KeepsEntries NoLateEntry
CHECK_DEADLOCK FALSE
