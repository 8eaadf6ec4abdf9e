SPECIFICATION BulkSpec
CONSTANTS
  NumSymbols = 3
  MaxDay = 3
  MaxSymbols = 2
  MaxRows = 4
  PerSymbolLimit = 2
INVARIANTS AnswerHasNoHole OnlyTailIsCut TruncationReported
CHECK_DEADLOCK FALSE
