SPECIFICATION Spec
CONSTANTS
  Writers = {w1, w2}
  Symbols = {s1, s2, s3}
  MaxDate = 2
  PoolSize = 2
  Nobody = Nobody
INVARIANTS NoMixture FoundDateHasRows
PROPERTIES WritesEnd
CHECK_DEADLOCK FALSE
