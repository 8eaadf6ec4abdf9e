CONSTANTS
  Keys = {k1, k2}
  Rpm = 2
  Minute = 3
  MaxTime = 7
  MaxRestarts = 1
SPECIFICATION LimiterSpec
INVARIANTS
  NeverOverRate
PROPERTIES
  RefusalJustified
