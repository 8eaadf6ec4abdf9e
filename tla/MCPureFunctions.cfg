SPECIFICATION MCSpec
CONSTANTS
  FirstYear = 2023
  LastYear = 2026
  DailyLookback = 7
  Lookback = 100
  MaxDays = 800
  MaxPrice = 3
  MaxCloses = 6
  Period = 3
  MaxTrading = 300
  MaxDay = 4
  MaxLimit = 3
  Unread = Unread
  NoValue = NoValue
INVARIANTS QuarterIsWhole BackfillHoldsTradingDays SegmentsTile IndicatorsMeasure ToolsAgreeOnDay
CHECK_DEADLOCK FALSE
