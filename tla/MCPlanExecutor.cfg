CONSTANT Plans <- MCPlans
SPECIFICATION FairSpec
INVARIANTS
  DepsSucceeded
  ErrorExplained
  ResultsByDepth
  RowsTellOutcome
PROPERTIES
  ClosedRowsStay
  ImplementsDagRun
  GoodPlanSucceeds
\* A run that has ended takes no further step.
CHECK_DEADLOCK FALSE
