CONSTANTS
  Plans <- MCPlans
  RulePlans <- MCRulePlans
  MaxTokens = 2
  Counts = {1, 2, 3}
SPECIFICATION FairSpec
INVARIANTS
  SuccessIsLogged
  RowTellsAnswer
  FallbackRuns
  RulePlansRun
PROPERTIES
  ToolsAreOver
  Answered
\* An answered request takes no further step.
CHECK_DEADLOCK FALSE
