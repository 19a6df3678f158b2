SPECIFICATION FairSpec
CONSTANTS
  MaxAttempts = 3
  BaseDelay = 1
  TotalBudget = 4
  Idle = 2
  NCalls = 2
  MaxData = 2
INVARIANTS OneAttemptShown BudgetRespected AtMostOneLateAttempt
PROPERTIES NoEarlyCut CallReturns
CHECK_DEADLOCK FALSE
