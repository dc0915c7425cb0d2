SPECIFICATION Spec
CONSTANTS
  MaxTransactions = 3
  MaxFailures = 1
  MaxDeaths = 1
INVARIANT NeverDeleted
CHECK_DEADLOCK FALSE
