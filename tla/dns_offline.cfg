CONSTANTS
  Clusters = {c1, c2}
  Budgets <- Pairs
SPECIFICATION Spec
PROPERTY OfflineKept
CHECK_DEADLOCK FALSE
