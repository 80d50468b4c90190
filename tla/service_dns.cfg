CONSTANTS
  Clusters = {c1, c2}
  Budgets <- Pairs
SPECIFICATION FairSpec
INVARIANT TypeOK
INVARIANT NothingMissed
PROPERTY Converges
CHECK_DEADLOCK FALSE
