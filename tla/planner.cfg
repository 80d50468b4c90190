CONSTANTS
  c1 = c1
  c2 = c2
  c3 = c3
  Clusters = {c1, c2, c3}
  Requests <- AllRequests
  MaxTrials = 25
SPECIFICATION FairSpec
INVARIANT TypeOK
INVARIANT WithinLimits
INVARIANT Conserved
INVARIANT NoneLeftOver
INVARIANT MinimumsInOrder
INVARIANT RunningStay
INVARIANT TrialsBounded
PROPERTY Terminates
CHECK_DEADLOCK FALSE
