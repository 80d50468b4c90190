CONSTANTS
  Clusters = {c1}
  ComparisonField = "ResourceVersion"
  Scenarios <- Propagation
  MaxQueued = 1
SPECIFICATION Spec
INVARIANT TypeOK
INVARIANT IInv
INVARIANT ProtectedPropagation
PROPERTY LeftOnlyByInterruption
CHECK_DEADLOCK FALSE
