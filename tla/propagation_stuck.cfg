CONSTANTS
  Clusters = {c1}
  ComparisonField = "ResourceVersion"
  Scenarios <- OnePlacement
  MaxQueued = 1
SPECIFICATION FairSpec
PROPERTY Converges
CHECK_DEADLOCK FALSE
