CONSTANTS
  Clusters = {c1}
  ComparisonField = "ResourceVersion"
  Scenarios <- UndisturbedDeletion
  MaxQueued = 1
SPECIFICATION Spec
PROPERTY CascadeDeletesEverywhere
CHECK_DEADLOCK FALSE
