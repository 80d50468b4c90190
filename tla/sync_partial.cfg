CONSTANTS
  Clusters = {c1, c2}
  ComparisonField = "ResourceVersion"
  Scenarios <- PartialFailure
  MaxQueued = 1
SPECIFICATION Spec
INVARIANT VersionsVouch
INVARIANT SeesOwnVersions
CHECK_DEADLOCK FALSE
