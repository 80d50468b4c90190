CONSTANTS
  Clusters = {c1}
  ComparisonField = "Generation"
  Scenarios <- Calming
  MaxQueued = 1
SPECIFICATION FairSpec
PROPERTY ConvergesUnlessUpdateLost
PROPERTY DeletionCompletes
PROPERTY Quiesces
CHECK_DEADLOCK FALSE
