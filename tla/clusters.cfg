CONSTANTS
  Clusters = {c1}
  MaxQueued = 2
  Budgets <- Lives
  Joiners = {j1, j2}
  Informers = {1, 2}
SPECIFICATION FairSpec
INVARIANT TypeOK
INVARIANT JoinInv
INVARIANT InformersOnMap
INVARIANT TransitionsSinceJoin
PROPERTY FollowsHealth
PROPERTY SyncsAgain
CHECK_DEADLOCK FALSE
