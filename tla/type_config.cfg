CONSTANTS
  Names = {n1}
  EventBudget <- LifeCycle
SPECIFICATION FairSpec
INVARIANT ChannelInv
INVARIANT OnePerType
PROPERTY ShutDownEndsAll
PROPERTY ReleasedAfterStop
PROPERTY FollowsConfig
PROPERTY DeletionCompletesUnlessMisled
CHECK_DEADLOCK FALSE
