SPECIFICATION FairNodeSpec
CONSTANTS
  Requests = {r1, r2}
  Unloadable = FALSE
  UseSimTime = TRUE
INVARIANTS
  DepthIsConfigured
  NothingRunsInDestroyedNode
PROPERTIES
  DestructorReachesStop
CHECK_DEADLOCK FALSE
