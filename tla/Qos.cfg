SPECIFICATION Spec
CONSTANTS
  Publishers = {p1, p2, p3}
  Depths = {0, 1, 2}
  MaxQosDepth = 3
  MaxSubs = 1
INVARIANTS
  MissesOnlyLatePublishers
  StrongestProfile
  DepthOfAll
CHECK_DEADLOCK FALSE
