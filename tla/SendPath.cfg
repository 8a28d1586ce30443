SPECIFICATION Spec
CONSTANTS
  Threads = {t1, t2}
  ChannelIds = {ch1, ch2}
  SubIds = {s1, s2}
  Limit = 3
  MaxSize = 2
  TimeSize = 1
  UseSimTime = TRUE
  MaxTime = 4
  NoId = NoId
SYMMETRY Symmetry
INVARIANTS
  OvershootBounded
  LateDataBounded
CHECK_DEADLOCK FALSE
