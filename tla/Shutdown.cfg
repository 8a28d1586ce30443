SPECIFICATION FairSpec
CONSTANTS
  Conns = {c1, c2, c3}
  NoConn = NoConn
  MaxPolls = 3
INVARIANTS
  RaceOnlyInStop
  StopIsFinal
  GracefulStopClosesAll
PROPERTIES
  StopReturnsUnlessLate
CHECK_DEADLOCK FALSE
