SPECIFICATION Spec
CONSTANTS
  MaxAdvertised = 3
  MaxData = 3
INVARIANTS
  DataFindsHandler
  QuietServerIsSafe
PROPERTIES
  CallEnds
CHECK_DEADLOCK FALSE
