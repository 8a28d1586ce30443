SPECIFICATION Spec
CONSTANTS
  Names = {a, b, c}
  Primitive = Primitive
  MaxReads = 3
INVARIANTS
  SelfContained
PROPERTIES
  CallsEnd
CHECK_DEADLOCK FALSE
