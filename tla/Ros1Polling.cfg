SPECIFICATION PollingSpec
CONSTANTS
  MaxUpdateParams <- SomeParams
  Bits = 64
INVARIANTS
  PeriodInRange
PROPERTIES
  BackoffGrows
