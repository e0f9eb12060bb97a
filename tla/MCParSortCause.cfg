SPECIFICATION Spec
CONSTANTS
  NumElements = 3
  Elem <- MCElem
  ULONG_MAX = 15
  Thresholds <- MCThresholds
  MaxFailures = 1
INVARIANTS
  FailsOnlyOnSystemCalls
CHECK_DEADLOCK FALSE
