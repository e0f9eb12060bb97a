SPECIFICATION FairSpec
CONSTANTS
  NumElements = 4
  Elem <- MCElem
  ULONG_MAX = 15
  Thresholds <- MCThresholds
  MaxFailures = 1
INVARIANTS
  RaceFree
  GloballyPlaced
  SuccessReapsAll
  QuietExit
  FailureHasCause
PROPERTIES
  ImplementsAbstractSort
  AllEnd
CHECK_DEADLOCK FALSE
