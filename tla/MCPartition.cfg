SPECIFICATION PartitionFairSpec
CONSTANTS
  NumElements = 5
  Elem <- MCElem
  ULONG_MAX = 15
INVARIANTS
  KeepsElements
  ReturnsPartition
  UnderflowExact
PROPERTIES
  CallEnds
CHECK_DEADLOCK FALSE
