SPECIFICATION Spec
CONSTANTS
  Word = 1024
  Sizes <- MCSizes
  Addresses <- MCAddresses
  FifoCounters <- MCFifoCounters
  MaxAccesses = 5
INVARIANTS
  DistinctTags
  LruOrders
  CleanWhenSynced
  CyclesAccount
  SplitIsExact
PROPERTIES
  ImplementsAbstractCache
CONSTRAINT Explored
CHECK_DEADLOCK FALSE
