SPECIFICATION FairSpec
CONSTANTS
  RIO_BUFSIZE = 2
  WireSize = 3
  TextLen = 5
  Limits <- MCLimits
  MaxSignals = 1
  MaxAddresses = 2
INVARIANTS NoByteLost OneDescriptor
PROPERTIES ImplementsLines CallEnds
CHECK_DEADLOCK FALSE
