SPECIFICATION Spec
CONSTANTS
  DigitBits = 1
  UnitDigits = 2
  NWords = 3
  MaxDigits = 7
INVARIANTS ProductSoFar SubtractsBack HexReadsBack
CHECK_DEADLOCK FALSE
