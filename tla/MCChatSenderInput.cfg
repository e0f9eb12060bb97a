SPECIFICATION Spec
CONSTANTS
  MaxLen = 4
  RequestLen <- MCFitting
  AnswerLen <- MCShort
  MaxCommands = 2
  MaxRequests = 6
INVARIANT NothingUntyped
CHECK_DEADLOCK FALSE
