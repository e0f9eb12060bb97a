SPECIFICATION Spec
CONSTANT Sizes <- MCSizes
INVARIANT CallerKeepsRegisters
CHECK_DEADLOCK FALSE
