SPECIFICATION FairSpec
CONSTANT Sizes <- MCSizes
INVARIANTS TypeOK WritesThePicture StrayOnlyOdd
PROPERTY ProgramEnds
CHECK_DEADLOCK FALSE
