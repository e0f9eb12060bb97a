SPECIFICATION FairSpec
CONSTANTS
  Values = 4
  Colours = 1
  Shapes <- MCShapes
  MaxChunks = 4
  MaxInt = 15
INVARIANTS ReadsThePicture WrittenReadsBack GivenBack
PROPERTY ReadingEnds
CHECK_DEADLOCK FALSE
