\* A child of two objects.
SPECIFICATION Spec
CONSTANTS
  NumPages = 2
  PageWords = 7
  PMWord = 6
  BitvectorSize = 64
  ThNum = 1
  ThDen = 1
  Kinds <- Pairs
  NumSlots = 2
  StackModes = {FALSE}
  Strays <- NoStrays
  MaxMade = 2
  MaxGcs = 1
CONSTRAINT Sound
CHECK_DEADLOCK FALSE
INVARIANTS
  InvalidIsNoPointer
