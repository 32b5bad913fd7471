\* All heaps of two pairs, collected twice in either mode, with two words inside
\* of pairs on the stack as well.
SPECIFICATION Spec
CONSTANTS
  NumPages = 2
  PageWords = 8
  PMWord = 7
  BitvectorSize = 64
  ThNum = 1
  ThDen = 1
  Kinds <- Pairs
  NumSlots = 2
  StackModes = {TRUE, FALSE}
  Strays <- InsidePairs
  MaxMade = 2
  MaxGcs = 2
CONSTRAINT Sound
CHECK_DEADLOCK FALSE
INVARIANTS
  Transparent
  SafeGcCollects
  UsedExact
PROPERTIES
  CollectableNeverAborts
