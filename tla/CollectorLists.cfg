\* All heaps of three list cells, on three stack words, collected in either mode.
SPECIFICATION Spec
CONSTANTS
  NumPages = 2
  PageWords = 7
  PMWord = 6
  BitvectorSize = 64
  ThNum = 1
  ThDen = 1
  Kinds <- Cells
  NumSlots = 3
  StackModes = {TRUE, FALSE}
  Strays <- NoStrays
  MaxMade = 3
  MaxGcs = 1
CONSTRAINT Sound
CHECK_DEADLOCK FALSE
INVARIANTS
  TypeOK
  Transparent
  GarbageFreed
  ObjectsKilled
PROPERTIES
  CollectableNeverAborts
  GcEnds
  PagesSpec
