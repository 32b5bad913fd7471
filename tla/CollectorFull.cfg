\* Pages of a single cell or leaf: allocations collect, and stop when no
\* page is left.
SPECIFICATION Spec
CONSTANTS
  NumPages = 4
  PageWords = 3
  PMWord = 2
  BitvectorSize = 64
  ThNum = 1
  ThDen = 1
  Kinds <- CellsAndLeaves
  NumSlots = 2
  StackModes = {TRUE, FALSE}
  Strays <- NoStrays
  MaxMade = 4
  MaxGcs = 2
CONSTRAINT Sound
CHECK_DEADLOCK FALSE
INVARIANTS
  GarbageFreed
  PressureBounded
PROPERTIES
  AllocDisturbsNone
