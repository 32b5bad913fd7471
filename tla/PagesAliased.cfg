\* The page map is a word of page 0 that the client may write (bitvectors
\* of four bits stand for those of 64).
SPECIFICATION Spec
CONSTANTS
  NumPages = 4
  PageWords = 256
  PMWord = 37
  BitvectorSize = 4
  Sizes = {200}
  MisreadSizes = {}
  ThNum = 1
  ThDen = 1
CHECK_DEADLOCK FALSE
INVARIANTS
  NeverOverrun
