\* Three pages of five words; the page map is two words of page 0.
SPECIFICATION Spec
CONSTANTS
  NumPages = 3
  PageWords = 5
  PMWord = 3
  BitvectorSize = 2
  Sizes = {1, 2}
  MisreadSizes = {}
  ThNum = 1
  ThDen = 1
CONSTRAINT Mapped
CHECK_DEADLOCK FALSE
INVARIANTS
  TypeOK
  ObjectsApart
  MapMarksObjects
  OneObjectPerBlock
  PassivePagesClean
  ReachedSurvive
  NoOverrun
