\* Requests around one to four bitvectors of pages, and large heaps.
SPECIFICATION Spec
CONSTANTS
  Requests <- Boundaries
  Thresholds <- Halves
CHECK_DEADLOCK FALSE
INVARIANTS
  HeapExact
  StopsOnlyWhenTooSmall
  PagesAccessible
