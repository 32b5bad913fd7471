\* All short format strings, and those at the limits.
SPECIFICATION Spec
CONSTANTS
  Formats <- ShortAndLimits
  DataSizes <- DataBytes
CHECK_DEADLOCK FALSE
INVARIANTS
  PointersFound
  SizeCovers
  FormatPointersFound
