\* The pointers that are found in short structs.
SPECIFICATION Spec
CONSTANTS
  Formats <- Short
  DataSizes <- NoData
CHECK_DEADLOCK FALSE
INVARIANTS
  StructPointersFound
