CONSTANTS
  Row <- MCRow
  PartitionIndex <- MCPartitionIndex
  Partitions = 2
  RequireHA = FALSE
  LimitHA = TRUE
  BufferRows = 1
  MaxRows = 4
SPECIFICATION Spec
INVARIANTS
  RowsAccounted
  SuccessIsDurable
  ResultDescribesFiles
PROPERTY Returns
CHECK_DEADLOCK FALSE
