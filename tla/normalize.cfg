CONSTANTS
  Fix <- MCFix
  PartitionIndex <- MCPartitionIndex
  EntityRank <- MCEntityRank
  Partitions = 2
  MaxRows = 4
SPECIFICATION Spec
INVARIANTS
  EntitiesAreWhole
  RowOrderIsIrrelevant
CHECK_DEADLOCK FALSE
