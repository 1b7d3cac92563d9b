CONSTANTS
  Rows <- MCRows
  Queries <- MCQueries
  Limits <- MCLimits
  DefaultLimit = 2
  MaxLimit = 3
  HasH3 = TRUE
  MaxLosses = 1
SPECIFICATION Spec
INVARIANTS PagingHolds
PROPERTY SessionEnds
CHECK_DEADLOCK FALSE
