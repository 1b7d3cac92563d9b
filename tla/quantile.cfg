SPECIFICATION Spec
CONSTANTS
  PNum = 1
  PDen = 2
  Values <- Skewed
  MaxCount = 15
INVARIANTS MarkersOrdered EstimateFollows
CHECK_DEADLOCK FALSE
