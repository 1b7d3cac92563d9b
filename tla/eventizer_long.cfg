SPECIFICATION TraceSpec
CONSTANTS
  Place <- TwoPlaces
  DistanceM <- MetresBetween
  MeanCentroid <- MeanOf
  HA <- NoHA
  StepS <- LongSteps
  MaxObs = 10
  MoveRadiusM = 60
  DwellThresholdS = 4
  GapThresholdS = 4
  MaxSpeedMPS = 105
  MaxJumpM = 420
  ConfirmWindowS = 3
  ConfirmMoves = TRUE
INVARIANTS
  TransitionsLink
PROPERTY ImplementsContract
CHECK_DEADLOCK FALSE
