SPECIFICATION ProjectionSpec
CONSTANTS
  Place <- FastPlaces
  DistanceM <- MetresBetween
  MeanCentroid <- MeanOf
  HA <- SomeHA
  StepS <- TwoSteps
  MaxObs = 3
  MoveRadiusM = 60
  DwellThresholdS = 4
  GapThresholdS = 4
  MaxSpeedMPS = 80
  MaxJumpM = 420
  ConfirmWindowS = 3
  ConfirmMoves = FALSE
  MaxEntities = 2
  DtBounds <- MCDtBounds
  DistanceBounds <- MCDistanceBounds
INVARIANTS
  EdgesClose StepDiagnosticsAgree
CHECK_DEADLOCK FALSE
