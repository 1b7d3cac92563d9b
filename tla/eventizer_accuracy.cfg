SPECIFICATION ExplainSpec
CONSTANTS
  Place <- ThreePlaces
  DistanceM <- MetresBetween
  MeanCentroid <- MeanOf
  HA <- SomeHA
  StepS <- TwoSteps
  MaxObs = 5
  MoveRadiusM = 60
  DwellThresholdS = 4
  GapThresholdS = 4
  MaxSpeedMPS = 45
  MaxJumpM = 150
  ConfirmWindowS = 3
  ConfirmMoves = TRUE
  MaxEntities = 1
  DtBounds <- MCDtBounds
  DistanceBounds <- MCDistanceBounds
  Milli = 2
  NearbyLimit = 2
INVARIANTS
  NoPresenceMissed IntervalsLabelTheirStart RowsFitTogether
  SegmentsTileTrack PathRunsAgree ExplanationsHold
CHECK_DEADLOCK FALSE
