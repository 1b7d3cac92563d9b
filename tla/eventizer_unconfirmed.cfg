SPECIFICATION TraceSpec
CONSTANTS
  Place <- FarPlaces
  DistanceM <- MetresBetween
  MeanCentroid <- MeanOf
  HA <- NoHA
  StepS <- Steps
  MaxObs = 6
  MoveRadiusM = 60
  DwellThresholdS = 4
  GapThresholdS = 4
  MaxSpeedMPS = 105
  MaxJumpM = 420
  ConfirmWindowS = 3
  ConfirmMoves = FALSE
INVARIANTS
  PresencesDisjoint TimelineTellsOneStory ValidationHolds
CHECK_DEADLOCK FALSE
