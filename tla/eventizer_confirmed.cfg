SPECIFICATION TraceSpec
CONSTANTS
  Place <- FarPlaces
  DistanceM <- MetresBetween
  MeanCentroid <- MeanOf
  HA <- NoHA
  StepS <- Steps
  MaxObs = 6
  MoveRadiusM = 60
  DwellThresholdS = 4
  GapThresholdS = 4
  MaxSpeedMPS = 105
  MaxJumpM = 420
  ConfirmWindowS = 3
  ConfirmMoves = TRUE
INVARIANTS
  TypeOK StateCoherent EvidenceIsContinuous DeparturesAreExact CountersClose
  TraceNamesEveryEvent DecisionsAreCounted TraceExplainsPresence
CHECK_DEADLOCK FALSE
