SPECIFICATION Spec
CONSTANTS
  MaxRuns = 3
  Options <- Mixed
INVARIANTS ManifestCertifies PreviousDatasetSurvives SuccessIsFresh
  ReadersSeeOneRun
PROPERTY RunEnds
CHECK_DEADLOCK FALSE
