CONSTANTS
  Tables <- MCTables
  Events = "events"
  Sizes <- MCSizes
  BatchRows = 2
  MaxEntities = 3
SPECIFICATION Spec
INVARIANTS
  StatsDescribeTables
  CanonicalIsTheEventTable
PROPERTY ImplementsContract
CHECK_DEADLOCK FALSE
