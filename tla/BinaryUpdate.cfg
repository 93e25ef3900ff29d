CONSTANTS
  Binaries = {"raumserver"}
  MaxRuns = 2
  MaxBuild = 2
  Nobody = Nobody
SPECIFICATION Spec
CHECK_DEADLOCK FALSE
INVARIANTS
  OneRelease
  FieldsOutliveCallbacks
  SyncRunsJoin
PROPERTIES
  OwnAnswer
  CallerReturns
