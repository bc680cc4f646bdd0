SPECIFICATION Spec
CONSTANTS
  N = 2
  FaultSets <- Graded
  MaxRetries = 2
  MaxCrashes = 1
INVARIANTS
  RecordCovers
  CleanupLeavesNothing
  CompletedMoved
  OneWriter
PROPERTY
  Ends
CHECK_DEADLOCK FALSE
