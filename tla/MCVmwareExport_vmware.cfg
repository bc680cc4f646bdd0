SPECIFICATION Spec
CONSTANTS
  SkipZeroGrains = TRUE
  Depth = 2
  Setups <- All
  ChunkUnits = 3
  MaxAttempts = 2
INVARIANTS CopiedIsComplete WriterOutlivesWorker LeaseMatchesResult
PROPERTIES TaskEnds IsOrderedDecode
CHECK_DEADLOCK FALSE
