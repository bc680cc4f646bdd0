SPECIFICATION Spec
CONSTANTS
  Workers = {w1, w2}
  NoWorker = NoWorker
  Retries = 2
  ChunkLists <- Chunks
  N = 2
  Modes <- Captures
  Listings <- Pages
  Limit = 6
  ChunkBytes = 3
  MaxAttempts = 2
  EventSets <- Apart
  MaxCrashes = 1
INVARIANTS
  RecordCovers
  RootCause
  ExitReleases
PROPERTIES
  CopiedIsComplete
  RenewedOnce
  TaskEnds
CHECK_DEADLOCK FALSE
