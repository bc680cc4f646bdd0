SPECIFICATION Spec
CONSTANTS
  Workers = {w1, w2}
  Retries = 2
  NoRange = NoRange
  Sessions = {s1, s2}
  Jobs = {job, other}
  NoSession = NoSession
  Me = job
  Mine = s1
  N = 2
  Size = 5
  ChunkBytes = 2
  MaxAttempts = 2
  EventSets <- Apart
  MaxCrashes = 1
INVARIANTS
  RecordCovers
  ExitReleases
PROPERTIES
  CopiedIsComplete
  ExportKeepsLogin
  DeadLoginsClose
CHECK_DEADLOCK FALSE
