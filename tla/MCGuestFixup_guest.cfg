SPECIFICATION FixSpec
CONSTANTS
  Kernels = {"k1", "k2"}
  Guests <- ManyGuests
  FaultSets <- Graded
INVARIANTS
  NothingLeft
  AnswersAreTrue
CHECK_DEADLOCK FALSE
