SPECIFICATION IsoSpec
CONSTANTS
  j1 = j1
  j2 = j2
  j3 = j3
  old = old
  Jobs = {j1, j2, j3}
  Old = {old}
  NoImage = NoImage
  Want <- Shared
  FaultSets <- Every
SYMMETRY Symmetry
INVARIANTS InstancesAccounted SchemaFits Undisturbed
CHECK_DEADLOCK FALSE
