SPECIFICATION Spec
CONSTANTS
  j1 = j1
  j2 = j2
  sdb = sdb
  sdc = sdc
  sdd = sdd
  sde = sde
  oraclevdb = oraclevdb
  oraclevdc = oraclevdc
  None = None
  Jobs = {j1, j2}
  N = 1
  Names = {sdb, sdc, sdd}
  Paths <- TwoPaths
  Setups <- ManySetups
INVARIANTS
  OwnDiskIfDistinct
PROPERTY
  JobsSettle
CHECK_DEADLOCK FALSE
