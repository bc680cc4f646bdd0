SPECIFICATION Spec
CONSTANTS
  j1 = j1
  j2 = j2
  j3 = j3
  vm1 = vm1
  NoJob = NoJob
  Jobs = {j1, j2, j3}
  IsoJobs = {j3}
  Vms = {j1, j2, j3}
  VmOf <- OwnVm
  Threads = {t1, t2}
  Clients = {c1}
  MaxLimit = 2
  Requests <- Contended
  MaxRestarts = 1
SYMMETRY Symmetry
INVARIANTS NoLostUpdate ActiveIsOwned
CHECK_DEADLOCK FALSE
