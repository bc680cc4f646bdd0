SPECIFICATION Spec
CONSTANTS
  j1 = j1
  j2 = j2
  j3 = j3
  vm1 = vm1
  NoJob = NoJob
  Jobs = {j1, j2}
  IsoJobs = {}
  Vms = {vm1}
  VmOf <- OneVm
  Threads = {t1, t2}
  Clients = {c1}
  MaxLimit = 1
  Requests <- Serial
  MaxRestarts = 1
SYMMETRY Symmetry
INVARIANTS RegistryExact VmExclusive
CHECK_DEADLOCK FALSE
