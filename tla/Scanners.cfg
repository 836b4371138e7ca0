SPECIFICATION FairSpec
CONSTANTS
  s1 = s1
  s2 = s2
  m = m
  a = a
  b = b
  NoVM = NoVM
  Procs = {s1, s2, m}
  Spawners = {s1, s2}
  VMs = {a, b}
  VmOf <- OneVmTwice
  Faults <- FaultLoads
  NestedPause = TRUE
INVARIANTS
  TypeOK
  ScansGuest
  Tidy
PROPERTIES
  Ends
