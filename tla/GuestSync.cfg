SPECIFICATION FairSpec
CONSTANTS
  k1 = k1
  k2 = k2
  k3 = k3
  NoTask = NoTask
  Tasks = {k1, k2, k3}
  Kernels = {TRUE, FALSE}
  Work <- OtherWork
  SafetyMax = 7
  ListenMayFail = TRUE
  XlMayFail = TRUE
  NestedPause = TRUE
  MaxCalls = 1
INVARIANTS
  TypeOK
  TextRestored
  NoCrash
  VcpuReleased
  SyncedOnReturn
  DivertedComesBack
PROPERTIES
  OwnRegisters
  Returns
CHECK_DEADLOCK FALSE
