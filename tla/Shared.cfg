SPECIFICATION Spec
CONSTANTS
  t1 = t1
  t2 = t2
  a = a
  b = b
  c = c
  NoVM = NoVM
  NoThread = NoThread
  Threads = {t1, t2}
  VMs = {a, b}
  DEVMAX = 3
  Serves <- BothServeB
  MaxHold = 1
  MinIdle = 1
  MaxReq <- ThriceOnce
  NestedPause = TRUE
  Unresolved = {}
  MayFail = {}
  MaxBoot = 0
INVARIANTS
  NeverWrongDisk
  NeverSteals
  ConnectFindsFree
  IdleVmRuns
