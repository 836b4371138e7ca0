SPECIFICATION FairSpec
CONSTANTS
  t1 = t1
  t2 = t2
  a = a
  b = b
  c = c
  NoVM = NoVM
  NoThread = NoThread
  Threads = {t1}
  VMs = {a, b, c}
  DEVMAX = 2
  Serves <- OneForAll
  MaxHold = 1
  MinIdle = 2
  MaxReq <- FourTimes
  NestedPause = TRUE
  Unresolved = {}
  MayFail = {"umount"}
  MaxBoot = 1
INVARIANTS
  TypeOK
  AllSlotsLockedBeforeSteal
  IdleVmRuns
  ConnectFindsFree
  EvictsLeastRecent
PROPERTIES
  ImplementsMountService
  EveryRequestReturns
