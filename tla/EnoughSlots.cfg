SPECIFICATION Spec
CONSTANTS
  t1 = t1
  t2 = t2
  a = a
  b = b
  c = c
  NoVM = NoVM
  NoThread = NoThread
  Threads = {t1, t2}
  VMs = {a, b, c}
  DEVMAX = 3
  Serves <- OneOwnerEach
  MaxHold = 2
  MinIdle = 1
  MaxReq <- ThriceOnce
  NestedPause = TRUE
  Unresolved = {}
  MayFail = {}
  MaxBoot = 1
INVARIANTS
  RightDisk
  FreshPaused
  RefcountMatches
PROPERTIES
  ImplementsMountService
