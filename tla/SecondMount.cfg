SPECIFICATION Spec
CONSTANTS
  t1 = t1
  t2 = t2
  a = a
  b = b
  c = c
  NoVM = NoVM
  NoThread = NoThread
  Threads = {t1, t2}
  VMs = {a, b}
  DEVMAX = 2
  Serves <- OneOwnerEach
  MaxHold = 1
  MinIdle = 1
  MaxReq <- Once
  NestedPause = FALSE
  Unresolved = {}
  MayFail = {}
  MaxBoot = 0
INVARIANT FlushedWhenHeld
