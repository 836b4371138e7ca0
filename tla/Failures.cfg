SPECIFICATION Spec
CONSTANTS
  t1 = t1
  t2 = t2
  a = a
  b = b
  c = c
  NoVM = NoVM
  NoThread = NoThread
  Threads = {t1}
  VMs = {a, b, c}
  DEVMAX = 2
  Serves <- OneForAll
  MaxHold = 2
  MinIdle = 1
  MaxReq <- ThriceOnce
  NestedPause = TRUE
  Unresolved = {c}
  MayFail = {"sync", "attach", "connect", "mount", "exec"}
  MaxBoot = 1
INVARIANTS
  NeverWrongDisk
