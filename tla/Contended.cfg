SPECIFICATION FairSpecP
CONSTANTS
  t1 = t1
  t2 = t2
  a = a
  b = b
  c = c
  NoVM = NoVM
  NoThread = NoThread
  Threads = {t1, t2}
  VMs = {a, b, c}
  DEVMAX = 2
  Serves <- OneOwnerEach
  MaxHold = 1
  MinIdle = 1
  MaxReq <- TwiceOnce
  NestedPause = FALSE
  Unresolved = {}
  MayFail = {}
  MaxBoot = 0
  Monitor = Monitor
  MaxPrint = 1
INVARIANTS
  OneSlotPerVm
  LockedNamed
  VmiSerial
PROPERTIES
  StealFinishes
