SPECIFICATION SpecR
CONSTANTS
  k1 = k1
  k2 = k2
  NoTask = NoTask
  Tasks = {k1, k2}
  Kernels = {TRUE, FALSE}
  Work <- BusyGuest
  SafetyMax = 6
  ListenMayFail = TRUE
  XlMayFail = TRUE
  NestedPause = TRUE
  MaxCalls = 2
  MaxPause = 2
PROPERTIES
  ImplementsSyncService
CHECK_DEADLOCK FALSE
