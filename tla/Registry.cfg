SPECIFICATION Spec
CONSTANTS
  VMs = {a, b}
  DEVMAX = 2
  MaxConfigs = 3
  NoConfig = NoConfig
  PerSec = 2
  PerMsec = 2
  MaxTime = 9
  Limit = 2
INVARIANTS
  OrphansIdle
  HandlesLive
PROPERTIES
  StealsOldest
