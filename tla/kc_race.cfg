SPECIFICATION Spec
CONSTANTS
  MaxLogin = 2
  MaxAdmin = 2
  MaxTime = 3
  PageSize = 2
  MaxPages = 2
  MaxFaults = 0
INVARIANTS
  EveryEventKept
