SPECIFICATION FairSpec
CONSTANTS
  MaxLogin = 3
  MaxAdmin = 2
  MaxTime = 2
  PageSize = 1
  MaxPages = 2
  MaxFaults = 1
INVARIANTS
  NoCopyWithoutFault
  LossesAreKnown
PROPERTIES
  EveryEventLogged
