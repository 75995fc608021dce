SPECIFICATION FairSpec
CONSTANTS
  MaxSecrets = 3
  MaxFaults = 3
INVARIANTS
  AbsenceIsReal
  LegacyRoleRevoked
PROPERTIES
  NeverStripsAccess
  SelfHeals
  UpgradeTakesEffect
