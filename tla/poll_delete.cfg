SPECIFICATION Spec
CONSTANTS
  MaxTx = 2
  MaxEvents = 1
  MaxDay = 2
  MaxFaults = 2
  MayDelete = TRUE
INVARIANTS
  NoLoss
  DuplicatesOnlyFromFaults
  NoConflict
PROPERTIES
  StateNeverRollsBack
