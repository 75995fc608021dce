SPECIFICATION FairSpec
CONSTANTS
  MaxTx = 3
  AbsentAnswers = {"404", "older"}
  MaxMissing = 2
  StuckTimeout = 2
  FastCommit = FALSE
  MaxFaults = 2
INVARIANTS
  TypeOK
  NoLoss
  RecordsAreTrue
PROPERTIES
  NeverReaudited
  ImplementsAuditTrail
  EveryChangeResolved
  ScanTerminates
