SPECIFICATION Spec
CONSTANTS
  MaxTx = 3
  AbsentAnswers = {"404", "older", "unknownTid"}
  MaxMissing = 2
  StuckTimeout = 1
  FastCommit = TRUE
  MaxFaults = 0
INVARIANTS
  NoLoss
