SPECIFICATION FairSpec
CONSTANTS
  MaxTx = 2
  MaxEvents = 1
  MaxDay = 2
  MaxFaults = 1
  MayDelete = FALSE
PROPERTIES
  TransactionsImplementAuditTrail
  EventsImplementAuditTrail
  EveryItemLogged
