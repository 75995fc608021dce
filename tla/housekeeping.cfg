SPECIFICATION FairSpec
CONSTANTS
  MaxDay = 3
  DaysPerMonth = 1
  MaxRetention = 1
  MaxSize = 2
  High = 1
  Capacity = 2
  StaleDegraded = 0
  StaleError = 1
  MaxFaults = 2
PROPERTIES
  RemovalsAreJustified
  ExpiredFilesGo
  FullVolumeIsReported
  OutagesAreVisible
