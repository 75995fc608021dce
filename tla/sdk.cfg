SPECIFICATION Spec
CONSTANTS
  Groups = 5
  OctetBits = 2
  NUM_CRS_IN_REASON = 1
  Hextet = {0, 15, 31}
  Octet = {0, 1, 3}
  HostBits = {0, 1, 2, 3}
  Limits = {0, 1, 3, 4, 7, 9}
  Scores = {0, 60, 100}
  Sizes = {0, 1, 2, 3}
  Weights = {0, 2}
  Keys = {"metadata", "spec", "status", "creationTimestamp", "managedFields", "ownerReferences",
          "time", "fieldsV1", "pollIntervalSeconds", "retentionMonths", "health", "logFiles",
          "subsystems", "edaApi"}
  Scalars = {"x"}
  Lengths = {0, 1}
  Numbers = {1, 2}
  Extras = {1}
  Letters = {1, 2}
  Node = {"dut1"}
  NodeWords = {{}, {"srl"}, {"card"}}
  Slot = {"1", "2"}
  Types = {"t"}
  Admins = {"enable", "disable"}
  Times = {"then"}
INVARIANTS
  AddressTextIsCanonical
  SubnetsHoldTheirAddresses
  PortsStayApart
  ComponentsStayApart
  LookupsCostOneFact
  HealthIsAccountable
  RoundTripsKeepValues
