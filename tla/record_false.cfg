SPECIFICATION Spec
CONSTANTS
  Resources = {"r1"}
  Nodes = {"n1"}
  Namespaces = {"eda", "site"}
  WellKnown = {"eda"}
  MaxLosses = 1
INVARIANTS
  NoChangesIsTrue
CHECK_DEADLOCK FALSE
