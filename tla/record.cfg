SPECIFICATION Spec
CONSTANTS
  Resources = {"r1", "r2"}
  Nodes = {"n1", "n2"}
  Namespaces = {"eda", "site"}
  WellKnown = {"eda"}
  MaxLosses = 2
INVARIANTS
  EveryResourceNamed
  LabelsAreTrue
  EveryNodeDiffed
CHECK_DEADLOCK FALSE
