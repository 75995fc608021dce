SPECIFICATION Spec
CONSTANTS
  Naming = {{}, {"uiNameKey"}, {"uiName", "uiNameKey"}}
  Sections = {"nodes"}
  Attrs = {"speed"}
  OverlayName = "load"
  Cell = {1, 2, 3, 4, 5}
  MaxHandles = 3
  MaxObjects = 2
INVARIANTS
  WhatWasSaidIsWritten
  HandOverKeepsIdentity
PROPERTIES
  FailuresLeaveNothing
