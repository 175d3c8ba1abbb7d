SPECIFICATION Spec
CONSTANTS
  Projects = {p1, p2}
  Default = p1
  NoProject = none
  Slots = 3
  Same = same
  Stored = {{}, {p1, p2}}
  DownAfter = 2
  Slow = TRUE
  MaxCrashes = 1
  MaxOps = 2
  MaxMinutes = 1
INVARIANTS BackendInv ServesActive
PROPERTIES ComesBack
CHECK_DEADLOCK FALSE
