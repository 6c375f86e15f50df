SPECIFICATION Spec
CONSTANTS
  launcher = launcher
  script = script
  none = none
  Processes = {launcher, script}
  Launcher = launcher
  Bundles <- Conversations
  MaxCells = 1
  MaxSends = 2
  MaxFaults = 0
  Marked = {2}
  None = none
INVARIANT Restorable
