SPECIFICATION Spec
CONSTANTS
  launcher = launcher
  script = script
  none = none
  Processes = {launcher, script}
  Launcher = launcher
  Bundles <- Conversations
  MaxCells = 1
  MaxSends = 2
  MaxFaults = 1
  Marked = {2}
  None = none
INVARIANTS
  TypeOK
  FileWhole
  CellsKept
  SavedStands
PROPERTIES
  NothingForgotten
