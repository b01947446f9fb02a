SPECIFICATION SmallParts
CONSTANTS
  Grids <- MCGrids
  Cells <- MCCells
  NoCell = "0x0"
  FirstGrid = "80x24"
  Faults = {"core", "spawn", "ioctl"}
INVARIANT UpdatesKeepOrder
CHECK_DEADLOCK FALSE
