SPECIFICATION SmallParts
CONSTANTS
  Grids <- MCGrids
  Cells <- MCCells
  NoCell = "0x0"
  FirstGrid = "80x24"
  Faults = {"core", "spawn", "ioctl"}
INVARIANTS CopiesAgree LayoutIsSound OutputIsReadAlike SpawnLeavesNothing SettingsArrive KeysAreTold PreviewsAreUndone
PROPERTIES OrderKept RowsAreStrings
CHECK_DEADLOCK FALSE
