SPECIFICATION Spec
CONSTANTS
  MaxWindows = 3
  MaxTabs = 3
  MaxPanes = 4
  CloseOnExit = "clean"
  SavedStates <- MCSavedStates
INVARIANT ShellIsWhole
CHECK_DEADLOCK FALSE
