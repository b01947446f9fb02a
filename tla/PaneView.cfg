SPECIFICATION PaneParts
CONSTANTS
  Heights = {1, 2}
  MaxLines = 2
  MaxIds = 6
  None = None
INVARIANTS PaintedIsShown SelectionKeepsItsLines RevealsAreScheduled DockFollowsTheMarks
PROPERTIES ScrolledViewHolds RevealsFollowText
CHECK_DEADLOCK FALSE
