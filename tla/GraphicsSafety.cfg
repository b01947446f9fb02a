SPECIFICATION Spec
CONSTANTS
  TotalLimit = 4
  MaxImageSize = 3
  MaxPlacements = 2
  FirstAutoId = 5
  None = None
  Rows = 1
  Cols = 1
  TextureBytes = 4
  TextureEntries = 2
  MaxInFlight = 1
  FirstItermId = 8
  MaxLines = 1
  KittyStarts <- MCStarts
  KittyDisplays <- MCDisplays
  KittyDeletes <- MCDeletes
  ItermFiles <- MCFiles
  MaxStamp = 4
  MaxAutoIds = 2
  MaxFeeds = 1
CONSTRAINT BrokenAlone
INVARIANTS StoreIsSound DrawsTheStore
PROPERTIES UnusedGoFirst
CHECK_DEADLOCK FALSE
