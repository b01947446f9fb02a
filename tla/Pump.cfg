SPECIFICATION PumpSpec
CONSTANTS
  NPanes = 2
  Scripts <- AllScripts
  ReaderCap = 1
  WriterCap = 1
  PumpCap = 2
  ReplyCap = 2
  MaxSlices = 2
  MaxSearches = 1
  MaxPumps = 1
INVARIANTS NothingStranded ShownInOrder ScreenIsCurrent
PROPERTY AllComesThrough
