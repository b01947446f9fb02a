SPECIFICATION Spec
CONSTANTS
  Sizes <- MCSizes
  TabInterval = 2
  Prefills = {0, 5}
  MaxScrolled = 3
  MaxSteps = 3
  Focuses <- MCFocuses
INVARIANTS GridIsSound 
 
CONSTRAINT Small
CHECK_DEADLOCK FALSE
