SPECIFICATION Spec
CONSTANTS
  Limits = {1, 4}
  PageLines = 2
  QueueCap = 1
  CompletionCap = 1
  Widths = {80, 100}
  Generations = {1}
  MaxRows = 5
  MaxBatch = 2
  MaxStyles = 1
CONSTRAINT OneWidening LateLimit
INVARIANT PagesAreSound
PROPERTIES IsARowLog CallsReturn
CHECK_DEADLOCK FALSE
