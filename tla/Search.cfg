SPECIFICATION Spec
CONSTANTS
  Clients = {"worker", "pane"}
  Documents <- MCDocuments
  Feeds <- MCFeeds
  Requests <- MCRequests
  Budget = 1
  MaxToken = 3
  None = None
INVARIANT ResultsAreRight
PROPERTIES CancelIsKept SearchEnds
CHECK_DEADLOCK FALSE
