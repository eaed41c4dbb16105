SPECIFICATION Spec
CONSTANTS
  Requests = {c1}
  None = None
  MaxLinks = 2
  MaxVisits = 2
  Crashes = TRUE
CHECK_DEADLOCK FALSE
INVARIANTS
  OnlineIsConnected
  WatchedStreams
