SPECIFICATION FairSpec
CONSTANTS
  Launches = {l1, l2, l3}
  NoTail = NoTail
  MaxRuns = 1
  NAgents = 1
  PromptUnwind = FALSE
  Crashes = TRUE
CHECK_DEADLOCK FALSE
PROPERTIES
  AbortedUnwinds
  QueuedStarts
