SPECIFICATION Spec
CONSTANTS
  Launches = {l1, l2, l3}
  NoTail = NoTail
  MaxRuns = 2
  NAgents = 2
  PromptUnwind = FALSE
  Crashes = TRUE
CHECK_DEADLOCK FALSE
SYMMETRY LaunchSymmetry
INVARIANTS
  CancelledIsQuiet
  NoOrphanAgent
PROPERTIES
  TerminalSticks
