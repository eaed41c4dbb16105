SPECIFICATION Spec
CONSTANTS
  Launches = {l1, l2, l3, l4}
  NoTail = NoTail
  MaxRuns = 1
  NAgents = 1
  PromptUnwind = TRUE
  Crashes = FALSE
CHECK_DEADLOCK FALSE
SYMMETRY LaunchSymmetry
INVARIANTS
  OneTurnAtATime
