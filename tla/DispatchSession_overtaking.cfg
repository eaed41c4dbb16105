SPECIFICATION Spec
CONSTANTS
  Launches = {l1, l2, l3, l4}
  NoTail = NoTail
  MaxRuns = 1
  NAgents = 1
  PromptUnwind = FALSE
  Crashes = FALSE
CHECK_DEADLOCK FALSE
INVARIANTS
  OneTurnAtATime
