SPECIFICATION Spec
CONSTANTS
  Requests = {c1, c2}
  None = None
  MaxLinks = 2
  MaxVisits = 0
  Crashes = TRUE
SYMMETRY RequestSymmetry
CHECK_DEADLOCK FALSE
INVARIANTS
  AnswerStands
  ReplayNeedsRestart
PROPERTIES
  KeepsPromise
