SPECIFICATION ApartSpec
CONSTANTS
  Actions = {a1, a2}
  Edits = {}
  Taps = {t1, t2}
  Questions = {q1}
  Options = {o1, o2}
  None = None
  MaxRefs = 3
  QuietUndo = TRUE
  Crashes = TRUE
SYMMETRY Symmetry
CHECK_DEADLOCK FALSE
INVARIANTS
  NothingRunsUnasked
  CheckpointPrecedesRun
  OpenCardHasAWaiter
PROPERTIES
  SnapshotsStay
  KeepsTimeline
