SPECIFICATION UpdaterSpec
CONSTANTS
  Apps = {p1, p2}
INVARIANTS
  CancelIsKept
CHECK_DEADLOCK FALSE
