SPECIFICATION LedgerSpec
CONSTANTS
  Compactors = {"pm"}
  MaxTime = 2
  MaxEvents = 3
  MaxPoints = 3
  Anchors = 12
INVARIANTS
  AnchorsStay
CHECK_DEADLOCK FALSE
