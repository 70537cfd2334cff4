SPECIFICATION FairSpec
CONSTANTS
  Events = {e1, e2, e3}
  NoEvent = NoEvent
  Suspends = FALSE
  Slow = TRUE
  Faults = {"AlertTool", "Insert"}
INVARIANTS Accounted AlertsInOrder
PROPERTIES ShutdownEnds EventDecided
CHECK_DEADLOCK FALSE
