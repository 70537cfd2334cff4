SPECIFICATION FairSpec
CONSTANTS
  Topics = {"events", "health"}
  Calls <- StartupCalls
  Required = {"health"}
  MayClose = TRUE
  MaxFaults = 2
INVARIANTS Restored
PROPERTIES OutageHeals
CHECK_DEADLOCK FALSE
