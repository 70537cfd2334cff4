SPECIFICATION FairSpec
CONSTANTS
  Threads = {t1, t2}
  NoThread = NoThread
  MaxMsg = 3
  BestEffort = {3}
  EarlyOutage = FALSE
  Direct = {3}
  MayClose = TRUE
  MayCrash = TRUE
  MaxFaults = 3
INVARIANTS OneReconnector InOrder
PROPERTIES ImplementsQueue OutageHeals OutageDrained
CHECK_DEADLOCK FALSE
