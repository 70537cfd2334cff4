SPECIFICATION FairSpec
CONSTANTS
  Cameras = {c1}
  Event = Event
  NoCamera = NoCamera
  Threshold = 3
  Cooldown = 2
  Timeout = 2
  MaxClock = 9
  MaxInbox = 2
INVARIANTS OperatorInformed
PROPERTIES NoFalseOffline SilenceNoticed
CHECK_DEADLOCK FALSE
