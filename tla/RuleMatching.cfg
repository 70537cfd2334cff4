SPECIFICATION Spec
CONSTANTS
  None = None
  Day = 12
  Events <- MCEvents
  Rules <- MCRules
  Scenes <- MCScenes
INVARIANTS GateExact HistoryCoversGate ZoneExact WindowExact
CHECK_DEADLOCK FALSE
