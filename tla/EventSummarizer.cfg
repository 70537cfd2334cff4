SPECIFICATION FairSpec
CONSTANTS
  NumTasks = 2
  Period <- MCPeriod
  Events = {e1}
  MaxFaults = 2
INVARIANTS ReportedOnce
PROPERTIES SleepReported SummariesGoOn
CHECK_DEADLOCK FALSE
