SPECIFICATION FairSpec
CONSTANTS
  s1 = s1
  s2 = s2
  l1 = l1
  Suppressed = {s1, s2}
  Passed = {l1}
  Confidence <- MCConfidence
  DayLength = 2
  RawAge = 1
  DailyAge = 2
  MaxDelay = 1
  MaxTime = 4
  MaxFaults = 2
INVARIANTS CountedOnce EmbeddingKept
PROPERTIES OldRowsGo
CHECK_DEADLOCK FALSE
