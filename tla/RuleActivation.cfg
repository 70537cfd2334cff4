SPECIFICATION Spec
CONSTANTS
  Cameras = {c1, c2}
  Versions = {v1, v2}
  NoRules = NoRules
  NoCamera = NoCamera
  Readers = {r1}
  TTL = 1
  MaxClock = 1
  DiskFaults = TRUE
INVARIANTS BoundedStaleness OneCommittedRuleset
SYMMETRY Symmetry
CHECK_DEADLOCK FALSE
