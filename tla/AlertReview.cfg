SPECIFICATION ReviewSpec
CONSTANTS
  routine = routine
  overridden = overridden
  a1 = a1
  Keys = {routine, overridden}
  Cooldown <- TwoKinds
  Callers = {s1, r1, r2}
  Reviewers = {r1, r2}
  Alerts = {a1}
  KeyOf <- OfRoutine
  NoCaller = NoCaller
  NoKey = NoKey
  NumChannels = 2
  Suspending = {1}
  MayFail = {1}
  MaxClock = 2
  MaxSuppressed = 1
SYMMETRY Symmetry
INVARIANTS NoDuplicate SuppressedIsDuplicate EscalatedHeard
CHECK_DEADLOCK FALSE
