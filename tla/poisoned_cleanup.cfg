SPECIFICATION FairSpec
CONSTANTS
  c1 = c1
  c2 = c2
  c3 = c3
  c4 = c4
  k1 = k1
  k2 = k2
  None = None
  Caller = {c2}
  Key = {k1, k2}
  KeyOf <- TwoKeys
  HasTimeout = TRUE
  Outcomes = {"ok", "panic"}
  Cancellable = {}
  MaxResets = 0
PROPERTIES
  CleanupAlwaysRuns
CHECK_DEADLOCK FALSE
