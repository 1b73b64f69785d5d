SPECIFICATION Spec
CONSTANTS
  c1 = c1
  c2 = c2
  c3 = c3
  c4 = c4
  k1 = k1
  k2 = k2
  None = None
  Caller = {c1}
  Key = {k1, k2}
  KeyOf <- TwoKeys
  HasTimeout = FALSE
  Outcomes = {"ok", "timeoutLookalike"}
  Cancellable = {}
  MaxResets = 0
INVARIANTS
  FailuresAreCounted
CHECK_DEADLOCK FALSE
