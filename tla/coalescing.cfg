SPECIFICATION FairSpec
CONSTANTS
  c1 = c1
  c2 = c2
  c3 = c3
  c4 = c4
  k1 = k1
  k2 = k2
  None = None
  Caller = {c1, c2, c3}
  Key = {k1, k2}
  KeyOf <- TwoKeys
  HasTimeout = TRUE
  Outcomes = {"ok", "err", "timeoutLookalike", "panic"}
  Cancellable = {c2, c3}
  MaxResets = 1
INVARIANTS
  TypeOK
  SingleFlight
  EntriesAreLive
  AnswersAreForTheKey
  CallsAreCounted
  ErrorsAreCountedOnce
  CoalescingInv
  NoCircularWait
PROPERTIES
  FlightsSpec
  AnswersAreFresh
  UndisturbedCallsReturn
  UndisturbedCleanupRuns
CHECK_DEADLOCK FALSE
