SPECIFICATION HFairSpec
CONSTANTS
  c1 = c1
  c2 = c2
  c3 = c3
  t1 = t1
  t2 = t2
  Conn = {c1, c2, c3}
  Topic = {t1, t2}
  TopicOf <- OneTopic
  MayPanic = {c1}
  Capacity = 2
  MaxFaults = 1
INVARIANTS
  TypeOK
  MembersHaveSinks
  EmptyEntriesAreDropped
  MembersAreListed
  LiveTopicsAreForwarded
  ForwardedTopicsAreLive
  TrackingInv
PROPERTIES
  AcceptedAreServed
  ClosedAreCleanedUp
  CommandRevivesLink
  ServedAreForwarded
CHECK_DEADLOCK FALSE
