SPECIFICATION AFairSpec
CONSTANTS
  c1 = c1
  c2 = c2
  t1 = t1
  t2 = t2
  u1 = u1
  u2 = u2
  k1 = k1
  k2 = k2
  bad = bad
  Nobody = Nobody
  NoToken = NoToken
  Conn = {c1, c2}
  Topic = {t1, t2}
  TopicOf <- OwnTopics
  MayPanic = {c2}
  Capacity = 1
  MaxFaults = 1
  User = {u1, u2}
  Token = {k1, k2, bad}
  UserOf <- Owners
  Requests <- SomeRequests
  Rights <- SomeRights
  Changeable <- OneRight
INVARIANTS
  AcceptedWereGranted
  AdmissionInv
PROPERTIES
  RequestsAreAnswered
CHECK_DEADLOCK FALSE
