SPECIFICATION FairSpec
CONSTANTS
  c1 = c1
  c2 = c2
  c3 = c3
  c4 = c4
  t1 = t1
  t2 = t2
  Conn = {c1}
  Topic = {t1}
  TopicOf <- OneTopic
  MayPanic = {}
  Capacity = 100
  MaxFaults = 1
PROPERTIES
  ServedClientsStaySubscribed
CHECK_DEADLOCK FALSE
