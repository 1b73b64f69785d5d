SPECIFICATION DSpec
CONSTANTS
  c1 = c1
  c2 = c2
  c3 = c3
  c4 = c4
  t1 = t1
  t2 = t2
  Conn = {c2, c3}
  Topic = {t1}
  TopicOf <- OneTopic
  MayPanic = {c3}
  Capacity = 1
  MaxFaults = 1
  Remote = {}
  Stuck = {}
  Senders = {c2}
  MaxMessages = 2
INVARIANTS
  AtMostOnce
  RepliesInOrder
  DeliveryInv
  OrderUntilSpawned
  SendersAreNotStuck
PROPERTIES
  ServiceSpec
  BroadcastSpec
  LossesHaveReasons
CHECK_DEADLOCK FALSE
