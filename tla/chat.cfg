SPECIFICATION ChatSpec
CONSTANTS
  c1 = c1
  c2 = c2
  c3 = c3
  t1 = t1
  t2 = t2
  u1 = u1
  u2 = u2
  Nobody = Nobody
  NoToken = NoToken
  Malformed = Malformed
  Conn = {c1, c2, c3}
  Topic = {t1, t2}
  TopicOf <- ChatTopics
  MayPanic = {}
  Capacity = 1
  MaxFaults = 0
  Remote = {c3}
  Stuck = {}
  Senders = {c3}
  MaxMessages = 1
  User = {u1, u2}
  Token <- ChatTokens
  UserOf <- ChatUsers
  Requests <- ChatRequests
  Rights <- ChatRights
  Changeable = {}
  Private = {t1}
  OwnerOf <- ChatOwner
  Public = {t2}
INVARIANTS
  EventsStayOnTopic
  RoomsStayApart
  PrivateRoomsArePrivate
  ChatInv
PROPERTIES
  DeliverySpec
CHECK_DEADLOCK FALSE
