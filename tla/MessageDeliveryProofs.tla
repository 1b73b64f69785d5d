------------------------ MODULE MessageDeliveryProofs ------------------------
(***************************************************************************)
(* The data path keeps to WebsocketService, whose theorems therefore hold  *)
(* of it, and no client ever gets an event of a topic that is not its own. *)
(***************************************************************************)
EXTENDS MessageDelivery, WebsocketServiceProofs

LEMMA DNextImplementsNext == [DNext]_dvars => [Next]_vars
<1> SUFFICES ASSUME [DNext]_dvars PROVE [Next]_vars
  OBVIOUS
<1>1. ASSUME NEW c \in Conn, ConnectionStep(c) PROVE Next
  BY <1>1 DEF ConnectionStep, LeaveLoop, Next
<1>2. CASE ListenerTurn \/ LinkLost
  BY <1>2 DEF ListenerTurn, LinkLost, Next
<1>3. ASSUME NEW c \in Conn, SocketBreaks(c) \/ HandlerStep(c) \/ PublishStep(c) \/ SendReply(c)
      PROVE  UNCHANGED vars
  BY <1>3
  DEF SocketBreaks, HandlerStep, ReadMessage, HandleDirect, HandleBroadcast,
      PublishStep, Publish, PublishFails, SendReply, Proceed
<1>4. CASE TakeEvent \/ FanOut
  BY <1>4 DEF TakeEvent, FanOut, Dispatch
<1>5. ASSUME NEW s \in sends, Deliver(s) \/ DeliverFails(s) PROVE UNCHANGED vars
  BY <1>5 DEF Deliver, DeliverFails
<1>6. CASE UNCHANGED dvars
  BY <1>6 DEF dvars
<1>7. QED
  BY <1>1, <1>2, <1>3, <1>4, <1>5, <1>6 DEF DNext, KitStep

(* Every behaviour of the node with its data path is one of the registry,  *)
(* the command channel and the listener.                                   *)
THEOREM DeliveryImplementsService == DSpec => ServiceSpec
<1>1. DInit => Init
  BY DEF DInit
<1>2. QED
  BY <1>1, DNextImplementsNext, PTL DEF DSpec, Spec, ServiceSpec

-----------------------------------------------------------------------------
LEMMA AppendedElements ==
  ASSUME NEW S, NEW q \in Seq(S), NEW e \in S
  PROVE  \A i \in 1 .. Len(Append(q, e)) :
           \/ i \in 1 .. Len(q) /\ Append(q, e)[i] = q[i]
           \/ Append(q, e)[i] = e
OBVIOUS

LEMMA InitOnTopic == DInit => OnTopicInv
<1> SUFFICES ASSUME DInit PROVE OnTopicInv
  OBVIOUS
<1>1. TypeOK /\ RegistryInv
  BY InitType, InitRegistry DEF DInit
<1>2. QED
  BY <1>1, DeliveryAssumption
  DEF DeliveryAssumption, DInit, OnTopicInv, DTypeOK, RecvState, EventsStayOnTopic

LEMMA NextOnTopic == OnTopicInv /\ [DNext]_dvars => OnTopicInv'
<1> SUFFICES ASSUME OnTopicInv, [DNext]_dvars PROVE OnTopicInv'
  OBVIOUS
<1>1. TypeOK' /\ RegistryInv'
  <2>1. TypeOK /\ RegistryInv
    BY DEF OnTopicInv, DTypeOK
  <2>2. QED
    BY <2>1, DNextImplementsNext, NextType, NextRegistry
<1>0. ASSUME NEW c \in Conn, recv[c] # "reading"
      PROVE  EventOf(c) \in Event /\ ReplyTo(c) \in Reply
  <2>1. read[c] \in 1 .. MaxMessages
    BY <1>0, DeliveryAssumption DEF DeliveryAssumption, OnTopicInv, DTypeOK
  <2>2. QED
    BY <2>1 DEF EventOf, ReplyTo, Event, Reply
<1> USE <1>1, ServiceAssumption, DeliveryAssumption
    DEF ServiceAssumption, DeliveryAssumption, OnTopicInv, DTypeOK,
        EventsStayOnTopic, RecvState
<1>2. ASSUME NEW c \in Conn, ConnectionStep(c) \/ SocketBreaks(c) PROVE OnTopicInv'
  BY <1>2 DEF ConnectionStep, SocketBreaks, deliveryVars
<1>3. CASE ListenerTurn
  BY <1>3 DEF ListenerTurn
<1>4. CASE LinkLost
  <2>1. \A k \in 0 .. Len(wire) : SubSeq(wire, 1, k) \in Seq(Event)
    OBVIOUS
  <2>2. QED
    BY <1>4, <2>1 DEF LinkLost
<1>5. ASSUME NEW c \in Conn, ReadMessage(c) PROVE OnTopicInv'
  BY <1>5 DEF ReadMessage, Proceed
<1>6. ASSUME NEW c \in Conn, HandleDirect(c) \/ HandleBroadcast(c) PROVE OnTopicInv'
  <2>1. /\ recv' \in [Conn -> RecvState]
        /\ recv[c] # "reading"
        /\ \A d \in Conn : recv'[d] = recv[d] \/ d = c
    BY <1>6 DEF HandleDirect, HandleBroadcast, Proceed
  <2>2. UNCHANGED <<read, wire, fan, sends, out, broken>>
    BY <1>6 DEF HandleDirect, HandleBroadcast, Proceed
  <2>3. QED
    BY <2>1, <2>2
<1>7. ASSUME NEW c \in Conn, Publish(c) \/ PublishFails(c) PROVE OnTopicInv'
  <2>1. EventOf(c) \in Event
    BY <1>7, <1>0 DEF Publish, PublishFails, Proceed
  <2>2. wire' \in Seq(Event)
    <3>1. Append(wire, EventOf(c)) \in Seq(Event)
      BY <2>1
    <3>2. QED
      BY <1>7, <3>1 DEF Publish, PublishFails, RedisTakes
  <2>3. QED
    BY <1>7, <2>2 DEF Publish, PublishFails, Proceed, AfterFailure
<1>8. ASSUME NEW c \in Conn, SendReply(c) PROVE OnTopicInv'
  <2>1. ReplyTo(c) \in Reply
    BY <1>8, <1>0 DEF SendReply, Proceed
  <2>2. out' \in [Conn -> Seq(Event \cup Reply)]
    <3>1. Append(out[c], ReplyTo(c)) \in Seq(Event \cup Reply)
      BY <2>1
    <3>2. QED
      BY <1>8, <3>1 DEF SendReply, WriteReply
  <2>3. EventsStayOnTopic'
    <3>1. \A i \in 1 .. Len(Append(out[c], ReplyTo(c))) :
            \/ i \in 1 .. Len(out[c]) /\ Append(out[c], ReplyTo(c))[i] = out[c][i]
            \/ Append(out[c], ReplyTo(c))[i].kind = "reply"
      <4>1. out[c] \in Seq(Event \cup Reply) /\ ReplyTo(c) \in Event \cup Reply
        BY <2>1
      <4>2. ReplyTo(c).kind = "reply"
        BY DEF ReplyTo
      <4>3. QED
        BY <4>1, <4>2, AppendedElements
    <3>2. \A d \in Conn :
            out'[d] = out[d] \/ (d = c /\ out'[d] = Append(out[c], ReplyTo(c)))
      BY <1>8 DEF SendReply, WriteReply
    <3>3. ASSUME NEW d \in Conn, NEW i \in 1 .. Len(out'[d]), out'[d][i].kind = "event"
          PROVE  TopicOf[out'[d][i].from] = TopicOf[d]
      <4>1. CASE out'[d] = out[d]
        BY <3>3, <4>1
      <4>2. CASE d = c /\ out'[d] = Append(out[c], ReplyTo(c))
        <5>1. i \in 1 .. Len(out[c]) /\ out'[d][i] = out[c][i]
          BY <3>1, <3>3, <4>2
        <5>2. QED
          BY <3>3, <4>2, <5>1
      <4>3. QED
        BY <3>2, <4>1, <4>2
    <3>4. QED
      BY <3>3
  <2>4. QED
    BY <1>8, <2>2, <2>3 DEF SendReply, WriteReply, Proceed
<1>9. CASE TakeEvent
  <2>1. /\ Head(wire) \in Event /\ wire' \in Seq(Event)
        /\ TopicOf[Head(wire).from] \in Topic
    <3>1. wire \in Seq(Event) /\ wire # <<>>
      BY <1>9 DEF TakeEvent
    <3>2. Head(wire) \in Event /\ Tail(wire) \in Seq(Event)
      BY <3>1
    <3>3. TopicOf[Head(wire).from] \in Topic
      BY <3>2 DEF Event
    <3>4. QED
      BY <1>9, <3>2, <3>3 DEF TakeEvent
  <2>2. \A s \in fan' : s \in PendingSend /\ TopicOf[s.event.from] = TopicOf[s.to]
    <3>1. PICK t \in Topic : t = TopicOf[Head(wire).from]
      BY <2>1
    <3>2. \A c \in subscriptions[t] : c \in Conn /\ TopicOf[c] = t
      BY DEF RegistryInv, MembersHaveSinks, TypeOK
    <3>3. fan' = {[to |-> c, event |-> Head(wire)] : c \in subscriptions[t]}
      BY <1>9, <3>1 DEF TakeEvent, Recipients
    <3>4. ASSUME NEW c \in subscriptions[t], NEW s, s = [to |-> c, event |-> Head(wire)]
          PROVE  s \in PendingSend /\ TopicOf[s.event.from] = TopicOf[s.to]
      <4>1. s.to = c /\ s.event = Head(wire)
        BY <3>4
      <4>2. QED
        BY <2>1, <3>1, <3>2, <3>4, <4>1 DEF PendingSend
    <3>5. QED
      BY <3>3, <3>4
  <2>3. QED
    BY <1>9, <2>1, <2>2 DEF TakeEvent
<1>10. CASE FanOut
  BY <1>10 DEF FanOut, Dispatch, Undone
<1>11. ASSUME NEW s \in sends, Deliver(s) PROVE OnTopicInv'
  <2>1. s.to \in Conn /\ s.event \in Event /\ TopicOf[s.event.from] = TopicOf[s.to]
    BY DEF PendingSend
  <2>2. out' \in [Conn -> Seq(Event \cup Reply)]
    BY <1>11, <2>1 DEF Deliver
  <2>3. EventsStayOnTopic'
    BY <1>11, <2>1 DEF Deliver
  <2>4. QED
    BY <1>11, <2>2, <2>3 DEF Deliver
<1>12. ASSUME NEW s \in sends, DeliverFails(s) PROVE OnTopicInv'
  BY <1>12 DEF DeliverFails
<1>13. CASE UNCHANGED dvars
  BY <1>13 DEF dvars, deliveryVars
<1>14. QED
  BY <1>2, <1>3, <1>4, <1>5, <1>6, <1>7, <1>8, <1>9, <1>10, <1>11, <1>12, <1>13
  DEF DNext, HandlerStep, KitStep, PublishStep

(* The ids of an event's copies and the frames written are those of the    *)
(* event's topic, and every variable has its type.                         *)
THEOREM DeliveryStaysOnTopic == DSpec => []OnTopicInv
BY InitOnTopic, NextOnTopic, PTL DEF DSpec

(* The variables of the data path keep their types.                        *)
THEOREM DeliveryTypeCorrect == DSpec => []DTypeOK
<1>1. OnTopicInv => DTypeOK
  BY DEF OnTopicInv
<1>2. QED
  BY <1>1, DeliveryStaysOnTopic, PTL

(* No client gets an event of another topic, although the ids are copied,  *)
(* the sinks looked up and the frames written at different moments.        *)
THEOREM EventsAlwaysStayOnTopic == DSpec => []EventsStayOnTopic
<1>1. OnTopicInv => EventsStayOnTopic
  BY DEF OnTopicInv
<1>2. QED
  BY <1>1, DeliveryStaysOnTopic, PTL
=============================================================================
