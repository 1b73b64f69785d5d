---------------------------- MODULE BasicChatProofs ----------------------------
(***************************************************************************)
(* The chat keeps its rooms apart, for any users, tokens and topics.  Each *)
(* of the three checks it makes is made once and at another place: of the  *)
(* token by the extractor, of the topic before the upgrade, of the room in *)
(* the handler.  The invariant carries what each of them found to where a  *)
(* frame is written: that an event, wherever it is, comes from a text for  *)
(* its sender's topic, and that whoever reads or writes has come in.       *)
(***************************************************************************)
EXTENDS BasicChat, BroadcastProofs, AdmissionProofs

LEMMA ChatNextImplementsDNext == [ChatNext]_bvars => [DNext]_dvars
<1> SUFFICES ASSUME [ChatNext]_bvars PROVE [DNext]_dvars
  OBVIOUS
<1>1. ASSUME NEW c \in Conn, Hear(c) PROVE HandlerStep(c)
  BY <1>1 DEF Hear, AfterRead, HandlerStep, ReadMessage
<1>2. ASSUME NEW c \in Conn, Think(c) PROVE HandlerStep(c)
  BY <1>2
  DEF Think, AfterDirect, AfterBroadcast, HandlerStep, HandleDirect, HandleBroadcast
<1>3. QED
  BY <1>1, <1>2 DEF ChatNext, ChatStep, DNext, bvars

(* The example decides about every message as the kit lets a handler do,   *)
(* and so what is proved of the data path holds of the chat.               *)
THEOREM ChatImplementsDelivery == ChatSpec => DeliverySpec
<1>1. ChatInit => DInit
  BY DEF ChatInit
<1>2. QED
  BY <1>1, ChatNextImplementsDNext, PTL DEF ChatSpec, DeliverySpec, DSpec

(* So the clients of the chat are promised what Broadcast promises.        *)
THEOREM ChatImplementsBroadcast == ChatSpec => BroadcastSpec
BY ChatImplementsDelivery, DeliveryImplementsBroadcast DEF DeliverySpec

-----------------------------------------------------------------------------
LEMMA InitChat == ChatInit => ChatInv
<1> SUFFICES ASSUME ChatInit PROVE ChatInv
  OBVIOUS
<1>1. OnTopicInv
  BY InitOnTopic DEF ChatInit
<1>2. SaidOK
  BY DEF ChatInit, DInit, SaidOK
<1>3. DoorTypeOK /\ granted = Rights
  BY AdmissionAssumption
  DEF AdmissionAssumption, ChatInit, DoorInit, DoorTypeOK, DoorState
<1>4. QED
  BY <1>1, <1>2, <1>3
  DEF ChatInit, DInit, Init, DoorInit, ChatInv, EnteredMayUse

(* The receive loop adds to what was said and counts it; what was said     *)
(* before stays.                                                           *)
LEMMA NextSaid ==
  ASSUME ChatInv, [ChatNext]_bvars
  PROVE  /\ SaidOK'
         /\ \A c \in Conn : read'[c] >= read[c] /\ \A n \in 1 .. read[c] : said'[c][n] = said[c][n]
<1> USE DEF ChatInv, SaidOK, OnTopicInv, DTypeOK
<1> DEFINE Kept(c) == read'[c] >= read[c] /\ \A n \in 1 .. read[c] : said'[c][n] = said[c][n]
<1>1. ASSUME NEW c \in Conn, Hear(c) PROVE SaidOK' /\ \A d \in Conn : Kept(d)
  <2>1. PICK msg \in Message : said' = [said EXCEPT ![c] = Append(@, msg)]
    BY <1>1 DEF Hear
  <2>2. said[c] \in Seq(Message) /\ Len(said[c]) = read[c] /\ read[c] \in Nat
    BY DeliveryAssumption DEF DeliveryAssumption
  <2>3. /\ Append(said[c], msg) \in Seq(Message)
        /\ Len(Append(said[c], msg)) = read[c] + 1
        /\ \A n \in 1 .. read[c] : Append(said[c], msg)[n] = said[c][n]
    BY <2>2
  <2>4. read' = [read EXCEPT ![c] = @ + 1]
    BY <1>1 DEF Hear
  <2>5. QED
    BY <2>1, <2>2, <2>3, <2>4, DeliveryAssumption DEF DeliveryAssumption
<1>2. CASE UNCHANGED <<said, read>>
  BY <1>2, DeliveryAssumption DEF DeliveryAssumption
<1>3. [ChatNext]_bvars => UNCHANGED <<said, read>> \/ \E c \in Conn : Hear(c)
  <2>1. KitStep => UNCHANGED read
    BY DEF KitStep, ConnectionStep, SocketBreaks, PublishStep, Publish, PublishFails,
       SendReply, ListenerTurn, LinkLost, TakeEvent, FanOut, Dispatch, Deliver,
       DeliverFails, deliveryVars
  <2>2. QED
    BY <2>1 DEF ChatNext, ChatStep, Think, bvars, dvars, deliveryVars
<1>4. QED
  BY <1>1, <1>2, <1>3

LEMMA RoomIsRemembered ==
  ASSUME ChatInv, [ChatNext]_bvars, NEW e \in Event, ForItsRoom(e)
  PROVE  ForItsRoom(e)'
<1>1. e.from \in Conn /\ e.n \in 1 .. MaxMessages
  BY DEF Event
<1>2. /\ read[e.from] \in Nat /\ read'[e.from] >= read[e.from]
      /\ \A n \in 1 .. read[e.from] : said'[e.from][n] = said[e.from][n]
      /\ read'[e.from] \in Nat
  <2>1. OnTopicInv'
    BY NextOnTopic, ChatNextImplementsDNext DEF ChatInv
  <2>2. QED
    BY <1>1, <2>1, NextSaid, DeliveryAssumption
    DEF DeliveryAssumption, ChatInv, OnTopicInv, DTypeOK
<1>3. QED
  BY <1>1, <1>2, DeliveryAssumption DEF DeliveryAssumption, ForItsRoom

LEMMA NextDoor ==
  ASSUME ChatInv, [ChatNext]_bvars
  PROVE  /\ DoorTypeOK' /\ granted' = Rights /\ EnteredMayUse'
         /\ \A c \in Conn : pc[c] # "idle" => pc'[c] # "idle"
<1> USE AdmissionAssumption, ServiceAssumption, ChatAssumption
    DEF AdmissionAssumption, ServiceAssumption
<1>1. OnTopicInv /\ TypeOK /\ DoorTypeOK /\ granted = Rights /\ EnteredMayUse
  BY DEF ChatInv, OnTopicInv, DTypeOK
<1>2. [DNext]_dvars /\ [Next]_vars
  BY ChatNextImplementsDNext, DNextImplementsNext
<1>3. \A c \in Conn : pc[c] # "idle" => pc'[c] # "idle"
  BY <1>1, <1>2, IdleIsLeftOnce
<1> DEFINE Came(c) == pc[c] # "idle" \/ read[c] > 0 \/ out[c] # <<>>
<1>4. CASE UNCHANGED <<pc, read, out, doorVars>>
  BY <1>1, <1>4 DEF doorVars, DoorTypeOK, EnteredMayUse
<1>5. ASSUME NEW c \in Conn, ChatStep(c), UNCHANGED doorVars
      PROVE  DoorTypeOK' /\ granted' = Rights /\ EnteredMayUse'
  <2>1. UNCHANGED <<pc, out>> /\ \A d \in Conn : d # c => read'[d] = read[d]
    BY <1>1, <1>5, DeliveryAssumption
    DEF DeliveryAssumption, ChatStep, Hear, Think, Proceed, vars, ChatInv, OnTopicInv, DTypeOK
  <2>2. pc[c] = "serving" \/ door[c] = "entered" \/ read' = read
    BY <1>5 DEF ChatStep, Hear, Think, Proceed
  <2>3. QED
    BY <1>1, <1>5, <2>1, <2>2 DEF doorVars, DoorTypeOK, EnteredMayUse
<1>6. ASSUME NEW c \in Conn, AdmissionStep(c) \/ EnterElsewhere(c), UNCHANGED <<dvars, said>>
      PROVE  DoorTypeOK' /\ granted' = Rights /\ EnteredMayUse'
  <2>1. UNCHANGED <<pc, read, out>>
    BY <1>6 DEF dvars, vars, deliveryVars
  <2>2. CASE Request(c)
    BY <1>1, <2>1, <2>2 DEF Request, Pass, DoorTypeOK, DoorState, EnteredMayUse
  <2>3. CASE Authenticate(c)
    <3>1. Identity(c) \in User \cup {Nobody}
      BY <1>1 DEF DoorTypeOK, Identity, TokenIn, NoRequest
    <3>2. QED
      BY <1>1, <2>1, <2>3, <3>1 DEF Authenticate, Pass, DoorTypeOK, DoorState, EnteredMayUse
  <2>4. CASE Authorise(c)
    <3>1. IsGranted(c) => user[c] \in User /\ MayUse(user[c], TopicOf[c])
      BY <1>1 DEF IsGranted
    <3>2. QED
      BY <1>1, <2>1, <2>4, <3>1 DEF Authorise, Pass, DoorTypeOK, DoorState, EnteredMayUse
  <2>5. CASE UpgradeFails(c)
    BY <1>1, <2>1, <2>5 DEF UpgradeFails, Pass, DoorTypeOK, DoorState, EnteredMayUse
  <2>6. CASE EnterElsewhere(c)
    BY <1>1, <2>1, <2>6 DEF EnterElsewhere, Ready, Pass, DoorTypeOK, DoorState, EnteredMayUse
  <2>7. QED
    BY <1>6, <2>2, <2>3, <2>4, <2>5, <2>6 DEF AdmissionStep
<1>7. ASSUME KitStep, Gate
      PROVE  DoorTypeOK' /\ granted' = Rights /\ EnteredMayUse'
  <2>1. UNCHANGED read
    BY <1>7
    DEF KitStep, ConnectionStep, SocketBreaks, PublishStep, Publish, PublishFails,
        SendReply, ListenerTurn, LinkLost, TakeEvent, FanOut, Dispatch, Deliver,
        DeliverFails, deliveryVars
  <2>2. \A d \in Conn : out'[d] # <<>> => Came(d)
    <3>1. ASSUME NEW c \in Conn, SendReply(c) PROVE \A d \in Conn : out'[d] # <<>> => Came(d)
      <4>1. recv[c] # "reading" /\ out \in [Conn -> Seq(Event \cup Reply)]
        BY <1>1, <3>1 DEF SendReply, Proceed, OnTopicInv, DTypeOK
      <4>2. read[c] > 0
        BY <1>1, <4>1 DEF OnTopicInv
      <4>3. QED
        BY <3>1, <4>1, <4>2 DEF SendReply, WriteReply
    <3>2. ASSUME NEW s \in sends, Deliver(s) PROVE \A d \in Conn : out'[d] # <<>> => Came(d)
      <4>1. pc[s.to] # "idle"
        BY DEF ChatInv
      <4>2. QED
        BY <3>2, <4>1, <1>1 DEF Deliver, OnTopicInv, DTypeOK
    <3>3. KitStep => \/ UNCHANGED out
                     \/ \E c \in Conn : SendReply(c)
                     \/ \E s \in sends : Deliver(s)
      BY DEF KitStep, ConnectionStep, SocketBreaks, PublishStep, Publish, PublishFails,
         ListenerTurn, LinkLost, TakeEvent, FanOut, Dispatch, DeliverFails, deliveryVars
    <3>4. QED
      BY <1>7, <3>1, <3>2, <3>3
  <2>3. /\ \A c \in Conn : pc[c] = "idle" /\ pc'[c] # "idle" => door[c] = "upgrading"
        /\ door' = [c \in Conn |-> IF pc[c] = "idle" /\ pc'[c] # "idle"
                                   THEN "entered" ELSE door[c]]
        /\ UNCHANGED <<request, user, granted, since>>
    BY <1>7 DEF Gate, Accepted, Ready
  <2>4. DoorTypeOK' /\ granted' = Rights
    BY <1>1, <2>3 DEF DoorTypeOK, DoorState
  <2>5. ASSUME NEW d \in Conn
        PROVE  /\ door'[d] \in {"upgrading", "entered"} => user'[d] \in User /\ MayUse(user'[d], TopicOf[d])
               /\ pc'[d] # "idle" \/ read'[d] > 0 \/ out'[d] # <<>> => door'[d] = "entered"
    BY <1>1, <2>1, <2>2, <2>3 DEF EnteredMayUse
  <2>6. QED
    BY <2>4, <2>5 DEF EnteredMayUse
<1>8. CASE UNCHANGED bvars
  BY <1>4, <1>8 DEF bvars, dvars, vars, deliveryVars
<1>9. QED
  BY <1>3, <1>5, <1>6, <1>7, <1>8 DEF ChatNext

LEMMA PerhapsAppended ==
  ASSUME NEW S, NEW q \in Seq(S), NEW e \in S, NEW r, r = q \/ r = Append(q, e)
  PROVE  \A i \in 1 .. Len(r) :
           r[i] \in S /\ (r[i] = e \/ (i \in 1 .. Len(q) /\ r[i] = q[i]))
OBVIOUS

(* One part of the invariant per place an event can be in.                 *)
LEMMA NextRooms ==
  ASSUME ChatInv, [ChatNext]_bvars
  PROVE  /\ (\A c \in Conn : recv[c] = "publishing" => ForItsRoom(EventOf(c)))'
         /\ (\A i \in 1 .. Len(wire) : ForItsRoom(wire[i]))'
         /\ (\A s \in fan \cup sends : ForItsRoom(s.event) /\ pc[s.to] # "idle")'
         /\ (\A c \in Conn : \A i \in 1 .. Len(out[c]) :
               out[c][i].kind = "event" => ForItsRoom(out[c][i]))'
<1> DEFINE
      PublishOK == \A c \in Conn : recv[c] = "publishing" => ForItsRoom(EventOf(c))
      WireOK == \A i \in 1 .. Len(wire) : ForItsRoom(wire[i])
      SendsOK == \A s \in fan \cup sends : ForItsRoom(s.event) /\ pc[s.to] # "idle"
      OutOK == \A c \in Conn : \A i \in 1 .. Len(out[c]) :
                 out[c][i].kind = "event" => ForItsRoom(out[c][i])
<1>1. /\ recv \in [Conn -> RecvState] /\ read \in [Conn -> 0 .. MaxMessages]
      /\ wire \in Seq(Event) /\ fan \cup sends \subseteq PendingSend
      /\ out \in [Conn -> Seq(Event \cup Reply)]
      /\ \A c \in Conn : recv[c] # "reading" => read[c] > 0
      /\ said \in [Conn -> Seq(Message)] /\ \A c \in Conn : Len(said[c]) = read[c]
      /\ PublishOK /\ WireOK /\ SendsOK /\ OutOK
  BY DEF ChatInv, OnTopicInv, DTypeOK, SaidOK
<1>2. \A e \in Event : ForItsRoom(e) => ForItsRoom(e)'
  BY RoomIsRemembered
<1>3. \A c \in Conn : pc[c] # "idle" => pc'[c] # "idle"
  BY NextDoor
<1>4. \A f \in Event \cup Reply : f.kind = "event" => f \in Event
  BY DEF Event, Reply
<1>5. \A s \in PendingSend : s.event \in Event /\ s.to \in Conn
  BY DEF PendingSend
<1>6. ASSUME NEW c \in Conn, recv[c] # "reading" PROVE EventOf(c) \in Event
  BY <1>1, <1>6, DeliveryAssumption DEF DeliveryAssumption, EventOf, Event
<1>7. ASSUME UNCHANGED read, \A c \in Conn : recv'[c] = "publishing" => recv[c] = "publishing"
      PROVE  PublishOK'
  <2>1. ASSUME NEW c \in Conn, recv'[c] = "publishing" PROVE ForItsRoom(EventOf(c))'
    <3>1. EventOf(c) \in Event /\ ForItsRoom(EventOf(c)) /\ EventOf(c)' = EventOf(c)
      BY <1>1, <1>6, <1>7, <2>1 DEF EventOf
    <3>2. QED
      BY <1>2, <3>1 DEF ForItsRoom
  <2>2. QED
    BY <2>1
<1>8. ASSUME \A i \in 1 .. Len(wire') : \E j \in 1 .. Len(wire) : wire'[i] = wire[j]
      PROVE  WireOK'
  <2>1. ASSUME NEW i \in 1 .. Len(wire') PROVE wire'[i] \in Event /\ ForItsRoom(wire'[i])
    BY <1>1, <1>8
  <2>2. QED
    BY <1>2, <2>1 DEF ForItsRoom
<1>9. ASSUME (fan \cup sends)' \subseteq fan \cup sends PROVE SendsOK'
  BY <1>1, <1>2, <1>3, <1>5, <1>9
<1>10. ASSUME UNCHANGED out PROVE OutOK'
  <2>1. ASSUME NEW c \in Conn, NEW i \in 1 .. Len(out[c]), out[c][i].kind = "event"
        PROVE  out[c][i] \in Event /\ ForItsRoom(out[c][i])
    <3>1. out[c][i] \in Event \cup Reply
      BY <1>1
    <3>2. QED
      BY <1>1, <1>4, <2>1, <3>1
  <2>2. QED
    BY <1>2, <1>10, <2>1 DEF ForItsRoom
<1>11. ASSUME NEW c \in Conn, Hear(c)
       PROVE  PublishOK' /\ WireOK' /\ SendsOK' /\ OutOK'
  <2>1. UNCHANGED <<wire, fan, sends, out>>
    BY <1>11 DEF Hear, Proceed
  <2>2. recv'[c] # "publishing" /\ \A d \in Conn : d # c => UNCHANGED <<recv[d], read[d]>>
    BY <1>1, <1>11 DEF Hear, Proceed, AfterRead
  <2>3. ASSUME NEW d \in Conn, recv'[d] = "publishing" PROVE ForItsRoom(EventOf(d))'
    <3>1. EventOf(d) \in Event /\ ForItsRoom(EventOf(d)) /\ EventOf(d)' = EventOf(d)
      BY <1>1, <1>6, <2>2, <2>3 DEF EventOf
    <3>2. QED
      BY <1>2, <3>1 DEF ForItsRoom
  <2>4. QED
    BY <1>8, <1>9, <1>10, <2>1, <2>3
<1>12. ASSUME NEW c \in Conn, Think(c)
       PROVE  PublishOK' /\ WireOK' /\ SendsOK' /\ OutOK'
  <2>1. UNCHANGED <<wire, fan, sends, out, read, said>>
    BY <1>12 DEF Think, Proceed
  <2>2. \A d \in Conn : d # c => recv'[d] = recv[d]
    BY <1>1, <1>12 DEF Think, Proceed
  <2>3. ASSUME recv'[c] = "publishing" PROVE ForItsRoom(EventOf(c))
    <3>1. Last(c).kind = "SendMessage" /\ Last(c).room = TopicOf[c]
      BY <1>1, <1>12, <2>3 DEF Think, Proceed, AfterDirect, AfterBroadcast
    <3>2. Last(c) \in Message /\ read[c] \in Nat
      BY <1>1, <1>12, DeliveryAssumption DEF DeliveryAssumption, Think, Last
    <3>3. Last(c) = [kind |-> "SendMessage", room |-> TopicOf[c]]
      BY <3>1, <3>2 DEF Message
    <3>4. QED
      BY <3>2, <3>3 DEF Last, EventOf, ForItsRoom
  <2>4. ASSUME NEW d \in Conn, recv'[d] = "publishing" PROVE ForItsRoom(EventOf(d))'
    <3>1. ForItsRoom(EventOf(d))
      BY <1>1, <2>2, <2>3, <2>4
    <3>2. QED
      BY <2>1, <3>1 DEF ForItsRoom, EventOf
  <2>5. QED
    BY <1>8, <1>9, <1>10, <2>1, <2>4
<1>13. ASSUME NEW c \in Conn, PublishStep(c)
       PROVE  PublishOK' /\ WireOK' /\ SendsOK' /\ OutOK'
  <2>1. /\ UNCHANGED <<read, fan, sends, out>> /\ recv[c] = "publishing"
        /\ \A d \in Conn : recv'[d] = "publishing" => recv[d] = "publishing"
    BY <1>1, <1>13 DEF PublishStep, Publish, PublishFails, Proceed
  <2>2. EventOf(c) \in Event /\ ForItsRoom(EventOf(c))
    BY <1>1, <1>6, <2>1
  <2>3. wire' = wire \/ wire' = Append(wire, EventOf(c))
    BY <1>13 DEF PublishStep, Publish, PublishFails, RedisTakes
  <2>4. \A i \in 1 .. Len(Append(wire, EventOf(c))) :
          \/ i \in 1 .. Len(wire) /\ Append(wire, EventOf(c))[i] = wire[i]
          \/ Append(wire, EventOf(c))[i] = EventOf(c)
    BY <1>1, <2>2, AppendedElements
  <2>5. ASSUME NEW i \in 1 .. Len(wire') PROVE ForItsRoom(wire'[i]) /\ wire'[i] \in Event
    BY <1>1, <2>2, <2>3, <2>4
  <2>6. WireOK'
    BY <1>2, <2>5 DEF ForItsRoom
  <2>7. QED
    BY <1>7, <1>9, <1>10, <2>1, <2>6
<1>14. ASSUME NEW c \in Conn, SendReply(c)
       PROVE  PublishOK' /\ WireOK' /\ SendsOK' /\ OutOK'
  <2>1. /\ UNCHANGED <<read, wire, fan, sends>> /\ recv[c] # "reading"
        /\ \A d \in Conn : recv'[d] = "publishing" => recv[d] = "publishing"
    BY <1>1, <1>14 DEF SendReply, WriteReply, Proceed
  <2>2. ReplyTo(c) \in Reply /\ ReplyTo(c).kind = "reply"
    BY <1>1, <2>1, DeliveryAssumption DEF DeliveryAssumption, ReplyTo, Reply
  <2>3. \A d \in Conn : out'[d] = out[d] \/ out'[d] = Append(out[d], ReplyTo(c))
    BY <1>1, <1>14 DEF SendReply, WriteReply
  <2>4. ASSUME NEW d \in Conn, NEW i \in 1 .. Len(out'[d]), out'[d][i].kind = "event"
        PROVE  /\ out'[d][i] \in Event \cup Reply
               /\ i \in 1 .. Len(out[d]) /\ out'[d][i] = out[d][i]
    <3>1. out[d] \in Seq(Event \cup Reply) /\ ReplyTo(c) \in Event \cup Reply
      BY <1>1, <2>2
    <3>2. \A j \in 1 .. Len(out'[d]) :
            /\ out'[d][j] \in Event \cup Reply
            /\ out'[d][j] = ReplyTo(c) \/ (j \in 1 .. Len(out[d]) /\ out'[d][j] = out[d][j])
      BY <2>3, <3>1, PerhapsAppended
    <3>3. QED
      BY <2>2, <2>4, <3>2
  <2>5. ASSUME NEW d \in Conn, NEW i \in 1 .. Len(out'[d]), out'[d][i].kind = "event"
        PROVE  ForItsRoom(out'[d][i]) /\ out'[d][i] \in Event
    BY <1>1, <1>4, <2>4, <2>5
  <2>6. OutOK'
    BY <1>2, <2>5 DEF ForItsRoom
  <2>7. \A i \in 1 .. Len(wire') : \E j \in 1 .. Len(wire) : wire'[i] = wire[j]
    BY <2>1
  <2>8. QED
    BY <1>7, <1>8, <1>9, <2>1, <2>6, <2>7
<1>15. CASE ListenerTurn \/ LinkLost
  <2>1. UNCHANGED <<recv, read, fan, sends, out>>
    BY <1>15 DEF ListenerTurn, LinkLost
  <2>2. \A i \in 1 .. Len(wire') : \E j \in 1 .. Len(wire) : wire'[i] = wire[j]
    <3>1. CASE ListenerTurn
      BY <3>1 DEF ListenerTurn
    <3>2. CASE LinkLost
      <4>1. PICK k \in 0 .. Len(wire) : wire' = SubSeq(wire, 1, k)
        BY <3>2 DEF LinkLost
      <4>2. Len(SubSeq(wire, 1, k)) = k
            /\ \A i \in 1 .. k : i \in 1 .. Len(wire) /\ SubSeq(wire, 1, k)[i] = wire[i]
        BY <1>1
      <4>3. QED
        BY <4>1, <4>2
    <3>3. QED
      BY <1>15, <3>1, <3>2
  <2>3. QED
    BY <1>7, <1>8, <1>9, <1>10, <2>1, <2>2
<1>16. CASE TakeEvent
  <2>1. /\ UNCHANGED <<recv, read, sends, out, pc>> /\ wire # <<>> /\ wire' = Tail(wire)
        /\ fan' = {[to |-> c, event |-> Head(wire)] : c \in Recipients(Head(wire))}
    BY <1>16 DEF TakeEvent, vars
  <2>2. Head(wire) \in Event /\ ForItsRoom(Head(wire))
    <3>1. Head(wire) = wire[1] /\ 1 \in 1 .. Len(wire)
      BY <1>1, <2>1
    <3>2. QED
      BY <1>1, <3>1
  <2>3. \A c \in Recipients(Head(wire)) : pc[c] # "idle"
    BY <2>2, ServiceAssumption
    DEF ServiceAssumption, Event, Recipients, ChatInv, OnTopicInv, RegistryInv, MemberState
  <2>4. ASSUME NEW s \in (fan \cup sends)' PROVE ForItsRoom(s.event)' /\ pc'[s.to] # "idle"
    <3>1. CASE s \in sends
      BY <1>1, <1>2, <1>3, <1>5, <3>1
    <3>2. CASE s \in fan'
      <4>1. s.event = Head(wire) /\ s.to \in Recipients(Head(wire))
        BY <2>1, <3>2
      <4>2. QED
        BY <1>2, <2>1, <2>2, <2>3, <4>1 DEF ForItsRoom
    <3>3. QED
      BY <2>1, <2>4, <3>1, <3>2
  <2>5. \A i \in 1 .. Len(wire') : \E j \in 1 .. Len(wire) : wire'[i] = wire[j]
    BY <1>1, <2>1
  <2>6. QED
    BY <1>7, <1>8, <1>10, <2>1, <2>4, <2>5
<1>17. CASE FanOut \/ \E s \in sends : DeliverFails(s)
  <2>1. UNCHANGED <<recv, read, wire, out>> /\ (fan \cup sends)' \subseteq fan \cup sends
    BY <1>17 DEF FanOut, Dispatch, Undone, DeliverFails
  <2>2. QED
    BY <1>7, <1>8, <1>9, <1>10, <2>1
<1>18. ASSUME NEW s \in sends, Deliver(s)
       PROVE  PublishOK' /\ WireOK' /\ SendsOK' /\ OutOK'
  <2>1. /\ UNCHANGED <<recv, read, wire>> /\ (fan \cup sends)' \subseteq fan \cup sends
        /\ out' = [out EXCEPT ![s.to] = Append(@, s.event)]
    BY <1>18 DEF Deliver
  <2>2. s.event \in Event /\ ForItsRoom(s.event)
    BY <1>1, <1>5
  <2>3. \A d \in Conn : out'[d] = out[d] \/ out'[d] = Append(out[d], s.event)
    BY <1>1, <2>1
  <2>4. ASSUME NEW d \in Conn, NEW i \in 1 .. Len(out'[d])
        PROVE  /\ out'[d][i] \in Event \cup Reply
               /\ out'[d][i] = s.event \/ (i \in 1 .. Len(out[d]) /\ out'[d][i] = out[d][i])
    <3>1. out[d] \in Seq(Event \cup Reply) /\ s.event \in Event \cup Reply
      BY <1>1, <2>2
    <3>2. QED
      BY <2>3, <3>1, PerhapsAppended
  <2>5. ASSUME NEW d \in Conn, NEW i \in 1 .. Len(out'[d]), out'[d][i].kind = "event"
        PROVE  ForItsRoom(out'[d][i]) /\ out'[d][i] \in Event
    BY <1>1, <1>4, <2>2, <2>4, <2>5
  <2>6. OutOK'
    BY <1>2, <2>5 DEF ForItsRoom
  <2>7. \A i \in 1 .. Len(wire') : \E j \in 1 .. Len(wire) : wire'[i] = wire[j]
    BY <2>1
  <2>8. QED
    BY <1>7, <1>9, <1>8, <2>1, <2>6, <2>7
<1>19. CASE UNCHANGED <<recv, read, wire, fan, sends, out>>
  BY <1>7, <1>8, <1>9, <1>10, <1>19
<1>20. \A c \in Conn : ConnectionStep(c) \/ SocketBreaks(c)
                        => UNCHANGED <<recv, read, wire, fan, sends, out>>
  BY DEF ConnectionStep, SocketBreaks, deliveryVars
<1>21. QED
  BY <1>11, <1>12, <1>13, <1>14, <1>15, <1>16, <1>17, <1>18, <1>19, <1>20
  DEF ChatNext, ChatStep, KitStep, bvars, dvars, deliveryVars

LEMMA NextChat == ChatInv /\ [ChatNext]_bvars => ChatInv'
<1> SUFFICES ASSUME ChatInv, [ChatNext]_bvars PROVE ChatInv'
  OBVIOUS
<1>1. OnTopicInv'
  BY NextOnTopic, ChatNextImplementsDNext DEF ChatInv
<1>2. QED
  BY <1>1, NextSaid, NextDoor, NextRooms DEF ChatInv

(* The invariant behind the next two.                                      *)
THEOREM ChatIsRight == ChatSpec => []ChatInv
BY InitChat, NextChat, PTL DEF ChatSpec

(* No text reaches a room other than the one it was sent to.               *)
THEOREM RoomsAlwaysStayApart == ChatSpec => []RoomsStayApart
<1>1. ChatInv => RoomsStayApart
  <2> SUFFICES ASSUME ChatInv, NEW c \in Conn, NEW i \in 1 .. Len(out[c]),
                      out[c][i].kind = "event"
               PROVE  said[out[c][i].from][out[c][i].n]
                        = [kind |-> "SendMessage", room |-> TopicOf[c]]
    BY DEF RoomsStayApart
  <2>1. ForItsRoom(out[c][i]) /\ TopicOf[out[c][i].from] = TopicOf[c]
    BY DEF ChatInv, OnTopicInv, EventsStayOnTopic
  <2>2. QED
    BY <2>1 DEF ForItsRoom
<1>2. QED
  BY <1>1, ChatIsRight, PTL

(* A private topic is read and written by its owner only.                  *)
THEOREM PrivateRoomsStayPrivate == ChatSpec => []PrivateRoomsArePrivate
<1>1. ChatInv => PrivateRoomsArePrivate
  <2> SUFFICES ASSUME ChatInv, NEW c \in Conn, TopicOf[c] \in Private,
                      NEW i \in 1 .. Len(out[c])
               PROVE  /\ user[c] = OwnerOf[TopicOf[c]]
                      /\ out[c][i].kind = "event" => user[out[c][i].from] = OwnerOf[TopicOf[c]]
    BY DEF PrivateRoomsArePrivate
  <2>1. \A d \in Conn : TopicOf[d] = TopicOf[c] /\ (out[d] # <<>> \/ read[d] > 0)
                         => user[d] = OwnerOf[TopicOf[c]]
    BY DEF ChatInv, EnteredMayUse, MayUse
  <2>2. out[c] # <<>> /\ out[c][i] \in Event \cup Reply
    BY DEF ChatInv, OnTopicInv, DTypeOK
  <2>3. ASSUME out[c][i].kind = "event" PROVE user[out[c][i].from] = OwnerOf[TopicOf[c]]
    <3>1. out[c][i] \in Event
      BY <2>2, <2>3 DEF Event, Reply
    <3>2. out[c][i].from \in Conn /\ out[c][i].n \in 1 .. MaxMessages
      BY <3>1 DEF Event
    <3>3. ForItsRoom(out[c][i]) /\ TopicOf[out[c][i].from] = TopicOf[c]
      BY <2>3 DEF ChatInv, OnTopicInv, EventsStayOnTopic
    <3>4. read[out[c][i].from] > 0
      BY <3>2, <3>3, DeliveryAssumption
      DEF DeliveryAssumption, ForItsRoom, ChatInv, OnTopicInv, DTypeOK
    <3>5. QED
      BY <2>1, <3>2, <3>3, <3>4
  <2>4. QED
    BY <2>1, <2>2, <2>3
<1>2. QED
  BY <1>1, ChatIsRight, PTL
=============================================================================
