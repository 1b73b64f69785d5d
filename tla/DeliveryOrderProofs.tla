-------------------------- MODULE DeliveryOrderProofs --------------------------
(***************************************************************************)
(* What the data path keeps besides Broadcast, for any number of clients,  *)
(* nodes and messages: the events of one client stay in order until tasks  *)
(* are spawned for them, nobody is stuck behind a socket that takes no     *)
(* frames, and no copy of an event is lost but for a reason that the place *)
(* it was at allows.                                                       *)
(***************************************************************************)
EXTENDS BroadcastProofs

(* The event was taken off the wire: the listener, a spawned task or a     *)
(* client has a copy of it.                                                *)
Taken(e) ==
  \/ \E s \in fan \cup sends : s.event = e
  \/ \E d \in Conn : \E j \in 1 .. Len(out[d]) : out[d][j] = e

(* The parts of OrderUntilSpawned, in terms of the events taken.           *)
WireInOrder == \A i, j \in 1 .. Len(wire) : i < j => Before(wire[i], wire[j])

TakenBeforeWire ==
  \A i \in 1 .. Len(wire) : \A e \in Event : Taken(e) => Before(e, wire[i])

FanIsLatest ==
  \A s \in fan :
    /\ \A r \in fan : r.event = s.event
    /\ \A e \in Event : Taken(e) /\ e.from = s.event.from => e.n <= s.event.n

OrderInv == WireInOrder /\ TakenBeforeWire /\ FanIsLatest

LEMMA OrderParts == DTypeOK => (OrderUntilSpawned <=> OrderInv)
<1> SUFFICES ASSUME DTypeOK PROVE OrderUntilSpawned <=> OrderInv
  OBVIOUS
<1>1. \A s \in fan \cup sends :
        s.event \in Event /\ s.event.kind = "event" /\ s.event.n \in Nat
  BY DeliveryAssumption DEF DeliveryAssumption, DTypeOK, PendingSend, Event
<1>2. \A d \in Conn : \A j \in 1 .. Len(out[d]) : out[d][j] \in Event \cup Reply
  BY DEF DTypeOK
<1>3. \A e \in Event : e.kind = "event"
  BY DEF Event
<1>4. \A f \in Event \cup Reply : f.kind = "event" => f \in Event
  BY DEF Event, Reply
<1>5. ASSUME OrderUntilSpawned PROVE OrderInv
  <2>1. WireInOrder
    BY <1>5 DEF OrderUntilSpawned, WireInOrder
  <2>2. TakenBeforeWire
    BY <1>3, <1>5 DEF OrderUntilSpawned, TakenBeforeWire, Taken
  <2>3. FanIsLatest
    <3>1. SUFFICES ASSUME NEW s \in fan, NEW e \in Event, Taken(e), e.from = s.event.from
                   PROVE  e.n <= s.event.n
      BY <1>5 DEF OrderUntilSpawned, FanIsLatest
    <3>2. CASE \E r \in fan : r.event = e
      BY <1>1, <1>5, <3>2 DEF OrderUntilSpawned
    <3>3. CASE \E r \in sends : r.event = e
      BY <1>5, <3>1, <3>3 DEF OrderUntilSpawned
    <3>4. CASE \E d \in Conn : \E j \in 1 .. Len(out[d]) : out[d][j] = e
      BY <1>3, <1>5, <3>1, <3>4 DEF OrderUntilSpawned
    <3>5. QED
      BY <3>1, <3>2, <3>3, <3>4 DEF Taken
  <2>4. QED
    BY <2>1, <2>2, <2>3 DEF OrderInv
<1>6. ASSUME OrderInv PROVE OrderUntilSpawned
  <2>1. /\ \A s \in fan \cup sends : Taken(s.event)
        /\ \A d \in Conn : \A j \in 1 .. Len(out[d]) : Taken(out[d][j])
    BY DEF Taken
  <2>2. QED
    BY <1>1, <1>2, <1>4, <1>6, <2>1
    DEF OrderInv, WireInOrder, TakenBeforeWire, FanIsLatest, OrderUntilSpawned
<1>7. QED
  BY <1>5, <1>6

LEMMA InitOrder == DInit => OrderInv
<1> SUFFICES ASSUME DInit PROVE OrderInv
  OBVIOUS
<1>1. wire = <<>> /\ fan = {}
  BY DEF DInit
<1>2. QED
  BY <1>1 DEF OrderInv, WireInOrder, TakenBeforeWire, FanIsLatest

(* Nothing is taken, and the wire at most gets shorter at its end.         *)
LEMMA NothingTaken ==
  ASSUME DTypeOK, OrderInv, NEW k \in 0 .. Len(wire), wire' = SubSeq(wire, 1, k),
         fan' \subseteq fan, \A e \in Event : Taken(e)' => Taken(e)
  PROVE  OrderInv'
<1>1. wire \in Seq(Event) /\ Len(wire) \in Nat
  BY DEF DTypeOK
<1>2. Len(wire') = k /\ \A i \in 1 .. k : i \in 1 .. Len(wire) /\ wire'[i] = wire[i]
  BY <1>1
<1>3. WireInOrder'
  BY <1>2 DEF OrderInv, WireInOrder, Before
<1>4. TakenBeforeWire'
  BY <1>2 DEF OrderInv, TakenBeforeWire, Before
<1>5. FanIsLatest'
  BY DEF OrderInv, FanIsLatest
<1>6. QED
  BY <1>3, <1>4, <1>5 DEF OrderInv

LEMMA NothingMoves ==
  ASSUME DTypeOK, OrderInv, UNCHANGED wire,
         fan' \subseteq fan, \A e \in Event : Taken(e)' => Taken(e)
  PROVE  OrderInv'
<1>1. Len(wire) \in 0 .. Len(wire) /\ wire = SubSeq(wire, 1, Len(wire))
  BY DEF DTypeOK
<1>2. wire' = SubSeq(wire, 1, Len(wire))
  BY <1>1
<1>3. QED
  BY <1>1, <1>2, NothingTaken

(* A spawned task's frame that is written, or a reply, takes nothing.      *)
LEMMA WrittenIsTaken ==
  ASSUME DTypeOK, NEW c \in Conn, NEW f \in Event \cup Reply,
         out' = [out EXCEPT ![c] = Append(@, f)],
         fan' \cup sends' \subseteq fan \cup sends,
         f \in Reply \/ Taken(f), NEW e \in Event, Taken(e)'
  PROVE  Taken(e)
<1>1. CASE \E s \in fan' \cup sends' : s.event = e
  BY <1>1 DEF Taken
<1>2. ASSUME NEW d \in Conn, NEW j \in 1 .. Len(out'[d]), out'[d][j] = e
      PROVE  Taken(e)
  <2>1. out[d] \in Seq(Event \cup Reply)
    BY DEF DTypeOK
  <2>2. \/ j \in 1 .. Len(out[d]) /\ out'[d][j] = out[d][j]
        \/ out'[d][j] = f
    BY <1>2, <2>1, AppendedElements DEF DTypeOK
  <2>3. f \in Reply => f # e
    BY DEF Event, Reply
  <2>4. QED
    BY <1>2, <2>2, <2>3 DEF Taken
<1>3. QED
  BY <1>1, <1>2 DEF Taken

(* What was published before by a client whose event is being published    *)
(* has a smaller number.                                                   *)
LEMMA EarlierIsBefore ==
  ASSUME DeliveryInv, NEW c \in Conn, recv[c] = "publishing"
  PROVE  /\ \A i \in 1 .. Len(wire) : Before(wire[i], EventOf(c))
         /\ \A e \in Event : Taken(e) => Before(e, EventOf(c))
<1>1. \A f \in Event : Concluded(f) => Before(f, EventOf(c))
  BY DEF Concluded, Before, EventOf, Event
<1>2. \A i \in 1 .. Len(wire) : wire[i] \in Event /\ Concluded(wire[i])
  BY DEF DeliveryInv, OnTopicInv, DTypeOK, OnePlaceInv
<1>3. \A e \in Event : Taken(e) => Concluded(e)
  <2>1. \A e \in Event : e.kind = "event"
    BY DEF Event
  <2>2. QED
    BY <2>1 DEF Taken, DeliveryInv, OnePlaceInv
<1>4. QED
  BY <1>1, <1>2, <1>3

LEMMA NextOrder == DeliveryInv /\ OrderInv /\ [DNext]_dvars => OrderInv'
<1> SUFFICES ASSUME DeliveryInv, OrderInv, [DNext]_dvars PROVE OrderInv'
  OBVIOUS
<1>1. /\ OnTopicInv /\ DTypeOK /\ wire \in Seq(Event) /\ Len(wire) \in Nat
      /\ fan \subseteq PendingSend /\ sends \subseteq PendingSend
      /\ out \in [Conn -> Seq(Event \cup Reply)]
  BY DEF DeliveryInv, OnTopicInv, DTypeOK
<1>2. /\ Len(wire) \in 0 .. Len(wire) /\ wire = SubSeq(wire, 1, Len(wire))
      /\ 0 \in 0 .. Len(wire) /\ <<>> = SubSeq(wire, 1, 0)
  BY <1>1
<1>3. ASSUME wire' \in {wire, <<>>} \/ \E k \in 0 .. Len(wire) : wire' = SubSeq(wire, 1, k),
             UNCHANGED <<fan, sends, out>>
      PROVE  OrderInv'
  <2>1. \E k \in 0 .. Len(wire) : wire' = SubSeq(wire, 1, k)
    <3>1. CASE wire' = wire
      BY <1>2, <3>1
    <3>2. CASE wire' = <<>>
      BY <1>2, <3>2
    <3>3. QED
      BY <1>3, <3>1, <3>2
  <2>2. \A e \in Event : Taken(e)' => Taken(e)
    BY <1>3 DEF Taken
  <2>3. QED
    BY <1>1, <1>3, <2>1, <2>2, NothingTaken
<1>4. ASSUME NEW c \in Conn, ConnectionStep(c) \/ SocketBreaks(c) \/ HandlerStep(c)
      PROVE  OrderInv'
  BY <1>3, <1>4
  DEF ConnectionStep, SocketBreaks, deliveryVars, HandlerStep, ReadMessage,
      HandleDirect, HandleBroadcast, Proceed
<1>5. CASE ListenerTurn \/ LinkLost
  BY <1>3, <1>5 DEF ListenerTurn, LinkLost
<1>6. ASSUME NEW c \in Conn, PublishStep(c) PROVE OrderInv'
  <2> DEFINE e == EventOf(c)
  <2>1. /\ recv[c] = "publishing" /\ UNCHANGED <<read, fan, sends, out>>
        /\ wire' \in {wire, Append(wire, e)}
    BY <1>6 DEF PublishStep, Publish, PublishFails, Proceed, RedisTakes
  <2>2. /\ e \in Event
        /\ \A i \in 1 .. Len(wire) : Before(wire[i], e)
        /\ \A f \in Event : Taken(f) => Before(f, e)
    BY <2>1, PublishedIsNew, EarlierIsBefore
  <2>3. \A f : Taken(f)' => Taken(f)
    BY <2>1 DEF Taken
  <2> HIDE DEF e
  <2>4. CASE wire' = Append(wire, e)
    <3>1. /\ Len(wire') = Len(wire) + 1 /\ wire'[Len(wire) + 1] = e
          /\ \A i \in 1 .. Len(wire) : wire'[i] = wire[i]
      BY <1>1, <2>2, <2>4
    <3>2. WireInOrder'
      <4>1. SUFFICES ASSUME NEW i \in 1 .. Len(wire'), NEW j \in 1 .. Len(wire'), i < j
                     PROVE  Before(wire'[i], wire'[j])
        BY DEF WireInOrder, Before
      <4>2. i \in 1 .. Len(wire) /\ (j \in 1 .. Len(wire) \/ j = Len(wire) + 1)
        BY <1>1, <3>1, <4>1
      <4>3. QED
        BY <2>2, <3>1, <4>1, <4>2 DEF OrderInv, WireInOrder
    <3>3. TakenBeforeWire'
      <4>1. SUFFICES ASSUME NEW i \in 1 .. Len(wire'), NEW f \in Event, Taken(f)
                     PROVE  Before(f, wire'[i])
        BY <2>3 DEF TakenBeforeWire, Before
      <4>2. i \in 1 .. Len(wire) \/ i = Len(wire) + 1
        BY <1>1, <3>1
      <4>3. QED
        BY <2>2, <3>1, <4>1, <4>2 DEF OrderInv, TakenBeforeWire
    <3>4. FanIsLatest'
      BY <2>1, <2>3 DEF OrderInv, FanIsLatest
    <3>5. QED
      BY <3>2, <3>3, <3>4 DEF OrderInv
  <2>5. QED
    BY <1>3, <2>1, <2>4
<1>7. ASSUME NEW c \in Conn, SendReply(c) PROVE OrderInv'
  <2>1. /\ recv[c] = "replying" /\ UNCHANGED <<wire, fan, sends>>
        /\ out' = out \/ out' = [out EXCEPT ![c] = Append(@, ReplyTo(c))]
    BY <1>7 DEF SendReply, Proceed, WriteReply
  <2>2. ReplyTo(c) \in Reply
    <3>1. read[c] \in 1 .. MaxMessages
      <4>1. read[c] > 0 /\ read[c] \in 0 .. MaxMessages
        BY <1>1, <2>1 DEF OnTopicInv, DTypeOK
      <4>2. QED
        BY <4>1, DeliveryAssumption DEF DeliveryAssumption
    <3>2. QED
      BY <3>1 DEF ReplyTo, Reply
  <2>3. CASE UNCHANGED out
    BY <1>3, <2>1, <2>3
  <2>4. CASE out' = [out EXCEPT ![c] = Append(@, ReplyTo(c))]
    <3>1. fan' \cup sends' \subseteq fan \cup sends
      BY <2>1
    <3>2. \A e \in Event : Taken(e)' => Taken(e)
      BY <1>1, <2>2, <2>4, <3>1, WrittenIsTaken
    <3>3. QED
      BY <1>1, <2>1, <3>2, NothingMoves
  <2>5. QED
    BY <2>1, <2>3, <2>4
(* The event taken is later than all that were taken before it, and before *)
(* all that are left on the wire.                                          *)
<1>8. CASE TakeEvent
  <2> DEFINE e == Head(wire)
  <2>1. /\ wire # <<>> /\ wire' = Tail(wire) /\ fan = {}
        /\ fan' = {[to |-> c, event |-> e] : c \in Recipients(e)}
        /\ UNCHANGED <<sends, out>>
    BY <1>8 DEF TakeEvent, BroadcastDone
  <2>2. /\ e = wire[1] /\ 1 \in 1 .. Len(wire) /\ e \in Event /\ e.n \in Nat
        /\ Len(wire') = Len(wire) - 1
        /\ \A i \in 1 .. Len(wire') :
             /\ i \in Nat /\ 1 < i + 1
             /\ i + 1 \in 1 .. Len(wire) /\ wire'[i] = wire[i + 1]
    <3>1. wire # <<>> /\ e = wire[1] /\ 1 \in 1 .. Len(wire) /\ wire[1] \in Event
      BY <1>1, <2>1
    <3>2. e.n \in Nat
      BY <3>1, DeliveryAssumption DEF DeliveryAssumption, Event
    <3>3. QED
      BY <1>1, <2>1, <3>1, <3>2
  <2>3. \A s \in fan' : s.event = e
    BY <2>1
  <2>4. \A f \in Event : Taken(f)' => Taken(f) \/ f = e
    BY <2>1, <2>3 DEF Taken
  <2> HIDE DEF e
  <2>5. WireInOrder'
    <3>1. SUFFICES ASSUME NEW i \in 1 .. Len(wire'), NEW j \in 1 .. Len(wire'), i < j
                   PROVE  Before(wire'[i], wire'[j])
      BY DEF WireInOrder, Before
    <3>2. i + 1 < j + 1
      BY <2>2, <3>1
    <3>3. QED
      BY <2>2, <3>1, <3>2 DEF OrderInv, WireInOrder
  <2>6. TakenBeforeWire'
    <3>1. SUFFICES ASSUME NEW i \in 1 .. Len(wire'), NEW f \in Event, Taken(f)'
                   PROVE  Before(f, wire'[i])
      BY DEF TakenBeforeWire, Before
    <3>2. QED
      BY <2>2, <2>4, <3>1 DEF OrderInv, WireInOrder, TakenBeforeWire
  <2>7. FanIsLatest'
    <3>1. SUFFICES ASSUME NEW f \in Event, Taken(f)', f.from = e.from
                   PROVE  f.n <= e.n
      BY <2>3 DEF FanIsLatest
    <3>2. CASE Taken(f)
      <4>1. Before(f, e) /\ f.n \in Nat
        BY <2>2, <3>2, DeliveryAssumption
        DEF DeliveryAssumption, Event, OrderInv, TakenBeforeWire
      <4>2. QED
        BY <2>2, <3>1, <4>1 DEF Before
    <3>3. CASE f = e
      BY <2>2, <3>3
    <3>4. QED
      BY <2>4, <3>1, <3>2, <3>3
  <2>8. QED
    BY <2>5, <2>6, <2>7 DEF OrderInv
<1>9. ASSUME FanOut \/ \E s \in sends : DeliverFails(s) PROVE OrderInv'
  <2>1. /\ fan' \subseteq fan /\ fan' \cup sends' \subseteq fan \cup sends
        /\ UNCHANGED <<wire, out>>
    BY <1>9 DEF FanOut, Dispatch, Undone, DeliverFails
  <2>2. \A e \in Event : Taken(e)' => Taken(e)
    BY <2>1 DEF Taken
  <2>3. QED
    BY <1>1, <2>1, <2>2, NothingMoves
<1>10. ASSUME NEW s \in sends, Deliver(s) PROVE OrderInv'
  <2>1. /\ fan' = fan /\ fan' \cup sends' \subseteq fan \cup sends
        /\ out' = [out EXCEPT ![s.to] = Append(@, s.event)]
        /\ UNCHANGED wire
    BY <1>10 DEF Deliver
  <2>2. s.to \in Conn /\ s.event \in Event /\ Taken(s.event)
    BY <1>1 DEF PendingSend, Taken
  <2>3. \A e \in Event : Taken(e)' => Taken(e)
    BY <1>1, <2>1, <2>2, WrittenIsTaken
  <2>4. QED
    BY <1>1, <2>1, <2>3, NothingMoves
<1>11. CASE UNCHANGED dvars
  BY <1>3, <1>11 DEF dvars, deliveryVars
<1>12. QED
  BY <1>4, <1>5, <1>6, <1>7, <1>8, <1>9, <1>10, <1>11 DEF DNext, KitStep

(* The events of a client are on the wire in the order it published them,  *)
(* and are taken off it and fanned out in that order, on every node and    *)
(* whatever the link does: only the spawned tasks can swap two of them.    *)
THEOREM EventsInOrderUntilSpawned == DSpec => []OrderUntilSpawned
<1>1. DeliveryInv /\ OrderInv => OrderUntilSpawned
  <2>1. DeliveryInv => DTypeOK
    BY DEF DeliveryInv, OnTopicInv
  <2>2. QED
    BY <2>1, OrderParts
<1>2. QED
  BY <1>1, InitOrder, NextOrder, InitDelivery, NextDelivery, PTL DEF DSpec

-----------------------------------------------------------------------------
(* A listener that is about to connect has no link, and one that has       *)
(* something to do has something to do it with.                            *)
BusyInv ==
  /\ lst = "connecting" => ~linkUp
  /\ lst = "scanning" /\ Topic # {} => scan # {}
  /\ lst = "executing" => inflight # {}

LEMMA InitBusy == DInit => BusyInv
BY DEF DInit, Init, BusyInv, linkUp

LEMMA NextBusy == BusyInv /\ [DNext]_dvars => BusyInv'
<1> SUFFICES ASSUME BusyInv, [Next]_vars PROVE BusyInv'
  BY DNextImplementsNext
<1> USE DEF BusyInv, linkUp, listenerVars, redisVars
<1>1. ASSUME NEW c \in Conn, Accept(c) \/ Close(c) \/ HookPanic(c) \/ TaskStep(c)
      PROVE  BusyInv'
  BY <1>1
  DEF Accept, Close, HookPanic, TaskStep, Subscribe, SendSubscribe, Serve, Deregister,
      Leave, DropTopic, SendUnsubscribe, Advance, MapStep
<1>2. ASSUME Connect \/ \E t \in Topic : ScanTopic(t) PROVE BusyInv'
  BY <1>2 DEF Connect, ScanTopic
<1>3. ASSUME Resubscribe \/ ReceiveCommand \/ ExecuteCommand PROVE BusyInv'
  BY <1>3 DEF Resubscribe, ReceiveCommand, ExecuteCommand
<1>4. ASSUME ResubscribeFails \/ CommandFails PROVE BusyInv'
  BY <1>4 DEF ResubscribeFails, CommandFails, Reconnect
<1>5. ASSUME ConnectFails \/ LinkDrops PROVE BusyInv'
  BY <1>5 DEF ConnectFails, LinkDrops
<1>6. CASE UNCHANGED vars
  BY <1>6 DEF vars
<1>7. QED
  BY <1>1, <1>2, <1>3, <1>4, <1>5, <1>6 DEF Next, ListenerStep, LinkFault

(* While a task waits for room in the command channel the listener can     *)
(* take one of its own steps, whatever the sockets, the link and the other *)
(* tasks do: slow clients block nobody.                                    *)
THEOREM SendersAreNeverStuck == DSpec => []SendersAreNotStuck
<1>1. OnTopicInv /\ BusyInv => SendersAreNotStuck
  <2> SUFFICES ASSUME OnTopicInv, BusyInv, NEW c \in Conn, ~HasRoom
               PROVE  ListenerMayGoOn
    BY DEF SendersAreNotStuck
  <2>1. queue # <<>> /\ Topic # {}
    BY ServiceAssumption
    DEF ServiceAssumption, OnTopicInv, DTypeOK, TypeOK, HasRoom
  <2>2. lst \in ListenerState
    BY DEF OnTopicInv, DTypeOK, TypeOK
  <2>3. QED
    BY <2>1, <2>2 DEF ListenerState, BusyInv, ListenerMayGoOn, BroadcastDone, Receives
<1>2. QED
  BY <1>1, InitBusy, NextBusy, DeliveryStaysOnTopic, PTL DEF DSpec

-----------------------------------------------------------------------------
(* The places a copy of an event can be at, one after the other.           *)
WireLosses(d, e) ==
  OnWire(e) /\ d \in Recipients(e) =>
    OnWire(e)' \/ [to |-> d, event |-> e] \in fan' \/ ~linkUp'

FanLosses(s) == s \in fan /\ s.to \in connections => s \in fan' \cup sends'

SendLosses(s) ==
  s \in sends /\ SocketOpen(s.to) /\ s.to \notin broken =>
    s \in sends' \/ Got(s.to, s.event)'

LEMMA NextLosses ==
  ASSUME DTypeOK, BusyInv', [DNext]_dvars, NEW d \in Conn, NEW e \in Event
  PROVE  /\ WireLosses(d, e)
         /\ FanLosses([to |-> d, event |-> e])
         /\ SendLosses([to |-> d, event |-> e])
<1> DEFINE s == [to |-> d, event |-> e]
           Kept == WireLosses(d, e) /\ FanLosses(s) /\ SendLosses(s)
<1>0. /\ s.to = d /\ s.event = e
      /\ wire \in Seq(Event) /\ out \in [Conn -> Seq(Event \cup Reply)]
  BY DEF DTypeOK
<1> SUFFICES Kept
  OBVIOUS
<1> HIDE DEF s
<1>1. ASSUME fan' = fan, sends' = sends, WireLosses(d, e) PROVE Kept
  BY <1>1 DEF FanLosses, SendLosses
<1>2. CASE UNCHANGED <<wire, fan, sends>>
  BY <1>1, <1>2 DEF WireLosses, OnWire
<1>3. ASSUME NEW c \in Conn,
             ConnectionStep(c) \/ SocketBreaks(c) \/ HandlerStep(c) \/ SendReply(c)
      PROVE  Kept
  BY <1>2, <1>3
  DEF ConnectionStep, SocketBreaks, deliveryVars, HandlerStep, ReadMessage,
      HandleDirect, HandleBroadcast, SendReply, WriteReply, Proceed
<1>4. ASSUME NEW c \in Conn, PublishStep(c) PROVE Kept
  <2>1. /\ UNCHANGED <<fan, sends>>
        /\ wire' = wire \/ wire' = Append(wire, EventOf(c))
    BY <1>4 DEF PublishStep, Publish, PublishFails, Proceed, RedisTakes
  <2>2. OnWire(e) => OnWire(e)'
    BY <1>0, <2>1 DEF OnWire
  <2>3. QED
    BY <1>1, <2>1, <2>2 DEF WireLosses
<1>5. CASE ListenerTurn
  <2>1. /\ UNCHANGED <<fan, sends>>
        /\ wire' = wire \/ lst' = "connecting"
    BY <1>5 DEF ListenerTurn
  <2>2. QED
    BY <1>1, <2>1 DEF WireLosses, OnWire, BusyInv
<1>6. CASE LinkLost
  BY <1>1, <1>6 DEF LinkLost, LinkDrops, WireLosses, linkUp
<1>7. CASE TakeEvent
  <2>1. /\ wire # <<>> /\ wire' = Tail(wire) /\ fan = {} /\ UNCHANGED sends
        /\ fan' = {[to |-> c, event |-> Head(wire)] : c \in Recipients(Head(wire))}
    BY <1>7 DEF TakeEvent, BroadcastDone
  <2>2. WireLosses(d, e)
    <3>1. SUFFICES ASSUME NEW i \in 1 .. Len(wire), wire[i] = e, d \in Recipients(e)
                   PROVE  OnWire(e)' \/ s \in fan'
      BY DEF WireLosses, OnWire, s
    <3>2. CASE i = 1
      BY <1>0, <2>1, <3>1, <3>2 DEF s
    <3>3. CASE i # 1
      <4>1. i - 1 \in 1 .. Len(wire') /\ wire'[i - 1] = e
        BY <1>0, <2>1, <3>1, <3>3
      <4>2. QED
        BY <4>1 DEF OnWire
    <3>4. QED
      BY <3>2, <3>3
  <2>3. QED
    BY <2>1, <2>2 DEF FanLosses, SendLosses
<1>8. ASSUME NEW r \in fan, Dispatch(r) PROVE Kept
  BY <1>8 DEF Dispatch, Undone, WireLosses, OnWire, FanLosses, SendLosses
<1>9. ASSUME NEW r \in sends, Deliver(r) PROVE Kept
  <2>1. /\ UNCHANGED <<wire, fan>> /\ sends' = sends \ {r}
        /\ out' = [out EXCEPT ![r.to] = Append(@, r.event)]
    BY <1>9 DEF Deliver
  <2>2. ASSUME s = r PROVE Got(s.to, s.event)'
    <3>1. /\ out'[d] = Append(out[d], e) /\ out[d] \in Seq(Event \cup Reply)
      BY <1>0, <2>1, <2>2
    <3>2. Len(out'[d]) \in 1 .. Len(out'[d]) /\ out'[d][Len(out'[d])] = e
      BY <3>1
    <3>3. QED
      BY <1>0, <3>2 DEF Got
  <2>3. QED
    BY <2>1, <2>2 DEF WireLosses, OnWire, FanLosses, SendLosses
<1>10. ASSUME NEW r \in sends, DeliverFails(r) PROVE Kept
  BY <1>10 DEF DeliverFails, WireLosses, OnWire, FanLosses, SendLosses
<1>11. CASE UNCHANGED dvars
  BY <1>2, <1>11 DEF dvars, deliveryVars
<1>12. QED
  BY <1>3, <1>4, <1>5, <1>6, <1>7, <1>8, <1>9, <1>10, <1>11
  DEF DNext, KitStep, FanOut

(* A copy of an event that is on a node is lost only where the code gives  *)
(* it up: with the link, with a client that is not listed or has no sink   *)
(* any more, or at a socket that is closed or broken.                      *)
THEOREM CopiesAreLostForReasons == DSpec => LossesHaveReasons
<1>1. DeliveryInv /\ BusyInv /\ [DNext]_dvars =>
        \A d \in Conn, e \in Event :
          LET s == [to |-> d, event |-> e] IN
          /\ OnWire(e) /\ d \in Recipients(e) =>
               OnWire(e)' \/ s \in fan' \/ ~linkUp'
          /\ s \in fan /\ d \in connections => s \in fan' \cup sends'
          /\ s \in sends /\ SocketOpen(d) /\ d \notin broken =>
               s \in sends' \/ Got(d, e)'
  <2> SUFFICES ASSUME DeliveryInv, BusyInv, [DNext]_dvars, NEW d \in Conn, NEW e \in Event
               PROVE  LET s == [to |-> d, event |-> e] IN
                      /\ OnWire(e) /\ d \in Recipients(e) =>
                           OnWire(e)' \/ s \in fan' \/ ~linkUp'
                      /\ s \in fan /\ d \in connections => s \in fan' \cup sends'
                      /\ s \in sends /\ SocketOpen(d) /\ d \notin broken =>
                           s \in sends' \/ Got(d, e)'
    OBVIOUS
  <2>1. DTypeOK /\ BusyInv'
    BY NextBusy DEF DeliveryInv, OnTopicInv
  <2>2. QED
    BY <2>1, NextLosses DEF WireLosses, FanLosses, SendLosses
<1>2. QED
  BY <1>1, InitBusy, NextBusy, InitDelivery, NextDelivery, PTL DEF DSpec, LossesHaveReasons
=============================================================================
