---------------------------- MODULE BroadcastProofs ----------------------------
(***************************************************************************)
(* The data path implements Broadcast, for any number of clients, nodes    *)
(* and messages: what the clients of a topic are promised is what the      *)
(* receive loops, Redis, the listener and the spawned tasks deliver.       *)
(***************************************************************************)
EXTENDS MessageDeliveryProofs

(* What is settled about a message stays settled.                          *)
LEMMA ConcludedForEver ==
  ASSUME DTypeOK, [DNext]_dvars, NEW e \in Event \cup Reply
  PROVE  /\ Concluded(e) => Concluded(e)'
         /\ Answered(e) => Answered(e)'
<1> USE DEF Concluded, Answered
<1>0. e.from \in Conn /\ e.n \in Nat
  BY DEF Event, Reply
<1>1. \/ UNCHANGED <<recv, read>>
      \/ \E c \in Conn :
           /\ UNCHANGED read
           /\ recv[c] \in {"direct", "broadcast", "publishing", "replying"}
           /\ \E to \in RecvState : recv' = [recv EXCEPT ![c] = to]
           /\ recv[c] = "replying" => recv'[c] = "reading"
      \/ \E c \in Conn :
           /\ recv[c] = "reading"
           /\ read' = [read EXCEPT ![c] = @ + 1]
           /\ \A d \in Conn \ {c} : recv'[d] = recv[d]
  <2>1. ASSUME NEW c \in Conn, ConnectionStep(c) \/ SocketBreaks(c)
        PROVE  UNCHANGED <<recv, read>>
    BY <2>1 DEF ConnectionStep, SocketBreaks, deliveryVars
  <2>2. CASE ListenerTurn \/ LinkLost \/ TakeEvent \/ FanOut
    BY <2>2 DEF ListenerTurn, LinkLost, TakeEvent, FanOut, Dispatch
  <2>3. ASSUME NEW s \in sends, Deliver(s) \/ DeliverFails(s)
        PROVE  UNCHANGED <<recv, read>>
    BY <2>3 DEF Deliver, DeliverFails
  <2>4. ASSUME NEW c \in Conn, ReadMessage(c)
        PROVE  /\ recv[c] = "reading"
               /\ read' = [read EXCEPT ![c] = @ + 1]
               /\ \A d \in Conn \ {c} : recv'[d] = recv[d]
    BY <2>4 DEF ReadMessage, Proceed, DTypeOK
  <2>5. ASSUME NEW c \in Conn,
               HandleDirect(c) \/ HandleBroadcast(c) \/ PublishStep(c) \/ SendReply(c)
        PROVE  /\ UNCHANGED read
               /\ recv[c] \in {"direct", "broadcast", "publishing", "replying"}
               /\ \E to \in RecvState : recv' = [recv EXCEPT ![c] = to]
               /\ recv[c] = "replying" => recv'[c] = "reading"
    BY <2>5
    DEF HandleDirect, HandleBroadcast, PublishStep, Publish, PublishFails,
        SendReply, Proceed, AfterFailure, RecvState, DTypeOK
  <2>6. CASE UNCHANGED dvars
    BY <2>6 DEF dvars, deliveryVars
  <2>7. QED
    BY <2>1, <2>2, <2>3, <2>4, <2>5, <2>6 DEF DNext, HandlerStep, KitStep
<1>2. QED
  BY <1>0, <1>1, DeliveryAssumption DEF DeliveryAssumption, DTypeOK

-----------------------------------------------------------------------------
(* The four parts of DeliveryInv that the copies of events and the frames  *)
(* written have to do with.                                                *)

WireInv ==
  /\ \A i, j \in 1 .. Len(wire) : wire[i] = wire[j] => i = j
  /\ \A i \in 1 .. Len(wire) : Concluded(wire[i])

PendingInv ==
  /\ fan \cap sends = {}
  /\ \A s \in fan \cup sends : Concluded(s.event) /\ ~OnWire(s.event)

Written(c, f) ==
  IF f.kind = "reply" THEN f.from = c /\ Answered(f)
  ELSE Concluded(f) /\ ~OnWire(f) /\ [to |-> c, event |-> f] \notin fan \cup sends

LEMMA OnePlaceParts ==
  OnePlaceInv <=>
    /\ WireInv
    /\ PendingInv
    /\ \A c \in Conn : \A i \in 1 .. Len(out[c]) : Written(c, out[c][i])
BY DEF OnePlaceInv, WireInv, PendingInv, Written

LEMMA InitDelivery == DInit => DeliveryInv
<1> SUFFICES ASSUME DInit PROVE DeliveryInv
  OBVIOUS
<1>1. OnTopicInv
  BY InitOnTopic
<1>2. /\ wire = <<>> /\ fan \cup sends = {} /\ fan \cap sends = {}
      /\ \A c \in Conn : out[c] = <<>>
  BY DEF DInit
<1>3. WireInv /\ PendingInv /\ AtMostOnce /\ RepliesInOrder
  BY <1>2 DEF WireInv, PendingInv, AtMostOnce, RepliesInOrder
<1>4. \A c \in Conn : \A i \in 1 .. Len(out[c]) : Written(c, out[c][i])
  BY <1>2
<1>5. QED
  BY <1>1, <1>3, <1>4, OnePlaceParts DEF DeliveryInv

(* An event that is published was nowhere before.                          *)
LEMMA PublishedIsNew ==
  ASSUME DeliveryInv, NEW c \in Conn, recv[c] = "publishing"
  PROVE  /\ EventOf(c) \in Event
         /\ ~OnWire(EventOf(c))
         /\ \A s \in fan \cup sends : s.event # EventOf(c)
         /\ \A d \in Conn : \A i \in 1 .. Len(out[d]) : out[d][i] # EventOf(c)
<1>1. read[c] \in 1 .. MaxMessages
  BY DeliveryAssumption DEF DeliveryAssumption, DeliveryInv, OnTopicInv, DTypeOK
<1>2. EventOf(c) \in Event /\ EventOf(c).kind = "event"
  BY <1>1 DEF EventOf, Event
<1>3. ~Concluded(EventOf(c))
  BY <1>1 DEF Concluded, EventOf
<1>4. \A d \in Conn : \A i \in 1 .. Len(out[d]) : out[d][i] # EventOf(c)
  BY <1>2, <1>3 DEF DeliveryInv, OnePlaceInv
<1>5. ~OnWire(EventOf(c)) /\ \A s \in fan \cup sends : s.event # EventOf(c)
  BY <1>3 DEF DeliveryInv, OnePlaceInv, OnWire
<1>6. QED
  BY <1>2, <1>4, <1>5

LEMMA NextDelivery == DeliveryInv /\ [DNext]_dvars => DeliveryInv'
<1> SUFFICES ASSUME DeliveryInv, [DNext]_dvars PROVE DeliveryInv'
  OBVIOUS
<1>1. OnTopicInv /\ DTypeOK /\ OnTopicInv' /\ DTypeOK'
  <2>1. OnTopicInv
    BY DEF DeliveryInv
  <2>2. QED
    BY <2>1, NextOnTopic DEF OnTopicInv
<1>2. /\ wire \in Seq(Event) /\ wire' \in Seq(Event)
      /\ fan \subseteq PendingSend /\ sends \subseteq PendingSend
      /\ out \in [Conn -> Seq(Event \cup Reply)]
  BY <1>1 DEF DTypeOK
<1>3. \A e \in Event \cup Reply :
        (Concluded(e) => Concluded(e)') /\ (Answered(e) => Answered(e)')
  BY <1>1, ConcludedForEver
<1>4. \A s \in PendingSend :
        /\ s.to \in Conn /\ s.event \in Event /\ s.event.kind = "event"
        /\ s = [to |-> s.to, event |-> s.event]
  BY DEF PendingSend, Event
<1>5. /\ \A i \in 1 .. Len(wire) : wire[i] \in Event
      /\ \A c \in Conn : \A i \in 1 .. Len(out[c]) : out[c][i] \in Event \cup Reply
  BY <1>2
<1>6. WireInv /\ PendingInv /\ AtMostOnce /\ RepliesInOrder
      /\ \A c \in Conn : \A i \in 1 .. Len(out[c]) : Written(c, out[c][i])
  BY OnePlaceParts DEF DeliveryInv
<1> DEFINE Same == UNCHANGED <<wire, fan, sends, out>>
<1>7. CASE Same
  <2>1. OnePlaceInv'
    BY <1>2, <1>3, <1>4, <1>5, <1>7 DEF DeliveryInv, OnePlaceInv, OnWire
  <2>2. AtMostOnce' /\ RepliesInOrder'
    BY <1>6, <1>7 DEF AtMostOnce, RepliesInOrder
  <2>3. QED
    BY <1>1, <2>1, <2>2 DEF DeliveryInv
(* The wire gets shorter, and nothing else happens to the events.          *)
<1>8. ASSUME NEW k \in 0 .. Len(wire), wire' = SubSeq(wire, 1, k),
             UNCHANGED <<fan, sends, out>>
      PROVE  DeliveryInv'
  <2>1. Len(wire') = k /\ \A i \in 1 .. k : i \in 1 .. Len(wire) /\ wire'[i] = wire[i]
    BY <1>2, <1>8
  <2>2. OnePlaceInv'
    BY <1>2, <1>3, <1>4, <1>5, <1>8, <2>1 DEF DeliveryInv, OnePlaceInv, OnWire
  <2>3. AtMostOnce' /\ RepliesInOrder'
    BY <1>6, <1>8 DEF AtMostOnce, RepliesInOrder
  <2>4. QED
    BY <1>1, <2>2, <2>3 DEF DeliveryInv
<1>9. ASSUME NEW c \in Conn, PublishStep(c) PROVE DeliveryInv'
  <2> DEFINE e == EventOf(c)
  <2>1. /\ recv[c] = "publishing" /\ UNCHANGED <<read, fan, sends, out>>
        /\ recv' \in {[recv EXCEPT ![c] = "reading"], [recv EXCEPT ![c] = "replying"]}
        /\ wire' \in {wire, Append(wire, e)}
    BY <1>9 DEF PublishStep, Publish, PublishFails, Proceed, RedisTakes, AfterFailure
  <2>2. /\ e \in Event /\ ~OnWire(e)
        /\ \A s \in fan \cup sends : s.event # e
        /\ \A d \in Conn : \A i \in 1 .. Len(out[d]) : out[d][i] # e
        /\ UNCHANGED e
    BY <2>1, PublishedIsNew DEF EventOf
  <2> HIDE DEF e
  <2>3. CASE UNCHANGED wire
    BY <1>7, <2>1, <2>3
  <2>4. CASE wire' = Append(wire, e)
    <3>1. Concluded(e)'
      BY <1>1, <2>1 DEF Concluded, EventOf, DTypeOK, e
    <3>2. /\ Len(wire') = Len(wire) + 1 /\ wire'[Len(wire) + 1] = e
          /\ \A i \in 1 .. Len(wire) : wire'[i] = wire[i]
      BY <1>2, <2>2, <2>4
    <3>3. \A f : OnWire(f)' => OnWire(f) \/ f = e
      BY <1>2, <3>2 DEF OnWire
    <3>4. WireInv'
      <4>1. Len(wire) \in Nat /\ \A i \in 1 .. Len(wire) : wire[i] # e
        BY <1>2, <2>2 DEF OnWire
      <4>2. \A i, j \in 1 .. Len(wire') : wire'[i] = wire'[j] => i = j
        BY <1>6, <3>2, <4>1 DEF WireInv
      <4>3. (\A i \in 1 .. Len(wire) : Concluded(wire[i]))'
        <5>1. SUFFICES ASSUME NEW i \in 1 .. Len(wire') PROVE (Concluded(wire[i]))'
          OBVIOUS
        <5>2. CASE i \in 1 .. Len(wire)
          BY <1>3, <1>5, <1>6, <3>2, <5>2 DEF WireInv, Concluded
        <5>3. CASE i = Len(wire) + 1
          BY <2>2, <3>1, <3>2, <5>3 DEF Concluded
        <5>4. QED
          BY <3>2, <4>1, <5>2, <5>3
      <4>4. QED
        BY <4>2, <4>3 DEF WireInv
    <3>5. PendingInv'
      BY <1>2, <1>3, <1>4, <1>6, <2>1, <2>2, <3>3 DEF PendingInv
    <3>6. (\A d \in Conn : \A i \in 1 .. Len(out[d]) : Written(d, out[d][i]))'
      BY <1>3, <1>5, <1>6, <2>1, <2>2, <3>3 DEF Written
    <3>7. AtMostOnce' /\ RepliesInOrder'
      BY <1>6, <2>1 DEF AtMostOnce, RepliesInOrder
    <3>8. OnePlaceInv'
      BY <3>4, <3>5, <3>6 DEF OnePlaceInv, WireInv, PendingInv, Written
    <3>9. QED
      BY <1>1, <3>7, <3>8 DEF DeliveryInv
  <2>5. QED
    BY <2>1, <2>3, <2>4
(* A frame is appended, one that its client did not have.                  *)
<1>10. ASSUME NEW c \in Conn, NEW f \in Event \cup Reply,
              out' = [out EXCEPT ![c] = Append(@, f)],
              \A i \in 1 .. Len(out[c]) : out[c][i] # f,
              f.kind = "reply" => \A i \in 1 .. Len(out[c]) :
                                    out[c][i].kind = "reply" => out[c][i].n < f.n
       PROVE  AtMostOnce' /\ RepliesInOrder'
  <2>1. /\ out'[c] \in Seq(Event \cup Reply)
        /\ Len(out'[c]) = Len(out[c]) + 1 /\ out'[c][Len(out[c]) + 1] = f
        /\ \A i \in 1 .. Len(out[c]) : out'[c][i] = out[c][i]
        /\ \A d \in Conn \ {c} : out'[d] = out[d]
    BY <1>2, <1>10
  <2>2. Len(out[c]) \in Nat
    BY <1>2
  <2>3. AtMostOnce'
    <3>1. SUFFICES ASSUME NEW d \in Conn, NEW i \in 1 .. Len(out'[d]),
                          NEW j \in 1 .. Len(out'[d]), out'[d][i] = out'[d][j]
                   PROVE  i = j
      BY DEF AtMostOnce
    <3>2. CASE d # c
      BY <1>6, <2>1, <3>1, <3>2 DEF AtMostOnce
    <3>3. CASE d = c
      <4>1. i \in 1 .. Len(out[c]) \/ i = Len(out[c]) + 1
        BY <2>1, <2>2, <3>3
      <4>2. j \in 1 .. Len(out[c]) \/ j = Len(out[c]) + 1
        BY <2>1, <2>2, <3>3
      <4>3. QED
        BY <1>6, <1>10, <2>1, <3>1, <3>3, <4>1, <4>2 DEF AtMostOnce
    <3>4. QED
      BY <3>2, <3>3
  <2>4. RepliesInOrder'
    <3>1. SUFFICES ASSUME NEW d \in Conn, NEW i \in 1 .. Len(out'[d]),
                          NEW j \in 1 .. Len(out'[d]), i < j,
                          out'[d][i].kind = "reply", out'[d][j].kind = "reply"
                   PROVE  out'[d][i].n < out'[d][j].n
      BY DEF RepliesInOrder
    <3>2. CASE d # c
      BY <1>6, <2>1, <3>1, <3>2 DEF RepliesInOrder
    <3>3. CASE d = c
      <4>1. i \in 1 .. Len(out[c])
        BY <2>1, <2>2, <3>1, <3>3
      <4>2. j \in 1 .. Len(out[c]) \/ j = Len(out[c]) + 1
        BY <2>1, <2>2, <3>3
      <4>3. QED
        BY <1>6, <1>10, <2>1, <3>1, <3>3, <4>1, <4>2 DEF RepliesInOrder
    <3>4. QED
      BY <3>2, <3>3
  <2>5. QED
    BY <2>3, <2>4
<1>11. ASSUME NEW c \in Conn, SendReply(c) PROVE DeliveryInv'
  <2> DEFINE f == ReplyTo(c)
  <2>1. /\ recv[c] = "replying" /\ recv' = [recv EXCEPT ![c] = "reading"]
        /\ UNCHANGED <<read, wire, fan, sends>>
        /\ out' = out \/ out' = [out EXCEPT ![c] = Append(@, f)]
    BY <1>11 DEF SendReply, Proceed, WriteReply
  <2>2. /\ f \in Reply /\ f.kind = "reply" /\ f.from = c
        /\ ~Answered(f) /\ Answered(f)'
        /\ \A g \in Reply : g.from = c /\ Answered(g) => g.n < f.n
        /\ UNCHANGED f
    <3>1. read[c] \in 1 .. MaxMessages
      BY <1>1, <2>1, DeliveryAssumption DEF DeliveryAssumption, OnTopicInv, DTypeOK
    <3>2. QED
      BY <1>1, <2>1, <3>1, DeliveryAssumption
      DEF DeliveryAssumption, ReplyTo, Reply, Answered, DTypeOK
  <2> HIDE DEF f
  <2>3. CASE UNCHANGED out
    BY <1>7, <2>1, <2>3
  <2>4. CASE out' = [out EXCEPT ![c] = Append(@, f)]
    <3>1. \A i \in 1 .. Len(out[c]) :
            /\ out[c][i] # f
            /\ out[c][i].kind = "reply" => out[c][i].n < f.n
      <4>1. SUFFICES ASSUME NEW i \in 1 .. Len(out[c]), out[c][i].kind = "reply"
                     PROVE  out[c][i] # f /\ out[c][i].n < f.n
        BY <2>2
      <4>2. out[c][i] \in Reply /\ out[c][i].from = c /\ Answered(out[c][i])
        BY <1>5, <1>6, <4>1 DEF Written, Event
      <4>3. QED
        BY <2>2, <4>2
    <3>2. AtMostOnce' /\ RepliesInOrder'
      BY <1>10, <2>2, <2>4, <3>1
    <3>3. (\A d \in Conn : \A i \in 1 .. Len(out[d]) : Written(d, out[d][i]))'
      <4>1. SUFFICES ASSUME NEW d \in Conn, NEW i \in 1 .. Len(out'[d])
                     PROVE  (Written(d, out[d][i]))'
        OBVIOUS
      <4>2. \/ i \in 1 .. Len(out[d]) /\ out'[d][i] = out[d][i]
            \/ d = c /\ out'[d][i] = f
        BY <1>2, <2>2, <2>4, AppendedElements
      <4>3. CASE d = c /\ out'[d][i] = f
        BY <2>2, <4>3 DEF Written
      <4>4. CASE i \in 1 .. Len(out[d]) /\ out'[d][i] = out[d][i]
        <5>1. out[d][i] \in Event \cup Reply /\ Written(d, out[d][i])
          BY <1>5, <1>6, <4>4
        <5>2. QED
          BY <1>3, <2>1, <4>4, <5>1 DEF Written, OnWire
      <4>5. QED
        BY <4>2, <4>3, <4>4
    <3>4. WireInv' /\ PendingInv'
      BY <1>2, <1>3, <1>4, <1>5, <1>6, <2>1 DEF WireInv, PendingInv, OnWire
    <3>5. OnePlaceInv'
      BY <3>3, <3>4 DEF OnePlaceInv, WireInv, PendingInv, Written
    <3>6. QED
      BY <1>1, <3>2, <3>5 DEF DeliveryInv
  <2>5. QED
    BY <2>1, <2>3, <2>4
<1>12. CASE TakeEvent
  <2> DEFINE e == Head(wire)
  <2>1. /\ wire # <<>> /\ wire' = Tail(wire) /\ fan = {}
        /\ fan' = {[to |-> c, event |-> e] : c \in Recipients(e)}
        /\ UNCHANGED <<recv, read, sends, out>>
    BY <1>12 DEF TakeEvent, BroadcastDone
  <2>2. /\ e \in Event /\ OnWire(e) /\ Concluded(e)
        /\ Len(wire') = Len(wire) - 1
        /\ \A i \in 1 .. Len(wire') : i + 1 \in 1 .. Len(wire) /\ wire'[i] = wire[i + 1]
    <3>1. wire # <<>> /\ e = wire[1] /\ 1 \in 1 .. Len(wire)
      BY <1>2, <2>1
    <3>2. QED
      BY <1>2, <1>5, <1>6, <2>1, <3>1 DEF OnWire, WireInv
  <2>3. \A f : OnWire(f)' => OnWire(f) /\ f # e
    <3>1. \A i \in 1 .. Len(wire') : wire'[i] # e
      BY <1>2, <1>6, <2>1, <2>2 DEF WireInv
    <3>2. QED
      BY <2>2, <3>1 DEF OnWire
  <2>4. \A s \in fan' : s \in PendingSend /\ s.event = e
    BY <1>1, <2>1 DEF DTypeOK
  <2> HIDE DEF e
  <2>5. WireInv'
    <3>1. \A i, j \in 1 .. Len(wire') : wire'[i] = wire'[j] => i = j
      <4>1. Len(wire') \in Nat
        BY <1>2
      <4>2. QED
        BY <1>6, <2>2, <4>1 DEF WireInv
    <3>2. (\A i \in 1 .. Len(wire) : Concluded(wire[i]))'
      BY <1>3, <1>5, <1>6, <2>2 DEF WireInv
    <3>3. QED
      BY <3>1, <3>2 DEF WireInv
  <2>6. PendingInv'
    BY <1>2, <1>3, <1>4, <1>6, <2>1, <2>2, <2>3, <2>4 DEF PendingInv
  <2>7. (\A d \in Conn : \A i \in 1 .. Len(out[d]) : Written(d, out[d][i]))'
    <3>1. SUFFICES ASSUME NEW d \in Conn, NEW i \in 1 .. Len(out[d])
                   PROVE  (Written(d, out[d][i]))'
      BY <2>1
    <3> DEFINE f == out[d][i]
    <3>2. f \in Event \cup Reply /\ Written(d, f)
      BY <1>5, <1>6
    <3>3. UNCHANGED f
      BY <2>1
    <3>4. f.kind # "reply" => f # e /\ [to |-> d, event |-> f] \notin fan'
      BY <2>2, <2>4, <3>2 DEF Written
    <3> HIDE DEF f
    <3>5. QED
      BY <1>3, <2>1, <2>3, <3>2, <3>3, <3>4 DEF Written, f
  <2>8. AtMostOnce' /\ RepliesInOrder'
    BY <1>6, <2>1 DEF AtMostOnce, RepliesInOrder
  <2>9. OnePlaceInv'
    BY <2>5, <2>6, <2>7 DEF OnePlaceInv, WireInv, PendingInv, Written
  <2>10. QED
    BY <1>1, <2>8, <2>9 DEF DeliveryInv
(* Copies go from the listener to a task, or are dropped.                  *)
<1>13. ASSUME fan' \cap sends' = {}, fan' \cup sends' \subseteq fan \cup sends,
              UNCHANGED <<recv, read, wire>>
       PROVE  /\ WireInv' /\ PendingInv'
              /\ \A c \in Conn, f \in Event \cup Reply : Written(c, f) => Written(c, f)'
  BY <1>3, <1>2, <1>4, <1>5, <1>6, <1>13 DEF WireInv, PendingInv, Written, OnWire
<1>14. ASSUME FanOut \/ \E s \in sends : DeliverFails(s) PROVE DeliveryInv'
  <2>1. /\ fan' \cap sends' = {} /\ fan' \cup sends' \subseteq fan \cup sends
        /\ UNCHANGED <<recv, read, wire, out>>
    BY <1>6, <1>14 DEF FanOut, Dispatch, Undone, DeliverFails, PendingInv
  <2>2. OnePlaceInv'
    BY <1>5, <1>6, <1>13, <2>1 DEF OnePlaceInv, WireInv, PendingInv, Written
  <2>3. AtMostOnce' /\ RepliesInOrder'
    BY <1>6, <2>1 DEF AtMostOnce, RepliesInOrder
  <2>4. QED
    BY <1>1, <2>2, <2>3 DEF DeliveryInv
<1>15. ASSUME NEW s \in sends, Deliver(s) PROVE DeliveryInv'
  <2>1. /\ fan' = fan /\ sends' = sends \ {s} /\ s \notin fan
        /\ out' = [out EXCEPT ![s.to] = Append(@, s.event)]
        /\ UNCHANGED <<recv, read, wire>>
    BY <1>6, <1>15 DEF Deliver, PendingInv
  <2>2. /\ s.to \in Conn /\ s.event \in Event /\ s.event.kind = "event"
        /\ s = [to |-> s.to, event |-> s.event] /\ s \in fan \cup sends
    BY <1>2, <1>4
  <2>3. Concluded(s.event) /\ ~OnWire(s.event)
    BY <1>6 DEF PendingInv
  <2>4. \A i \in 1 .. Len(out[s.to]) : out[s.to][i] # s.event
    BY <1>6, <2>2 DEF Written
  <2>5. AtMostOnce' /\ RepliesInOrder'
    BY <1>10, <2>1, <2>2, <2>4
  <2>6. WireInv' /\ PendingInv'
        /\ \A c \in Conn, f \in Event \cup Reply : Written(c, f) => Written(c, f)'
    <3>1. fan' \cap sends' = {} /\ fan' \cup sends' \subseteq fan \cup sends
      BY <1>6, <2>1 DEF PendingInv
    <3>2. QED
      BY <1>13, <2>1, <3>1
  <2>7. Written(s.to, s.event)'
    BY <1>3, <2>1, <2>2, <2>3 DEF Written, OnWire
  <2>8. (\A d \in Conn : \A i \in 1 .. Len(out[d]) : Written(d, out[d][i]))'
    <3>1. SUFFICES ASSUME NEW d \in Conn, NEW i \in 1 .. Len(out'[d])
                   PROVE  (Written(d, out[d][i]))'
      OBVIOUS
    <3>2. \/ i \in 1 .. Len(out[d]) /\ out'[d][i] = out[d][i]
          \/ d = s.to /\ out'[d][i] = s.event
      BY <1>2, <2>1, <2>2, AppendedElements
    <3>3. CASE d = s.to /\ out'[d][i] = s.event
      BY <2>7, <3>3 DEF Written
    <3>4. CASE i \in 1 .. Len(out[d]) /\ out'[d][i] = out[d][i]
      <4>1. Written(d, out[d][i]) /\ out[d][i] \in Event \cup Reply
        BY <1>5, <1>6, <3>4
      <4>2. QED
        BY <2>6, <3>4, <4>1 DEF Written
    <3>5. QED
      BY <3>2, <3>3, <3>4
  <2>9. OnePlaceInv'
    BY <2>6, <2>8 DEF OnePlaceInv, WireInv, PendingInv, Written
  <2>10. QED
    BY <1>1, <2>5, <2>9 DEF DeliveryInv
<1>16. ASSUME NEW c \in Conn,
              ConnectionStep(c) \/ SocketBreaks(c) \/ HandlerStep(c)
       PROVE  Same
  BY <1>16
  DEF ConnectionStep, SocketBreaks, HandlerStep, ReadMessage, HandleDirect,
      HandleBroadcast, Proceed, deliveryVars
<1>17. CASE ListenerTurn
  <2>1. \/ Same
        \/ wire' = SubSeq(wire, 1, 0) /\ UNCHANGED <<fan, sends, out>>
    BY <1>2, <1>17 DEF ListenerTurn
  <2>2. 0 \in 0 .. Len(wire)
    BY <1>2
  <2>3. QED
    BY <1>7, <1>8, <2>1, <2>2
<1>18. CASE LinkLost
  <2>1. PICK k \in 0 .. Len(wire) : wire' = SubSeq(wire, 1, k)
    BY <1>18 DEF LinkLost
  <2>2. QED
    BY <1>8, <1>18, <2>1 DEF LinkLost
<1>19. CASE UNCHANGED dvars
  BY <1>7, <1>19 DEF dvars, deliveryVars
<1>20. QED
  BY <1>7, <1>9, <1>11, <1>12, <1>14, <1>15, <1>16, <1>17, <1>18, <1>19
  DEF DNext, KitStep

(* No client gets an event or an answer twice, and its messages are        *)
(* answered in the order it sent them, for any number of clients and       *)
(* messages and whatever the listener and the link go through.             *)
THEOREM DeliveryIsRight == DSpec => []DeliveryInv
BY InitDelivery, NextDelivery, PTL DEF DSpec

(* No client gets a frame twice (handle_redis_broadcast and its tasks).    *)
THEOREM FramesArriveAtMostOnce == DSpec => []AtMostOnce
<1>1. DeliveryInv => AtMostOnce
  BY DEF DeliveryInv
<1>2. QED
  BY <1>1, DeliveryIsRight, PTL

(* A client is answered in the order of its messages (the receive loop).   *)
THEOREM RepliesAreAlwaysInOrder == DSpec => []RepliesInOrder
<1>1. DeliveryInv => RepliesInOrder
  BY DEF DeliveryInv
<1>2. QED
  BY <1>1, DeliveryIsRight, PTL

-----------------------------------------------------------------------------
(* The refinement.                                                         *)

LEMMA OnItsWayMembers ==
  ASSUME DTypeOK
  PROVE  \A s : s \in OnItsWay <=>
           \E i \in 1 .. Len(wire) : s \in B!Copies(wire[i])
BY DEF OnItsWay, B!Copies

LEMMA InitImplementsBroadcast == DInit => B!Init
<1> SUFFICES ASSUME DInit PROVE B!Init
  OBVIOUS
<1>1. OnItsWay = {}
  BY DEF DInit, OnItsWay
<1>2. QED
  BY <1>1 DEF DInit, B!Init

LEMMA NextImplementsBroadcast == DeliveryInv /\ [DNext]_dvars => [B!Next]_(B!bvars)
<1> SUFFICES ASSUME DeliveryInv, [DNext]_dvars PROVE [B!Next]_(B!bvars)
  OBVIOUS
<1>1. DTypeOK /\ DTypeOK' /\ DeliveryInv'
  BY NextDelivery DEF DeliveryInv, OnTopicInv
<1>2. /\ wire \in Seq(Event) /\ wire' \in Seq(Event)
      /\ recv \in [Conn -> RecvState] /\ read \in [Conn -> Nat]
      /\ out \in [Conn -> Seq(Event \cup Reply)]
  BY <1>1, DeliveryAssumption DEF DTypeOK, DeliveryAssumption
<1> DEFINE open  == {c \in Conn : recv[c] \in {"direct", "broadcast", "publishing"}}
           owed  == {c \in Conn : recv[c] # "reading"}
           pending == OnItsWay \cup fan \cup sends
<1>3. (UNCHANGED wire) => UNCHANGED OnItsWay
  BY DEF OnItsWay
<1>4. (UNCHANGED recv) => UNCHANGED <<open, owed>>
  OBVIOUS
<1>5. ASSUME UNCHANGED <<read, recv, out>>, pending' \subseteq pending
      PROVE  B!Lose
  BY <1>4, <1>5 DEF B!Lose
<1>6. B!Lose => B!Next
  BY DEF B!Next
<1>7. ASSUME NEW c \in Conn, ConnectionStep(c) \/ SocketBreaks(c) PROVE B!Lose
  BY <1>3, <1>5, <1>7 DEF ConnectionStep, SocketBreaks, deliveryVars
<1>8. ASSUME NEW k \in 0 .. Len(wire), wire' = SubSeq(wire, 1, k),
             UNCHANGED <<read, recv, fan, sends, out>>
      PROVE  B!Lose
  <2>1. \A i \in 1 .. Len(wire') : i \in 1 .. Len(wire) /\ wire'[i] = wire[i]
    BY <1>2, <1>8
  <2>2. OnItsWay' \subseteq OnItsWay
    BY <2>1 DEF OnItsWay
  <2>3. QED
    BY <1>5, <1>8, <2>2
<1>9. CASE ListenerTurn
  <2>1. UNCHANGED wire \/ wire' = SubSeq(wire, 1, 0)
    BY <1>2, <1>9 DEF ListenerTurn
  <2>2. CASE UNCHANGED wire
    BY <1>3, <1>5, <1>6, <1>9, <2>2 DEF ListenerTurn
  <2>3. CASE wire' = SubSeq(wire, 1, 0)
    <3>1. 0 \in 0 .. Len(wire)
      BY <1>2
    <3>2. QED
      BY <1>6, <1>8, <1>9, <2>3, <3>1 DEF ListenerTurn
  <2>4. QED
    BY <2>1, <2>2, <2>3
<1>10. CASE LinkLost
  <2>1. PICK k \in 0 .. Len(wire) : wire' = SubSeq(wire, 1, k)
    BY <1>10 DEF LinkLost
  <2>2. QED
    BY <1>6, <1>8, <1>10, <2>1 DEF LinkLost
<1>11. ASSUME NEW c \in Conn, ReadMessage(c) PROVE B!Ask(c)
  <2>1. /\ recv[c] = "reading" /\ read' = [read EXCEPT ![c] = @ + 1]
        /\ recv' \in {[recv EXCEPT ![c] = "direct"], [recv EXCEPT ![c] = "replying"]}
        /\ UNCHANGED <<wire, fan, sends, out>>
    BY <1>11 DEF ReadMessage, Proceed
  <2>2. owed' = owed \cup {c} /\ open' \in {open, open \cup {c}} /\ c \notin owed
    BY <1>2, <2>1
  <2>3. QED
    BY <1>3, <2>1, <2>2 DEF B!Ask
<1>12. ASSUME NEW c \in Conn, HandleDirect(c) \/ HandleBroadcast(c)
       PROVE  B!PublishNothing(c) \/ UNCHANGED B!bvars
  <2>1. /\ recv[c] \in {"direct", "broadcast"}
        /\ \E to \in RecvState : recv' = [recv EXCEPT ![c] = to]
        /\ UNCHANGED <<read, wire, fan, sends, out>>
    BY <1>12 DEF HandleDirect, HandleBroadcast, Proceed, RecvState
  <2>2. CASE recv'[c] \in {"direct", "broadcast", "publishing"}
    <3>1. open' = open /\ owed' = owed
      BY <1>2, <2>1, <2>2
    <3>2. QED
      BY <1>3, <2>1, <3>1 DEF B!bvars
  <2>3. CASE recv'[c] \in {"reading", "replying"}
    <3>1. open' = open \ {c} /\ owed' \in {owed, owed \ {c}} /\ c \in open
      BY <1>2, <2>1, <2>3
    <3>2. QED
      BY <1>3, <2>1, <3>1 DEF B!PublishNothing, B!Settle
  <2>4. QED
    BY <1>2, <2>1, <2>2, <2>3 DEF RecvState
<1>13. ASSUME NEW c \in Conn, PublishStep(c) PROVE B!Publish(c) \/ B!PublishNothing(c)
  <2>1. /\ recv[c] = "publishing" /\ UNCHANGED <<read, fan, sends, out>>
        /\ recv' \in {[recv EXCEPT ![c] = "reading"], [recv EXCEPT ![c] = "replying"]}
        /\ wire' \in {wire, Append(wire, EventOf(c))}
    BY <1>13 DEF PublishStep, Publish, PublishFails, Proceed, RedisTakes, AfterFailure
  <2>2. B!Settle(c)
    <3>1. open' = open \ {c} /\ owed' \in {owed, owed \ {c}} /\ c \in open
      BY <1>2, <2>1
    <3>2. QED
      BY <2>1, <3>1 DEF B!Settle
  <2>3. CASE UNCHANGED wire
    BY <1>3, <2>1, <2>2, <2>3 DEF B!PublishNothing
  <2>4. CASE wire' = Append(wire, EventOf(c))
    <3>1. EventOf(c) = B!Frame("event", c) /\ EventOf(c) \in Event
      BY <2>1, PublishedIsNew DEF EventOf, B!Frame
    <3>2. OnItsWay' = OnItsWay \cup B!Copies(EventOf(c))
      <4>1. /\ Len(wire') = Len(wire) + 1 /\ wire'[Len(wire) + 1] = EventOf(c)
            /\ \A i \in 1 .. Len(wire) : wire'[i] = wire[i]
            /\ Len(wire) \in Nat
        BY <1>2, <2>4, <3>1
      <4>2. \A s : s \in OnItsWay' <=>
                    \E i \in 1 .. Len(wire') : s \in B!Copies(wire'[i])
        BY DEF OnItsWay, B!Copies
      <4>3. QED
        BY <1>1, <4>1, <4>2, OnItsWayMembers
    <3>3. QED
      BY <2>1, <2>2, <3>1, <3>2 DEF B!Publish
  <2>5. QED
    BY <2>1, <2>3, <2>4
<1>14. ASSUME NEW c \in Conn, SendReply(c) PROVE B!Answer(c)
  <2>1. /\ recv[c] = "replying" /\ recv' = [recv EXCEPT ![c] = "reading"]
        /\ UNCHANGED <<read, wire, fan, sends>>
        /\ out' \in {out, [out EXCEPT ![c] = Append(@, B!Frame("reply", c))]}
    BY <1>14 DEF SendReply, Proceed, WriteReply, ReplyTo, B!Frame
  <2>2. open' = open /\ owed' = owed \ {c} /\ c \in owed \ open
    BY <1>2, <2>1
  <2>3. QED
    BY <1>3, <2>1, <2>2 DEF B!Answer
<1>15. CASE TakeEvent
  <2> DEFINE e == Head(wire)
  <2>1. /\ wire # <<>> /\ wire' = Tail(wire)
        /\ fan' = {[to |-> c, event |-> e] : c \in Recipients(e)}
        /\ UNCHANGED <<recv, read, sends, out>>
    BY <1>15 DEF TakeEvent
  <2>2. /\ e = wire[1] /\ 1 \in 1 .. Len(wire) /\ e \in Event
        /\ \A i \in 1 .. Len(wire') : i + 1 \in 1 .. Len(wire) /\ wire'[i] = wire[i + 1]
    BY <1>2, <2>1
  <2>3. OnItsWay' \subseteq OnItsWay
    BY <2>2 DEF OnItsWay
  <2>4. fan' \subseteq OnItsWay
    <3>1. fan' \subseteq B!Copies(e)
      <4>1. \A s \in fan' : s \in PendingSend /\ TopicOf[s.event.from] = TopicOf[s.to]
        BY <1>1 DEF DeliveryInv, OnTopicInv, DTypeOK
      <4>2. \A c \in Recipients(e) :
              [to |-> c, event |-> e].to = c /\ [to |-> c, event |-> e].event = e
        OBVIOUS
      <4>3. \A c \in Recipients(e) : c \in Conn /\ TopicOf[c] = TopicOf[e.from]
        BY <2>1, <4>1, <4>2 DEF PendingSend
      <4>4. QED
        BY <2>1, <4>3 DEF B!Copies
    <3>2. QED
      BY <1>1, <2>2, <3>1, OnItsWayMembers
  <2>5. QED
    BY <1>5, <1>6, <2>1, <2>3, <2>4
<1>16. ASSUME FanOut \/ \E s \in sends : DeliverFails(s) PROVE B!Lose
  <2>1. /\ fan' \cup sends' \subseteq fan \cup sends
        /\ UNCHANGED <<recv, read, wire, out>>
    BY <1>16 DEF FanOut, Dispatch, Undone, DeliverFails
  <2>2. QED
    BY <1>3, <1>5, <2>1
<1>17. ASSUME NEW s \in sends, Deliver(s) PROVE B!Deliver(s)
  <2>1. /\ fan' = fan /\ sends' = sends \ {s}
        /\ out' = [out EXCEPT ![s.to] = Append(@, s.event)]
        /\ UNCHANGED <<recv, read, wire>>
    BY <1>17 DEF Deliver
  <2>2. s \notin fan
    BY DEF DeliveryInv, OnePlaceInv
  <2>3. s \notin OnItsWay
    <3>1. ~OnWire(s.event)
      BY DEF DeliveryInv, OnePlaceInv
    <3>2. \A i \in 1 .. Len(wire) : s \notin B!Copies(wire[i])
      BY <3>1 DEF OnWire, B!Copies
    <3>3. QED
      BY <1>1, <3>2, OnItsWayMembers
  <2>4. pending' = pending \ {s} /\ s \in pending
    BY <1>3, <2>1, <2>2, <2>3
  <2>5. QED
    BY <1>4, <2>1, <2>4 DEF B!Deliver
<1>18. ASSUME NEW s \in sends, Deliver(s) PROVE B!Next
  BY <1>17, <1>18 DEF B!Next
<1>19. CASE UNCHANGED dvars
  BY <1>3, <1>5, <1>6, <1>19 DEF dvars, deliveryVars
<1>20. QED
  BY <1>6, <1>7, <1>9, <1>10, <1>11, <1>12, <1>13, <1>14, <1>15, <1>16, <1>18, <1>19
  DEF DNext, HandlerStep, KitStep, B!Next

(* Every behaviour of the data path is one that Broadcast allows.          *)
THEOREM DeliveryImplementsBroadcast == DSpec => BroadcastSpec
BY InitImplementsBroadcast, NextImplementsBroadcast, DeliveryIsRight, PTL
DEF DSpec, BroadcastSpec, B!Spec
=============================================================================
