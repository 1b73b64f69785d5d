--------------------------- MODULE MessageDelivery ---------------------------
(***************************************************************************)
(* The data path of a node, on top of WebsocketService: what the receive   *)
(* loop of a connection does with the client's messages, how an event goes *)
(* through Redis to the listener, and how the listener fans it out to the  *)
(* clients of the topic, each in a task of its own.  The other nodes are   *)
(* present by their clients: nodes share nothing but Redis, so all that    *)
(* this node sees of them is the events they publish.                      *)
(***************************************************************************)
EXTENDS WebsocketService

CONSTANTS
  Remote,       \* the connections that other nodes serve
  Stuck,        \* connections whose socket may take for ever to accept a frame
  Senders,      \* bound: the clients that send messages at all ...
  MaxMessages   \* ... and how many each of them sends

ASSUME DeliveryAssumption ==
  /\ Remote \subseteq Conn
  /\ Stuck \subseteq Conn
  /\ Senders \subseteq Conn
  /\ MaxMessages \in Nat

VARIABLES
  recv,   \* recv[c]: where the receive loop of c is
  read,   \* read[c]: messages it has read; the last one is being handled
  wire,   \* the events Redis has sent to the listener, oldest first
  fan,    \* ids the listener has yet to look up for the event it took: sends
  sends,  \* spawned tasks that have not sent their frame yet
  out,    \* out[c]: the frames written to the socket of c, oldest first
  broken  \* connections whose socket no longer takes frames

deliveryVars == <<recv, read, wire, fan, sends, out, broken>>
dvars == <<vars, deliveryVars>>

(* An event is known by the connection and the message it came from.       *)
Event == [kind : {"event"}, from : Conn, n : 1 .. MaxMessages]
Reply == [kind : {"reply"}, from : Conn, n : 1 .. MaxMessages]

(* Bug: a message gets its number before it is counted.                    *)
EventOfEarlier(c) == [kind |-> "event", from |-> c, n |-> read[c] - 1]

EventOf(c) == [kind |-> "event", from |-> c, n |-> read[c]]
ReplyTo(c) == [kind |-> "reply", from |-> c, n |-> read[c]]

RecvState == {"reading", "direct", "broadcast", "publishing", "replying"}

DInit ==
  /\ Init
  /\ recv = [c \in Conn |-> "reading"]
  /\ read = [c \in Conn |-> 0]
  /\ wire = <<>>
  /\ fan = {}
  /\ sends = {}
  /\ out = [c \in Conn |-> <<>>]
  /\ broken = {}

-----------------------------------------------------------------------------
(* The receive loop, which handles one message after the other.            *)

Proceed(c, from, to) ==
  /\ pc[c] = "serving" \/ c \in Remote
  /\ recv[c] = from
  /\ recv' = [recv EXCEPT ![c] = to]
  /\ UNCHANGED <<vars, fan, broken>>

(* A text frame is parsed, or answered with an error.                      *)
ReadMessage(c) ==
  /\ c \in Senders
  /\ read[c] < MaxMessages
  /\ read' = [read EXCEPT ![c] = @ + 1]
  /\ \E to \in {"direct", "replying"} : Proceed(c, "reading", to)
  /\ UNCHANGED <<wire, sends, out>>

(* The direct handler answers (or fails), or passes the message on.        *)
HandleDirect(c) ==
  /\ \E to \in {"replying", "broadcast"} : Proceed(c, "direct", to)
  /\ UNCHANGED <<read, wire, sends, out>>

(* The broadcast handler has an event, has none, or fails.                 *)
HandleBroadcast(c) ==
  /\ \E to \in {"publishing", "reading", "replying"} : Proceed(c, "broadcast", to)
  /\ UNCHANGED <<read, wire, sends, out>>

(* Redis hands an event to the connections subscribed to its channel at    *)
(* that moment, and to nobody later.                                       *)
RedisTakes(e) ==
  wire' = IF linkUp /\ TopicOf[e.from] \in redisSubs THEN Append(wire, e) ELSE wire

Publish(c) ==
  /\ Proceed(c, "publishing", "reading")
  /\ RedisTakes(EventOf(c))
  /\ UNCHANGED <<read, sends, out>>

(* Bug: a publication that seems to have failed is tried again.            *)
AfterFailureRetry == "publishing"

AfterFailure == "replying"

(* An error is reported to the sender: no connection, or the command was   *)
(* lost, or only its answer was.  It is not tried again.                   *)
PublishFails(c) ==
  /\ Proceed(c, "publishing", AfterFailure)
  /\ RedisTakes(EventOf(c)) \/ UNCHANGED wire
  /\ UNCHANGED <<read, sends, out>>

(* Bug: replies are sent by spawned tasks, as broadcasts are.              *)
WriteReplySpawned(c) ==
  sends' = sends \cup {[to |-> c, event |-> ReplyTo(c)]} /\ UNCHANGED out

(* Under the sink's lock, from the loop itself.  That the socket refuses   *)
(* the frame is only logged.                                               *)
WriteReply(c) ==
  /\ out' = IF c \in broken THEN out ELSE [out EXCEPT ![c] = Append(@, ReplyTo(c))]
  /\ UNCHANGED sends

(* A response or an error goes to the sender.                              *)
SendReply(c) ==
  /\ Proceed(c, "replying", "reading")
  /\ WriteReply(c)
  /\ UNCHANGED <<read, wire>>

-----------------------------------------------------------------------------
(* The listener and the tasks it spawns.                                   *)

(* Bug: an event goes to every connection of the node.                     *)
RecipientsAll(e) == connections

Recipients(e) == subscriptions[TopicOf[e.from]]

(* Bug: the listener waits for the tasks it has spawned.                   *)
BroadcastDoneWhenSent == fan = {} /\ sends = {}

(* Bug: broadcasts are spawned, and all of them use one copy of the ids.   *)
BroadcastDoneAlways == TRUE

BroadcastDone == fan = {}

(* handle_redis_broadcast takes a copy of the topic's ids ...              *)
TakeEvent ==
  /\ lst = "listening"
  /\ queue = <<>>
  /\ BroadcastDone
  /\ wire # <<>>
  /\ wire' = Tail(wire)
  /\ fan' = {[to |-> c, event |-> Head(wire)] : c \in Recipients(Head(wire))}
  /\ UNCHANGED <<vars, recv, read, sends, out, broken>>

(* Bug: the copy of the ids is not used up.                                *)
UndoneKept(s) == fan

Undone(s) == fan \ {s}

(* ... and then looks up their sinks one by one.                           *)
Dispatch(s) ==
  /\ s \in fan
  /\ fan' = Undone(s)
  /\ sends' = IF s.to \in connections THEN sends \cup {s} ELSE sends
  /\ UNCHANGED <<vars, recv, read, wire, out, broken>>

(* Spawned tasks get the sink's lock in any order.                         *)
Deliver(s) ==
  /\ s \in sends
  /\ s.to \notin broken
  /\ sends' = sends \ {s}
  /\ out' = [out EXCEPT ![s.to] = Append(@, s.event)]
  /\ UNCHANGED <<vars, recv, read, wire, fan, broken>>

SocketOpen(c) == pc[c] \in {"subscribe", "sendSub", "onConnect", "serving"}

(* The socket of a client that is going away refuses the frame, perhaps    *)
(* before the receive loop has noticed.                                    *)
DeliverFails(s) ==
  /\ s \in sends
  /\ s.to \in broken \/ ~SocketOpen(s.to)
  /\ sends' = sends \ {s}
  /\ UNCHANGED <<vars, recv, read, wire, fan, out, broken>>

SocketBreaks(c) ==
  /\ SocketOpen(c)
  /\ c \notin broken
  /\ broken' = broken \cup {c}
  /\ UNCHANGED <<vars, recv, read, wire, fan, sends, out>>

-----------------------------------------------------------------------------
(* The steps of WebsocketService in this setting.                          *)

(* Bug: the loop ends without on_disconnect.                               *)
LeaveLoopSilently(c) == recv[c] = "reading" /\ Advance(c, "serving", "gone")

(* The loop is left between two messages.                                  *)
LeaveLoop(c) == recv[c] = "reading" /\ Close(c)

(* Hooks panic while they run.                                             *)
ConnectionStep(c) ==
  /\ c \notin Remote
  /\ \/ Accept(c) \/ TaskStep(c) \/ LeaveLoop(c)
     \/ HookPanic(c) /\ (pc[c] = "serving" => recv[c] \in {"direct", "broadcast"})
  /\ UNCHANGED deliveryVars

(* The listener does one thing at a time, and a new Pub/Sub connection has *)
(* a message stream of its own.                                            *)
ListenerTurn ==
  /\ BroadcastDone
  /\ ListenerStep \/ ConnectFails \/ LinkFault
  /\ wire' = IF lst' = "connecting" THEN <<>> ELSE wire
  /\ UNCHANGED <<recv, read, fan, sends, out, broken>>

(* What had reached the node by then is still read from the stream.        *)
LinkLost ==
  /\ LinkDrops
  /\ \E k \in 0 .. Len(wire) : wire' = SubSeq(wire, 1, k)
  /\ UNCHANGED <<recv, read, fan, sends, out, broken>>

(* What the application's handler decides, and what the kit does.          *)
HandlerStep(c) == ReadMessage(c) \/ HandleDirect(c) \/ HandleBroadcast(c)

PublishStep(c) == Publish(c) \/ PublishFails(c)

FanOut == \E s \in fan : Dispatch(s)

KitStep ==
  \/ \E c \in Conn : ConnectionStep(c) \/ SocketBreaks(c)
  \/ \E c \in Conn : PublishStep(c) \/ SendReply(c)
  \/ ListenerTurn \/ LinkLost \/ TakeEvent \/ FanOut
  \/ \E s \in sends : Deliver(s) \/ DeliverFails(s)

DNext == (\E c \in Conn : HandlerStep(c)) \/ KitStep

DSpec == DInit /\ [][DNext]_dvars

(* As in WebsocketService; in addition handlers return, and sockets that   *)
(* are not stuck take the frames written to them.                          *)
DFairness ==
  /\ \A c \in Conn :
       /\ WF_dvars(TaskStep(c) /\ UNCHANGED deliveryVars)
       /\ WF_dvars(HandleDirect(c) \/ HandleBroadcast(c) \/ PublishStep(c))
  /\ WF_dvars(ListenerTurn /\ ListenerStep)
  /\ WF_dvars(TakeEvent) /\ WF_dvars(FanOut)
  /\ \A c \in Conn \ Stuck :
       /\ WF_dvars(SendReply(c))
       /\ \A e \in Event :
            LET s == [to |-> c, event |-> e] IN WF_dvars(Deliver(s) \/ DeliverFails(s))

DFairSpec == DSpec /\ DFairness

-----------------------------------------------------------------------------
(* Properties.                                                             *)

PendingSend == [to : Conn, event : Event]

DTypeOK ==
  /\ TypeOK
  /\ recv \in [Conn -> RecvState]
  /\ read \in [Conn -> 0 .. MaxMessages]
  /\ wire \in Seq(Event)
  /\ fan \subseteq PendingSend
  /\ sends \subseteq PendingSend
  /\ out \in [Conn -> Seq(Event \cup Reply)]
  /\ broken \subseteq Conn

(* No client gets a frame twice, although its id may join and leave sets   *)
(* while an event is on its way and the channel may be subscribed twice.   *)
AtMostOnce ==
  \A c \in Conn : \A i, j \in 1 .. Len(out[c]) : out[c][i] = out[c][j] => i = j

(* Events stay on their topic, also when connections come and go between   *)
(* the copy of the ids, the look-up of a sink and the write.               *)
EventsStayOnTopic ==
  \A c \in Conn : \A i \in 1 .. Len(out[c]) :
    out[c][i].kind = "event" => TopicOf[out[c][i].from] = TopicOf[c]

(* A client's messages are answered in the order they were sent, whatever  *)
(* broadcast frames come in between.                                       *)
RepliesInOrder ==
  \A c \in Conn : \A i, j \in 1 .. Len(out[c]) :
    i < j /\ out[c][i].kind = "reply" /\ out[c][j].kind = "reply"
      => out[c][i].n < out[c][j].n

(* The inductive invariant behind EventsStayOnTopic.                       *)
OnTopicInv ==
  /\ DTypeOK
  /\ RegistryInv
  /\ \A c \in Conn : recv[c] # "reading" => read[c] > 0
  /\ \A s \in fan \cup sends : TopicOf[s.event.from] = TopicOf[s.to]
  /\ EventsStayOnTopic

(* The message of e was handled, so it will not be published (again).      *)
Concluded(e) ==
  \/ e.n < read[e.from]
  \/ e.n = read[e.from] /\ recv[e.from] \in {"reading", "replying"}

Answered(e) ==
  \/ e.n < read[e.from]
  \/ e.n = read[e.from] /\ recv[e.from] = "reading"

OnWire(e) == \E i \in 1 .. Len(wire) : wire[i] = e

(* The inductive invariant behind AtMostOnce and RepliesInOrder: a copy of *)
(* an event is in one place only, on the wire, with the listener, with a   *)
(* spawned task or with its client.                                        *)
OnePlaceInv ==
  /\ \A i, j \in 1 .. Len(wire) : wire[i] = wire[j] => i = j
  /\ \A i \in 1 .. Len(wire) : Concluded(wire[i])
  /\ fan \cap sends = {}
  /\ \A s \in fan \cup sends : Concluded(s.event) /\ ~OnWire(s.event)
  /\ \A c \in Conn : \A i \in 1 .. Len(out[c]) :
       LET f == out[c][i] IN
       IF f.kind = "reply" THEN f.from = c /\ Answered(f)
       ELSE Concluded(f) /\ ~OnWire(f) /\ [to |-> c, event |-> f] \notin fan \cup sends

(* Of the events of one client, those on the wire are in the order they    *)
(* were published in and later than all that were taken off it, and the    *)
(* one that is being fanned out is the last one taken: nothing but the     *)
(* spawned tasks, each writing its own frame, can make a later event       *)
(* overtake an earlier one.                                                *)
Before(e, f) == e.from = f.from => e.n < f.n

OrderUntilSpawned ==
  /\ \A i, j \in 1 .. Len(wire) : i < j => Before(wire[i], wire[j])
  /\ \A i \in 1 .. Len(wire) :
       /\ \A s \in fan \cup sends : Before(s.event, wire[i])
       /\ \A d \in Conn : \A j \in 1 .. Len(out[d]) :
            out[d][j].kind = "event" => Before(out[d][j], wire[i])
  /\ \A s \in fan :
       /\ \A r \in fan : r.event = s.event
       /\ \A r \in sends : r.event.from = s.event.from => r.event.n <= s.event.n
       /\ \A d \in Conn : \A j \in 1 .. Len(out[d]) :
            out[d][j].kind = "event" /\ out[d][j].from = s.event.from
              => out[d][j].n <= s.event.n

DeliveryInv == OnTopicInv /\ OnePlaceInv /\ AtMostOnce /\ RepliesInOrder

(* The data path implements Broadcast: an event on the wire stands for a   *)
(* copy to each client of its topic, of which those that are not on this   *)
(* node, or not listed when the event is taken, are lost.                  *)
OnItsWay ==
  UNION {{[to |-> d, event |-> wire[i]] : d \in {x \in Conn : TopicOf[x] = TopicOf[wire[i].from]}} :
           i \in 1 .. Len(wire)}

B == INSTANCE Broadcast WITH
  asked   <- read,
  open    <- {c \in Conn : recv[c] \in {"direct", "broadcast", "publishing"}},
  owed    <- {c \in Conn : recv[c] # "reading"},
  pending <- OnItsWay \cup fan \cup sends,
  got     <- out

BroadcastSpec == B!Spec

Got(c, e) == \E i \in 1 .. Len(out[c]) : out[c][i] = e

(* No copy of an event gets lost without a reason, which the place it was  *)
(* at allows: on the wire, that the link is gone or its client not listed; *)
(* in the listener's copy of the ids, that its client has no sink any      *)
(* more; with a spawned task, that the socket does not take it.            *)
LossesHaveReasons ==
  [][\A d \in Conn, e \in Event :
       LET s == [to |-> d, event |-> e] IN
       /\ OnWire(e) /\ d \in Recipients(e) =>
            OnWire(e)' \/ s \in fan' \/ ~linkUp'
       /\ s \in fan /\ d \in connections => s \in fan' \cup sends'
       /\ s \in sends /\ SocketOpen(d) /\ d \notin broken =>
            s \in sends' \/ Got(d, e)']_dvars

(* What lets the listener go on by itself: copies to hand to tasks, or one *)
(* of its own steps, which end well or badly but end.                      *)
ListenerMayGoOn ==
  \/ fan # {}
  \/ BroadcastDone /\ lst \in {"connecting", "resubscribing"}
  \/ BroadcastDone /\ lst = "scanning" /\ scan # {}
  \/ BroadcastDone /\ lst = "executing" /\ inflight # {}
  \/ BroadcastDone /\ Receives /\ queue # <<>>

(* A task that waits for room in the command channel waits for a listener  *)
(* that can go on, whatever the link and the topics do and although the    *)
(* sockets of clients may take no frames: what the listener is at never    *)
(* waits for a connection's task, nor for a spawned one.                   *)
SendersAreNotStuck ==
  \A c \in Conn : pc[c] \in {"sendSub", "sendUnsub"} /\ ~HasRoom => ListenerMayGoOn

(* An event that reached the node reaches every client that stays listed   *)
(* on its topic and whose socket works, however slow other clients are,    *)
(* unless the link is lost.                                                *)
EventsReachMembers ==
  \A c \in Conn \ Stuck : \A e \in Event :
    (wire # <<>> /\ Head(wire) = e /\ pc[c] = "serving" /\ c \in subscriptions[TopicOf[e.from]]) ~>
      \/ Got(c, e)
      \/ pc[c] # "serving" \/ c \notin subscriptions[TopicOf[e.from]]
      \/ c \in broken
      \/ ~linkUp

-----------------------------------------------------------------------------
(* src/ws/handler.rs:111, of an event the handler returns: it is published *)
(* to Redis, "which then broadcasts it to all clients on the topic         *)
(* (including the sender)".  The code lets a client send before its topic  *)
(* is subscribed, and Redis then drops the event.                          *)
SendersGetTheirEvents ==
  \A c \in Conn : \A n \in 1 .. MaxMessages :
    LET e == [kind |-> "event", from |-> c, n |-> n] IN
    (recv[c] = "publishing" /\ read[c] = n) ~>
      Got(c, e) \/ Got(c, [e EXCEPT !.kind = "reply"]) \/ pc[c] # "serving"
      \/ c \in broken
=============================================================================
