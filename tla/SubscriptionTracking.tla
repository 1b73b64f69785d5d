------------------------ MODULE SubscriptionTracking ------------------------
(***************************************************************************)
(* When do the channels Redis forwards to a node match the topics its      *)
(* clients are on?  WebsocketService with a history variable that records  *)
(* the one thing that can break the match: a connection joining a topic    *)
(* while the task of its last leaver is between emptying the topic's set   *)
(* and having sent the Unsubscribe command (on_disconnect lets go of the   *)
(* entry in between).  For every other topic the properties below hold     *)
(* across reconnects, failed commands, a full channel and panicking hooks; *)
(* and the harm is undone by the next command for the topic, or the next   *)
(* reconnect, that finds the maps in order.                                *)
(***************************************************************************)
EXTENDS WebsocketService

VARIABLE overlapped  \* history: topics joined during a teardown, not mended since

hvars == <<vars, overlapped>>

TearingDown(t) ==
  \E c \in Conn : TopicOf[c] = t /\ pc[c] \in {"dropTopic", "sendUnsub"}

Joins(t) ==
  \E c \in Conn : TopicOf[c] = t /\ pc[c] = "subscribe" /\ pc'[c] # "subscribe"

HInit == Init /\ overlapped = {}

NoCommandFor(t) ==
  /\ \A i \in 1 .. Len(queue) : queue[i].topic # t
  /\ \A cmd \in inflight : cmd.topic # t

AboutToSubscribe(t) == \E c \in Conn : TopicOf[c] = t /\ pc[c] = "sendSub"

AboutToUnsubscribe(t) == \E c \in Conn : TopicOf[c] = t /\ pc[c] = "sendUnsub"

(* Nobody is between two steps of a join or a teardown of t, and everyone  *)
(* who joined and has not left is in its set.                              *)
InOrder(t) ==
  /\ ~AboutToSubscribe(t)
  /\ ~TearingDown(t)
  /\ \A c \in Conn :
       TopicOf[c] = t /\ pc[c] \in MemberState => c \in subscriptions[t]

(* The first member, or the last one if nobody has joined since, has sent  *)
(* its command for t.                                                      *)
CommandSent(t) ==
  \E c \in Conn :
    /\ TopicOf[c] = t
    /\ \/ pc[c] = "sendSub" /\ pc'[c] = "onConnect"
       \/ pc[c] = "sendUnsub" /\ pc'[c] = "gone" /\ t \notin entries

(* The listener has read whether t has an entry, and no earlier command    *)
(* for t is still to be executed after that.                               *)
Reread(t) == t \in scan /\ t \notin scan' /\ NoCommandFor(t)

Mended(t) == (CommandSent(t) \/ Reread(t)) /\ InOrder(t)'

Record ==
  overlapped' = (overlapped \cup {t \in Topic : TearingDown(t) /\ Joins(t)})
                  \ {t \in overlapped : Mended(t)}

HNext == Next /\ Record

HSpec == HInit /\ [][HNext]_hvars

HFairSpec ==
  /\ HSpec
  /\ \A c \in Conn : WF_hvars(TaskStep(c) /\ Record)
  /\ WF_hvars(ListenerStep /\ Record)

-----------------------------------------------------------------------------
(* Nothing is under way that could still change whether Redis forwards t.  *)
Settled(t) ==
  /\ linkUp
  /\ lst \in {"listening", "executing"}
  /\ NoCommandFor(t)
  /\ ~AboutToSubscribe(t)
  /\ ~AboutToUnsubscribe(t)

(* A connection that joined and has not left is in its topic's set, where  *)
(* handle_redis_broadcast looks it up.                                     *)
MembersAreListed ==
  \A c \in Conn :
    pc[c] \in MemberState /\ TopicOf[c] \notin overlapped
      => c \in subscriptions[TopicOf[c]]

(* No deaf topic: when things have settled, Redis forwards every topic     *)
(* that has an entry, also after any number of reconnects.                 *)
LiveTopicsAreForwarded ==
  \A t \in entries \ overlapped : Settled(t) => t \in redisSubs

(* No leaked channel: when things have settled, Redis forwards no topic    *)
(* that has no entry; nobody would ever unsubscribe it.                    *)
ForwardedTopicsAreLive ==
  \A t \in redisSubs \ overlapped : Settled(t) => t \in entries

(* A client whose link stays up is not left waiting: its Subscribe command *)
(* is executed, or a reconnect makes up for it.                            *)
ServedAreForwarded ==
  \A c \in Conn :
    (pc[c] = "serving" /\ lst = "listening") ~>
      \/ TopicOf[c] \in redisSubs \cup overlapped
      \/ pc[c] # "serving"
      \/ ~linkUp

-----------------------------------------------------------------------------
(* The inductive invariant behind the first three invariants above.        *)

(* What the commands sent so far say about t.                              *)
Announced(t) ==
  \/ t \in entries /\ ~AboutToSubscribe(t)
  \/ AboutToUnsubscribe(t)

(* The listener's own bookkeeping, phase by phase.                         *)
ListenerInv ==
  /\ lst # "scanning" => scan = {}
  /\ scan \cap resub = {}
  /\ lst \in {"connecting", "listening", "executing"} => resub = {}
  /\ lst \in {"connecting", "scanning", "resubscribing"} => redisSubs = {}
  /\ lst # "executing" => inflight = {}
  /\ lst = "executing" => \E cmd \in Command : inflight = {cmd}
  /\ lst = "connecting" => ~linkUp
  /\ ~linkUp => redisSubs = {}

(* At most one task at a time is about to send a command for t, and it     *)
(* sees the topic as it left it.                                           *)
TeardownInv(t) ==
  /\ \A c, d \in Conn :
       /\ TopicOf[c] = t /\ pc[c] \in {"sendSub", "dropTopic", "sendUnsub"}
       /\ TopicOf[d] = t /\ pc[d] \in {"sendSub", "dropTopic", "sendUnsub"}
       => c = d
  /\ \A c \in Conn : TopicOf[c] = t =>
       /\ pc[c] \in MemberState => c \in subscriptions[t]
       /\ pc[c] = "dropTopic" => t \in entries /\ subscriptions[t] = {}
       /\ pc[c] = "sendUnsub" => t \notin entries

(* The last command for t on its way says what the maps say.               *)
CommandInv(t) ==
  /\ \A i \in 1 .. Len(queue) :
       queue[i].topic = t /\ (\A j \in i+1 .. Len(queue) : queue[j].topic # t)
         => (queue[i].op = "Subscribe" <=> Announced(t))
  /\ (\A i \in 1 .. Len(queue) : queue[i].topic # t) =>
       \A cmd \in inflight :
         cmd.topic = t => (cmd.op = "Subscribe" <=> Announced(t))

(* S, the channels of the current connection, is right about t.            *)
Matches(t, S) ==
  /\ t \in entries /\ ~AboutToSubscribe(t) => t \in S
  /\ t \in S => t \in entries \/ AboutToUnsubscribe(t)

(* With no command on its way, so is what Redis was told, or will be.      *)
ForwardInv(t) ==
  NoCommandFor(t) =>
    /\ linkUp /\ lst \in {"listening", "executing"} => Matches(t, redisSubs)
    /\ lst \in {"scanning", "resubscribing"} /\ t \notin scan => Matches(t, resub)

TrackingInv ==
  /\ TypeOK
  /\ ListenerInv
  /\ RegistryInv
  /\ \A t \in Topic \ overlapped : TeardownInv(t) /\ CommandInv(t) /\ ForwardInv(t)
=============================================================================
