-------------------------- MODULE WebsocketService --------------------------
(***************************************************************************)
(* One node of the kit: the connections it serves, the two shared maps of  *)
(* WsState, the bounded command channel, and the background task           *)
(* run_redis_listener with its Pub/Sub link to Redis.                      *)
(*                                                                         *)
(* Grain of atomicity.  Connections run as tokio tasks on a multi-threaded *)
(* runtime, so a step is what one task does to shared state without an     *)
(* await or a dropped guard in between: one DashMap operation under its    *)
(* shard lock, one completed send, one completed Redis call.               *)
(***************************************************************************)
EXTENDS Naturals, Sequences

CONSTANTS
  Conn,       \* the calls of handle_connection; each draws a fresh ConnectionId
  Topic,      \* the topics, which are also the Redis channels
  TopicOf,    \* TopicOf[c]: the topic argument of the call that owns c
  MayPanic,   \* the connections whose MessageHandler hooks may panic
  Capacity,   \* capacity of the command channel (100 in the code)
  MaxFaults   \* bound: failures of the Redis link in one behaviour

ASSUME ServiceAssumption ==
  /\ TopicOf \in [Conn -> Topic]
  /\ MayPanic \subseteq Conn
  /\ Capacity \in Nat \ {0}
  /\ MaxFaults \in Nat

VARIABLES
  pc,             \* pc[c]: where the task that owns connection c is
  connections,    \* WsState.connections: the ids that have a sink
  subscriptions,  \* WsState.subscriptions: the set of ids of each topic ...
  entries,        \* ... and the topics that have an entry (perhaps an empty one)
  queue,          \* the mpsc channel of RedisCommands
  lst,            \* where the listener task is
  scan,           \* topics its iteration over subscriptions has not reached
  resub,          \* topics_to_resubscribe, as collected so far
  inflight,       \* the command it is executing, if any: a set of at most one
  link,           \* its Pub/Sub connection: up, or down (perhaps unnoticed)
  redisSubs,      \* channels Redis forwards to this node over that connection
  faults          \* failures of the link so far (bounded by MaxFaults)

connVars == <<connections, subscriptions, entries>>
listenerVars == <<lst, scan, resub, inflight>>
redisVars == <<link, redisSubs, faults>>
linkUp == link = "up"

vars == <<pc, connVars, queue, listenerVars, redisVars>>

Command == [op : {"Subscribe", "Unsubscribe"}, topic : Topic]

(* Where a connection's task can be: idle (no socket yet), subscribe (its  *)
(* sink is registered), sendSub (first on the node, about to send),        *)
(* onConnect (in that hook), serving (in the receive loop), onDisconnect   *)
(* (loop left, in that hook), leave (sink removed), dropTopic (it emptied  *)
(* the topic's set), sendUnsub (it removed the entry), gone, panicked.     *)
ConnState ==
  {"idle", "subscribe", "sendSub", "onConnect", "serving", "onDisconnect",
   "leave", "dropTopic", "sendUnsub", "gone", "panicked"}

ListenerState ==
  {"connecting", "scanning", "resubscribing", "listening", "executing"}

Init ==
  /\ pc = [c \in Conn |-> "idle"]
  /\ connections = {}
  /\ subscriptions = [t \in Topic |-> {}]
  /\ entries = {}
  /\ queue = <<>>
  /\ lst = "connecting"
  /\ scan = {}
  /\ resub = {}
  /\ inflight = {}
  /\ link = "down"
  /\ redisSubs = {}
  /\ faults = 0

-----------------------------------------------------------------------------
(* A connection's task.                                                    *)

Goto(c, from, to) ==
  /\ pc[c] = from
  /\ pc' = [pc EXCEPT ![c] = to]

(* A step that touches at most the two maps, and one that only goes on.    *)
MapStep(c, from, to) ==
  Goto(c, from, to) /\ UNCHANGED <<queue, listenerVars, redisVars>>

Advance(c, from, to) == MapStep(c, from, to) /\ UNCHANGED connVars

Registered(c) == connections \cup {c}

(* handle_connection: a fresh id, and its sink into the connections map.   *)
Accept(c) ==
  /\ MapStep(c, "idle", "subscribe")
  /\ connections' = Registered(c)
  /\ UNCHANGED <<subscriptions, entries>>

(* Bug: emptiness is read after the insertion, so nobody is ever first.    *)
IsFirstReadLate(t) == FALSE

IsFirst(t) == subscriptions[t] = {}

(* subscribe: under the entry's lock, read whether the set is empty, then  *)
(* insert.  Only the first subscriber sends a command.                     *)
Subscribe(c) ==
  LET t == TopicOf[c] IN
  /\ MapStep(c, "subscribe", IF IsFirst(t) THEN "sendSub" ELSE "onConnect")
  /\ subscriptions' = [subscriptions EXCEPT ![t] = @ \cup {c}]
  /\ entries' = entries \cup {t}
  /\ UNCHANGED connections

(* Bugs: an unbounded channel, and one that is full one command too early. *)
HasRoomAlways == TRUE
HasRoomTooStrict == Len(queue) + 1 < Capacity

HasRoom == Len(queue) < Capacity

(* A send on the bounded channel waits while the channel is full.          *)
Send(op, t) ==
  /\ HasRoom
  /\ queue' = Append(queue, [op |-> op, topic |-> t])

SendSubscribe(c) ==
  /\ Goto(c, "sendSub", "onConnect")
  /\ Send("Subscribe", TopicOf[c])
  /\ UNCHANGED <<connVars, listenerVars, redisVars>>

(* The on_connect hook returns; the receive loop is spawned.               *)
Serve(c) == Advance(c, "onConnect", "serving")

(* A close frame, a receive error or the end of the stream.                *)
Close(c) == Advance(c, "serving", "onDisconnect")

(* The on_disconnect hook returns; the sink leaves the connections map.    *)
Deregister(c) ==
  /\ MapStep(c, "onDisconnect", "leave")
  /\ connections' = connections \ {c}
  /\ UNCHANGED <<subscriptions, entries>>

(* Bug: the id stays in the set.                                           *)
RestWithSelf(c) == subscriptions[TopicOf[c]]

Rest(c) == subscriptions[TopicOf[c]] \ {c}

(* Bugs: emptiness is read before the removal; every leaver takes itself   *)
(* for the last one.                                                       *)
IsLastReadEarly(c) == TopicOf[c] \in entries /\ subscriptions[TopicOf[c]] = {}
IsLastAlways(c) == TopicOf[c] \in entries

IsLast(c) == TopicOf[c] \in entries /\ Rest(c) = {}

(* get_mut: without an entry there is nothing to leave; with one, the id   *)
(* is removed and emptiness is read under the entry's lock.                *)
Leave(c) ==
  /\ MapStep(c, "leave", IF IsLast(c) THEN "dropTopic" ELSE "gone")
  /\ subscriptions' = [subscriptions EXCEPT ![TopicOf[c]] = Rest(c)]
  /\ UNCHANGED <<connections, entries>>

(* The lock is free again when the whole entry is removed, whatever it     *)
(* holds by now.                                                           *)
DropTopic(c) ==
  /\ MapStep(c, "dropTopic", "sendUnsub")
  /\ subscriptions' = [subscriptions EXCEPT ![TopicOf[c]] = {}]
  /\ entries' = entries \ {TopicOf[c]}
  /\ UNCHANGED connections

SendUnsubscribe(c) ==
  /\ Goto(c, "sendUnsub", "gone")
  /\ Send("Unsubscribe", TopicOf[c])
  /\ UNCHANGED <<connVars, listenerVars, redisVars>>

(* A panic in an application hook ends the task; nothing is cleaned up.    *)
HookPanic(c) ==
  /\ c \in MayPanic
  /\ \E at \in {"onConnect", "serving", "onDisconnect"} : Advance(c, at, "panicked")

-----------------------------------------------------------------------------
(* The listener task, run_redis_listener.                                  *)

(* One more failure of the link, of at most MaxFaults.                     *)
Fault ==
  /\ faults < MaxFaults
  /\ faults' = faults + 1

(* Bug: the failure is logged, and the loop goes on with the same link.    *)
ReconnectNever ==
  /\ lst' = "listening"
  /\ resub' = {}
  /\ inflight' = {}
  /\ UNCHANGED <<scan, link, redisSubs>>

(* Dropping pubsub_conn: Redis forgets the channels of that connection.    *)
Reconnect ==
  /\ lst' = "connecting"
  /\ resub' = {}
  /\ inflight' = {}
  /\ link' = "down"
  /\ redisSubs' = {}
  /\ UNCHANGED scan

(* get_async_pubsub succeeds, or fails and is tried again after a sleep.   *)
Connect ==
  /\ lst = "connecting"
  /\ lst' = "scanning"
  /\ scan' = Topic
  /\ link' = "up"
  /\ UNCHANGED <<pc, connVars, queue, resub, inflight, redisSubs, faults>>

ConnectFails ==
  /\ lst = "connecting"
  /\ Fault
  /\ UNCHANGED <<pc, connVars, queue, listenerVars, link, redisSubs>>

(* Bug: a new connection is not told what the old one had subscribed.      *)
CollectedNone(t) == resub

Collected(t) == IF t \in entries THEN resub \cup {t} ELSE resub

(* The iteration over subscriptions locks one shard at a time, so topics   *)
(* are read at different moments.  An entry counts even if it is empty.    *)
ScanTopic(t) ==
  /\ lst = "scanning"
  /\ t \in scan
  /\ scan' = scan \ {t}
  /\ resub' = Collected(t)
  /\ lst' = IF scan' = {} THEN "resubscribing" ELSE "scanning"
  /\ UNCHANGED <<pc, connVars, queue, inflight, redisVars>>

(* With nothing to resubscribe to, the link is not used.                   *)
Resubscribe ==
  /\ lst = "resubscribing"
  /\ resub = {} \/ linkUp
  /\ lst' = "listening"
  /\ redisSubs' = redisSubs \cup resub
  /\ resub' = {}
  /\ UNCHANGED <<pc, connVars, queue, scan, inflight, link, faults>>

ResubscribeFails ==
  /\ lst = "resubscribing"
  /\ resub # {}
  /\ IF linkUp THEN Fault ELSE UNCHANGED faults
  /\ Reconnect
  /\ UNCHANGED <<pc, connVars, queue>>

(* Bug: commands are only received while the message stream lives.         *)
ReceivesWhileUp == lst = "listening" /\ linkUp

(* The biased select! takes a command first.  Once the message stream has  *)
(* ended, its branch is disabled and only a command wakes the listener.    *)
Receives == lst = "listening"
OldestCommand == Head(queue)

ReceiveCommand ==
  /\ Receives
  /\ queue # <<>>
  /\ lst' = "executing"
  /\ inflight' = {OldestCommand}
  /\ queue' = Tail(queue)
  /\ UNCHANGED <<pc, connVars, scan, resub, redisVars>>

(* Bug: Unsubscribe is not passed on to Redis.                             *)
ChannelsAfterSubscribeOnly(cmd) == redisSubs \cup {cmd.topic}

(* handle_redis_command: both Redis commands are idempotent.               *)
ChannelsAfter(cmd) ==
  IF cmd.op = "Subscribe" THEN redisSubs \cup {cmd.topic} ELSE redisSubs \ {cmd.topic}

ExecuteCommand ==
  /\ lst = "executing"
  /\ linkUp
  /\ \E cmd \in inflight : redisSubs' = ChannelsAfter(cmd)
  /\ lst' = "listening"
  /\ inflight' = {}
  /\ UNCHANGED <<pc, connVars, queue, scan, resub, link, faults>>

(* A failed command is not retried: the loop is left and reconnects.       *)
CommandFails ==
  /\ lst = "executing"
  /\ IF linkUp THEN Fault ELSE UNCHANGED faults
  /\ Reconnect
  /\ UNCHANGED <<pc, connVars, queue>>

(* Redis, or the network, closes the connection under the listener.        *)
LinkDrops ==
  /\ linkUp
  /\ Fault
  /\ link' = "down"
  /\ redisSubs' = {}
  /\ UNCHANGED <<pc, connVars, queue, listenerVars>>

-----------------------------------------------------------------------------
(* What a connection's task does by itself, and what the listener does.    *)
(* When a socket arrives, when it closes and when a hook panics is not up  *)
(* to the kit; nor is any failure of the link.                             *)
TaskStep(c) ==
  \/ Subscribe(c) \/ SendSubscribe(c) \/ Serve(c)
  \/ Deregister(c) \/ Leave(c) \/ DropTopic(c) \/ SendUnsubscribe(c)

ListenerStep ==
  \/ Connect
  \/ \E t \in Topic : ScanTopic(t)
  \/ Resubscribe \/ ReceiveCommand \/ ExecuteCommand
  \/ ~linkUp /\ (ResubscribeFails \/ CommandFails)

LinkFault == linkUp /\ (ResubscribeFails \/ CommandFails)

Next ==
  \/ \E c \in Conn : Accept(c) \/ Close(c) \/ HookPanic(c) \/ TaskStep(c)
  \/ ListenerStep
  \/ ConnectFails \/ LinkFault \/ LinkDrops

Spec == Init /\ [][Next]_vars

(* What the modules built on this one keep to: composed with the data path *)
(* or with what happens before a socket is accepted, the node still does   *)
(* nothing but steps of this module.                                       *)
ServiceSpec == Spec

(* Every task that can take a step is scheduled, hooks that do not panic   *)
(* return, and a Redis call ends one way or the other.  Links fail at most *)
(* MaxFaults times.                                                        *)
Fairness ==
  /\ \A c \in Conn : WF_vars(TaskStep(c))
  /\ WF_vars(ListenerStep)

FairSpec == Spec /\ Fairness

-----------------------------------------------------------------------------
(* Properties.                                                             *)

TypeOK ==
  /\ pc \in [Conn -> ConnState]
  /\ connections \subseteq Conn
  /\ subscriptions \in [Topic -> SUBSET Conn]
  /\ entries \subseteq Topic
  /\ queue \in Seq(Command)
  /\ Len(queue) <= Capacity
  /\ lst \in ListenerState
  /\ scan \subseteq Topic
  /\ resub \subseteq Topic
  /\ inflight \subseteq Command
  /\ link \in {"up", "down"}
  /\ redisSubs \subseteq Topic
  /\ faults \in 0 .. MaxFaults

(* The two maps agree: an id in a topic's set belongs to that topic, and   *)
(* has a sink unless its task is between the two removals of               *)
(* on_disconnect.  So no disconnected id stays behind in a set, whatever   *)
(* other tasks did to the entry meanwhile; handle_redis_broadcast skips    *)
(* the ids in the window.                                                  *)
MembersHaveSinks ==
  \A t \in Topic : \A c \in subscriptions[t] :
    /\ TopicOf[c] = t
    /\ c \in connections \/ pc[c] = "leave"

(* No empty entry is forgotten: if a topic's set is empty then the task    *)
(* that emptied it is still about to remove the entry, even when others    *)
(* joined and left the same entry meanwhile.  Otherwise topics nobody uses *)
(* would be resubscribed on every reconnect for ever.                      *)
EmptyEntriesAreDropped ==
  \A t \in entries :
    subscriptions[t] = {} => \E c \in Conn : TopicOf[c] = t /\ pc[c] = "dropTopic"

(* The states in which a connection has joined its topic and not left it.  *)
MemberState ==
  {"sendSub", "onConnect", "serving", "onDisconnect", "leave", "panicked"}

(* The inductive invariant behind the two invariants above.                *)
RegistryInv ==
  /\ MembersHaveSinks
  /\ EmptyEntriesAreDropped
  /\ \A t \in Topic : subscriptions[t] # {} => t \in entries
  /\ \A t \in Topic : \A c \in subscriptions[t] : pc[c] \in MemberState
  /\ \A c \in Conn :
       pc[c] \in {"subscribe", "sendSub", "onConnect", "serving",
                  "onDisconnect", "panicked"} => c \in connections

(* Every accepted connection gets past subscribe and its hooks, also when  *)
(* the channel is full because Redis is away: nothing the listener waits   *)
(* for is waiting for the listener.                                        *)
AcceptedAreServed ==
  \A c \in Conn : pc[c] = "subscribe" ~> pc[c] \in {"serving", "panicked"}

(* Every disconnect runs to its end, the Unsubscribe command included.     *)
ClosedAreCleanedUp ==
  \A c \in Conn : pc[c] = "onDisconnect" ~> pc[c] \in {"gone", "panicked"}

(* A listener with a dead link reconnects once any command reaches it.     *)
CommandRevivesLink ==
  (lst = "listening" /\ ~linkUp /\ queue # <<>>) ~> linkUp

-----------------------------------------------------------------------------
(* What the documentation says and the code does not keep.                 *)

(* src/ws/handler.rs:29, of the context handed to every hook: "The topic   *)
(* this connection is subscribed to."  The code may have removed the       *)
(* connection from the topic together with the entry of the last leaver.   *)
ContextTopicIsSubscribed ==
  \A c \in Conn : pc[c] = "serving" => c \in subscriptions[TopicOf[c]]

(* src/ws/handler.rs:111: an event "is serialized and published to Redis,  *)
(* which then broadcasts it to all clients on the topic".  After the link  *)
(* was lost the code waits for a command that may never come, so a client  *)
(* may stay without broadcasts for ever.                                   *)
ServedClientsStaySubscribed ==
  \A c \in Conn :
    pc[c] = "serving" ~> (TopicOf[c] \in redisSubs \/ pc[c] # "serving")
=============================================================================
