# Verification of axum-realtime-kit

TLA+ modules that model the concurrent core of the kit, TLC configurations that
model-check them on small instances, and proofs checked by TLAPS that hold for
every instance. Paths such as `src/ws/service.rs` are relative to the
repository.

## 1. The system

The kit has two independent services and a thin HTTP layer in front of one of
them.

| Component | State it keeps | Operations | Modelled in |
|---|---|---|---|
| Connection registry (`WebsocketService`, `src/ws/service.rs`, `types.rs`) | `connections` (id -> sink) and `subscriptions` (topic -> set of ids), two DashMaps; the sender of the bounded command channel | `handle_connection`, `subscribe`, `on_disconnect` | `WebsocketService` |
| Redis listener (`run_redis_listener`, `handle_redis_command`) | its Pub/Sub connection, the receiver of the channel, `topics_to_resubscribe` | connect or retry, resubscribe, `select!` over commands and messages, reconnect after an error | `WebsocketService`, `SubscriptionTracking` |
| Routing and broadcast (`run_client_message_receiver`, `route_message`, `publish_event`, `handle_redis_broadcast`, `send_*_to_sink`) | one receive loop per client, one sink per client behind a mutex, spawned sends | read a frame, direct handler, broadcast handler, PUBLISH, fan out | `MessageDelivery` |
| `MessageHandler` (`handler.rs`) | the application's | `on_connect`, `handle_direct_message`, `handle_broadcast_message`, `on_disconnect` | as choices of the steps that call it, in `BasicChat` as the example's functions |
| `CoalescingService` (`coalescing.rs`) | `inner` (key -> shared future), `stats`, a tokio mutex around each | `execute`, `reset_stats`, `get_stats`, `get_pending_tasks_count` | `Coalescing` |
| `WsAuth` (`auth.rs`), `upgrade_handler` (`upgrade.rs`) | none; the application's validators have theirs | find a token, ask whose it is, ask whether that user may use the topic, upgrade in the background | `Admission` |
| `examples/basic_chat.rs` | none that changes | `validate_token`, `validate_topic_access`, the two message handlers, the route | `BasicChat` |
| Other nodes | what one node has | share Redis and nothing else | `MessageDelivery` and `BasicChat`, by their clients |
| Redis, tokio's channel and mutex, `futures::Shared`, the sockets | - | - | external: modelled from how the code uses them |

How they interact. A connection's task writes the two maps and sends
`Subscribe` or `Unsubscribe` on the channel; only the listener receives them
and only it talks to Redis about channels. The listener reads `subscriptions`
on every reconnect and on every message. A client's message goes from its
receive loop to Redis by `publish_event`, from Redis back to the listener of
every node that is subscribed, and from there through spawned tasks to the
sinks. A request passes `WsAuth`, then the topic validator of `upgrade_handler`,
then the upgrade, whose callback is what calls `handle_connection`. The
coalescing service shares nothing with the rest.

What is hard here:

- every map operation is atomic, no two are: joining and leaving are several
  steps with awaits or dropped guards in between, and commands enter the channel
  after the maps were unlocked;
- the listener reconnects whenever a command fails and reads the maps shard by
  shard while they change; commands queued before the reading are executed after
  it;
- the channel is bounded, so connections wait for a listener that may wait for
  Redis;
- Pub/Sub keeps nothing: an event published while a topic is not forwarded is
  gone;
- hooks may panic, sockets may stop taking frames;
- the validator is asked before an upgrade that takes time, so its answer may be
  old when the connection is accepted; nobody is asked again;
- an application relies on three checks that three parts make at three moments
  (token, topic, room), and on events finding their clients by the topic alone;
- the coalescing worker is not a task: it is a future that runs only while one
  of the calls that share it is polled, and it queues for locks.

What makes each component correct: the maps agree with each other and with who
is connected; Redis forwards exactly the topics somebody is on, whatever failed;
tasks that join or leave get to the end; events reach the members of their topic
and nobody else, once; replies keep their order; at most one operation runs for
a key, everyone gets an answer for the key they asked about, and what the
service counts adds up; nobody is accepted without having been granted the
topic, every request is answered, and the rooms of the chat stay apart.

## 2. Modules

| Module | What it is |
|---|---|
| `WebsocketService` | the node: connections, maps, channel, listener, Pub/Sub link |
| `SubscriptionTracking` | `WebsocketService` with a history variable; when Redis's channels match the maps |
| `MessageDelivery` | extends `WebsocketService` with the data path, and the clients of other nodes |
| `Broadcast` | abstract: what the kit promises the clients of a topic; `MessageDelivery` implements it |
| `Admission` | extends `WebsocketService` with what a request goes through before it is a connection |
| `BasicChat` | composes `MessageDelivery` and `Admission` with the application of the example |
| `Coalescing` | `CoalescingService` |
| `Flights` | abstract: what `execute` promises its callers; `Coalescing` implements it |
| `MC*` | instances for TLC: the topic, key, user or token of each model value |
| `*Proofs` | theorems and their proofs |

Four refinements tie them together, each checked by TLC and proved:
`MessageDelivery` implements `Broadcast` (`BroadcastSpec`) and
`WebsocketService` (`ServiceSpec`), `BasicChat` implements `MessageDelivery`
(`DeliverySpec`), and `Coalescing` implements `Flights` (`FlightsSpec`). That
`Admission` implements `WebsocketService` is a theorem only: its next-state
relation has the node's as a conjunct.

### WebsocketService

Each connection has a program counter `pc[c]`: `idle`, `subscribe` (its sink is
registered), `sendSub` (it was first, about to send), `onConnect`, `serving`,
`onDisconnect`, `leave` (sink removed), `dropTopic` (it emptied the set),
`sendUnsub`, `gone`, `panicked`. The task is cut exactly where another task can
come in: at an await and where a DashMap guard is dropped. So
`Subscribe` (read emptiness and insert, one guard) is one action;
`Leave` (remove the id and read emptiness, one guard) and `DropTopic` (remove
the whole entry, guard taken anew) are two. `subscriptions` holds the sets and
`entries` the topics that have an entry at all, since an entry may be empty and
counts in the resubscription even then.

The listener is `connecting`, `scanning` (reading the maps, one topic per step
because the iteration locks one shard at a time), `resubscribing`, `listening`
or `executing` a command. `link` is its Pub/Sub connection and `redisSubs` what
Redis forwards over it. `LinkDrops` takes the connection away without the
listener noticing: its message branch of `select!` is disabled then and only a
command that fails makes it reconnect, as in the code. The `else` branch of the
`select!` needs a closed channel; the listener's own `Arc` of the service holds
a sender, so the branch cannot be reached and is left out. (For the same reason
the task never ends once the service was made.)

`PUBLISH` uses a connection of its own and appears in `MessageDelivery`.

### SubscriptionTracking

Adds `overlapped`, the topics a connection joined while the last leaver was
between emptying the set and having sent its command. That is the one
interleaving the code does not handle (section 5); for every other topic the
properties are claimed in full. Nor does its harm last for ever: a topic leaves
`overlapped` again (`Mended`) when a task sends the topic's next command, or the
listener reads the topic anew with no old command for it left, and at that moment
nobody is between two steps of a join or a teardown of it and everyone who should
be listed is. From then on the properties are claimed of it again. The variable
is a history variable: it restricts nothing.

### MessageDelivery

`recv[c]` is where the receive loop is, `read[c]` counts messages, which are
known by sender and number. `wire` is what Redis has sent to the listener; it is
cut at an arbitrary point when the link is lost (`LinkLost`) and emptied when the
listener gives the connection up (`ListenerTurn`). `TakeEvent` copies the ids of
the topic, `Dispatch` looks up one sink and spawns a send, `Deliver` and
`DeliverFails` are the spawned sends, in any order. `PublishFails` covers both
the command that was lost and the command whose answer was lost.
The steps are in two groups: `HandlerStep`, what an application's handler
decides, and `KitStep`, everything the kit does.

Nodes share nothing but Redis, and all that one node sees of another is the
events published there. So connections in `Remote` are served by other nodes:
they only read messages, publish and reply.

### Broadcast

A message is taken up, becomes at most one event and gets at most one answer,
and the next is taken up when it is done with. An event becomes one copy for each
client of the sender's topic; a copy is delivered once or lost, at any moment.
The refinement mapping says where copies are: on the wire an event stands for a
copy to every client of its topic, and those whose id is not in the set when the
event is taken, or whose sink is gone at the look-up, or whose socket refuses,
are lost then. No order of events is promised, and the code keeps none, since
each frame is written by a task of its own. Up to the spawning of these tasks it
does keep the order (`OrderUntilSpawned`), and what `Broadcast` may lose at any
moment the code loses only for a reason (`LossesHaveReasons`).

### Admission

`door[c]` is how far the request for `c` has got: `authenticating` (`WsAuth`),
`authorising` (the validator), `upgrading` (101 sent, callback not run), or
turned away (`unauthorized`, `refused`), `lost` with its client, or `entered`.
`Gate` conjoins the node's steps with the door: `Accept` happens only out of
`upgrading`, because nothing but the callback of `on_upgrade` calls
`handle_connection`. `ChangeRights` is the application changing its mind, at any
moment; `since[c]` is a history variable with the pairs that were granted at some
moment since `c` was requested.

### BasicChat

`Identify`, `MayUse`, `AfterDirect` and `AfterBroadcast` are the example's
functions; a token is whether it has a second `Bearer`, its number of parts and
its id, a message its kind and room. `said[c]` is what the receive loop of `c`
has read. The open choices of `HandlerStep` become these functions in `Hear` and
`Think`, `KitStep` stays what it is under `Gate`, and clients of other nodes pass
a door of their own (`EnterElsewhere`).

### Coalescing

An operation is named after the call that initiated it. `stage[o]` is where its
worker is, `grip[o]` whether it queues for the lock it needs there or was given
it, `pc[c]` where a call is. Calls hold the map lock from the look-up to the
insertion and take the statistics lock inside it; workers take one lock after
the other. Every worker step needs `Driven(o)`, some call awaits it, except for
one half of `WaitForLock`: tokio's mutex hands the lock to a queued waiter when
it is released, polled or not. Which waiter is next is left open (tokio is first
come, first served), and so is which awaiting call polls the worker. `Cancel`
drops a call at any await; `LastOwner` says when that drops the worker too (the
map holds a clone, so only after the removal).

### Flights

The abstract `execute`: a key has at most one flight; a call starts one or joins
the one there is; a flight lands once, with one result, and takes nobody on board
from then on; who is on board is answered after it has landed. A flight lands
when the worker removes it from the map, and its result is `op_result`.

### Bugs in the modules

Operators under a comment `Bug:` are plausible mistakes in the code they precede
(a dropped guard, a swapped order, a missing count). No specification uses them;
each is the counterpart of a property in `PROJECT.json` under "mutants" and, put
in place of the definition after it, makes TLC find that property violated.

## 3. Runs that pass

| Run | Instance | Properties | What it shows |
|---|---|---|---|
| `tracking` | 3 connections on a topic, one of which may panic, a second topic to read, channel of 2, 1 failure | `TypeOK`, `MembersHaveSinks`, `EmptyEntriesAreDropped`, `MembersAreListed`, `LiveTopicsAreForwarded`, `ForwardedTopicsAreLive`, `TrackingInv`, `AcceptedAreServed`, `ClosedAreCleanedUp`, `CommandRevivesLink`, `ServedAreForwarded` | the maps agree; no empty entry is forgotten; Redis and the maps agree when things have settled, also again for a topic whose teardown somebody joined once that is mended; nobody waits for ever on a full channel; a command revives a dead link; a Subscribe command or a reconnect takes effect |
| `delivery` | 2 connections on a topic, one sends 2 messages, one may panic, 1 failure | `AtMostOnce`, `RepliesInOrder`, `DeliveryInv`, `OrderUntilSpawned`, `SendersAreNotStuck`, `ServiceSpec`, `BroadcastSpec`, `LossesHaveReasons` | no duplicates; replies in order, a client's events in order until tasks are spawned for them; copies get lost only with the link, with a client that is not listed or has no sink, or at a closed or broken socket; a full channel never waits for a socket; both refinements |
| `delivery_liveness` | 2 connections, the socket of one may take no frames | `EventsReachMembers` | a slow client does not hold up the others |
| `admission` | 2 requests for 2 topics, 2 users, 3 tokens (one invalid), tokens in the header, the query, both or neither, one right that comes and goes, channel of 1, 1 failure, one connection that may panic | `AcceptedWereGranted`, `AdmissionInv`, `RequestsAreAnswered` | nobody is accepted who was not granted the topic since the request; every request is answered |
| `chat` | 3 connections, one of them at another node and sending, on a public topic and a private one of the first of 2 users; 3 tokens (one malformed) | `EventsStayOnTopic`, `RoomsStayApart`, `PrivateRoomsArePrivate`, `ChatInv`, `DeliverySpec` | no frame crosses topics or rooms, a private room is its owner's, the application is one the kit's model allows |
| `coalescing` | 3 calls on 2 keys; time-outs, panics, two calls that may be dropped, one reset | `TypeOK`, `SingleFlight`, `EntriesAreLive`, `AnswersAreForTheKey`, `CallsAreCounted`, `ErrorsAreCountedOnce`, `CoalescingInv`, `NoCircularWait`, `FlightsSpec`, `AnswersAreFresh`, `UndisturbedCallsReturn`, `UndisturbedCleanupRuns` | one operation per key, own entries removed, right answers, refinement; calls, timeouts and failures counted once each; results are final and go to no call that looked later; no circular wait for locks and workers |

The inductive invariants that these runs check contain the type invariants of
their modules and those they build on: `TrackingInv` contains `RegistryInv`,
`DeliveryInv` contains `OnTopicInv` and `DTypeOK`, `ChatInv` contains
`OnTopicInv`, `AdmissionInv` contains `DoorTypeOK`.

Bounds, and why they are enough. The interesting interleavings in the registry
are between a last leaver, one who joins behind its back, and one who comes
after both: three connections on a topic. A second topic gives the listener
something to read at another moment; what it does not do here, have members of
its own, the theorems cover. A channel of 2 is the least in which
commands can be reordered relative to what is being executed, and three
connections fill it (100 in the code). One failure, at every possible place, leads
through every reconnect path. Two messages of one
client are the least with an order. Three calls on a key and its neighbour give
an initiator, a joiner and a later initiator of the same key. In `admission` the
second user lacks the right that the first one has for a while, so the wrong
token, the wrong topic and the wrong moment are three different mistakes. In
`chat` both users can reach a connection of the shared topic, at either node;
faults of the link are off there, `delivery` and the proofs have them. Each connection
object is used once, as in the code: a client that comes back gets a new id.
`MaxFaults`, `MaxMessages`, `Senders` and `MaxResets` only bound the
environment.

`UndisturbedCallsReturn` and `UndisturbedCleanupRuns` have the form `<>[]`: in the
end, unless a call was dropped or panicked, every call has returned and the map
is empty. With drops and panics the same does not hold (section 5).

Two properties of `coalescing` have limits that their comments state.
`ErrorsAreCountedOnce` says nothing on whether a failure is counted whose error
looks like the service's own timeout error; the code does not count it, which
`lookalike_failure` shows to be at odds with the documentation. `NoCircularWait`
follows each call to the end of its own chain of waits. Two ends are no progress
and allowed all the same: a lock kept by a worker that nobody polls
(`abandoned_lock`), and, only for the calls that await it, an operation that
panicked (section 5).

`LossesHaveReasons` permits what the code gives up: among it the messages
buffered in a Pub/Sub connection that the listener drops (`service.rs:249`).
`AcceptedWereGranted` permits rights withdrawn during the upgrade: the validator is
asked once and `upgrade.rs` promises no more. Nothing here forbids either.

Deadlock checking is off because these systems may stop: when every connection is
gone, or every call has returned, nothing is left to happen.

## 4. Fairness

Only the kit's own steps are fair, weakly, one condition per task: a task that
can take a step is scheduled by tokio; hooks that do not panic return; a Redis
call ends one way or the other; a mutex that is released is handed over; a
coalesced operation ends, or its timer fires; the application's validators return,
and an upgrade succeeds or fails. Not fair: requests and sockets arriving, sockets
closing or breaking, clients sending, panics, failures of the link, calls being
dropped, rights being changed. A socket that belongs to `Stuck` owes nothing at all. The awaits that
must end are those the code has no time limit on; an application hook that never
returns would hold up its own connection only, a Redis call that never returns
the listener and, through the channel, every connection that is first or last
on its topic.

`ConnectFails` is the retry after five seconds; since links fail at most
`MaxFaults` times, `Connect` happens in the end. Nothing is claimed about a
Redis that is away for ever.

## 5. Disagreements found

Each of these runs checks one property that states what the repository says; TLC
finds a behaviour of the code that does not keep it.

| Run | What happens |
|---|---|
| `context_topic` | c1 leaves and empties the topic's set; c2 joins before c1 removes the entry; the entry goes with c2 in it. c2 is served on, but broadcasts do not find it; and since the set was empty when c2 joined, the commands may cross as well |
| `lost_link` | the link is lost while the listener waits; the message branch is disabled, and no command comes: no client of the node gets broadcasts, with Redis long back |
| `sender_misses_event` | a client publishes before the listener has executed its Subscribe command; Redis has no receiver, and the sender gets neither event nor error. For the same reason `on_connect`, documented as called when the client "is subscribed" (`handler.rs:81`), runs before that is so |
| `poisoned_cleanup` | the operation panics past the removal that "Always runs"; every later call on the key panics too |
| `abandoned_lock` | the calls that await a worker are dropped while it queues for the map lock; the lock is handed to it, nobody polls it, and every call on any key waits for ever. Dropped at another await, a worker leaves its entry in the map, where the next call on the key takes it up |
| `lookalike_failure` | an application error whose text starts with "Operation timed out for key" is taken for the service's own timeout and counted neither as one nor as a failure, even without a timeout |

Smaller observations, without a run. The `Unsubscribe` command of a last leaver
may be sent when another client of the topic is already being served
(`service.rs:390`; the same race). It may also be sent after the `Subscribe` of a
client that joined when the entry was gone and was first again: the listener
executes them in that order, and a client that is served and listed gets no
broadcasts with the link up. Such a topic is `overlapped` until it is mended, so
the properties of `tracking` say nothing of it meanwhile. A connection whose hook
panicked never comes to `on_disconnect` (`service.rs:105`): its id and its sink
stay in the maps, the last connection of the topic that leaves finds the set not
empty, and the topic is forwarded for ever. The properties permit this: they
relate the maps to each other and to Redis, not to the tasks. When an
operation panics in one call's poll while another call awaits it,
`futures::Shared` marks itself poisoned and wakes nobody (`coalescing.rs:193`);
a call that polled meanwhile found it busy and may wait for ever, whatever
the timeout. `PollPoisoned` is therefore not fair. `coalescing.rs:124` holds a `tracing` span guard across
awaits; the guard is not `Send`, while `boxed()` asks for a `Send` future. The
model does not depend on it.

## 6. What is proved

The proofs assume only the named `ASSUME`s: topics and keys are given by total
functions, the capacity is a positive number, the bounds are numbers, the sets
of connections that may panic, be stuck, be remote, or be dropped are sets of
connections, no user is `Nobody` and no token `NoToken`; in `BasicChat`, `UserOf`
and `Rights` are what the example's functions make of the tokens and topics.
`Conn`, `Topic`, `User`, `Token`, `Caller` and `Key` are arbitrary sets, also
infinite ones.

| Module | Theorems | Argument |
|---|---|---|
| `WebsocketServiceProofs` | `TypeCorrect`, `RegistryInductive`, `MembersAlwaysHaveSinks`, `EmptyEntriesAlwaysDropped` | `RegistryInv` strengthens the two properties by: an id in a set is in a state between joining and leaving, a topic with a non-empty set has an entry, and a task between the two map updates has its sink. Without the second, `DropTopic` could leave ids without an entry; without the third, `Subscribe` could list an id with no sink |
| `SubscriptionTrackingProofs` | `TrackingInductive`, `MembersStayListed`, `LiveTopicsStayForwarded`, `ForwardedTopicsStayLive` | `TrackingInv`, see below |
| `MessageDeliveryProofs` | `DeliveryImplementsService`, `DeliveryTypeCorrect`, `DeliveryStaysOnTopic`, `EventsAlwaysStayOnTopic` | every step of `MessageDelivery` is one of `WebsocketService` or leaves its variables; `OnTopicInv` adds that pending sends stay on topic, using `RegistryInv` through the refinement |
| `BroadcastProofs` | `DeliveryIsRight`, `FramesArriveAtMostOnce`, `RepliesAreAlwaysInOrder`, `DeliveryImplementsBroadcast` | `DeliveryInv`, see below |
| `DeliveryOrderProofs` | `EventsInOrderUntilSpawned`, `SendersAreNeverStuck`, `CopiesAreLostForReasons` | `OrderInv` on top of `DeliveryInv`, and `BusyInv` on the listener, see below |
| `AdmissionProofs` | `AdmissionImplementsService`, `AdmissionIsRight`, `DoorTypeCorrect`, `AcceptedWereAlwaysGranted` | `AdmissionInv` carries the right that the validator saw through the upgrade, as a member of `since`; a task never goes back to `idle`, so nobody enters twice |
| `BasicChatProofs` | `ChatImplementsDelivery`, `ChatImplementsBroadcast`, `ChatIsRight`, `RoomsAlwaysStayApart`, `PrivateRoomsStayPrivate` | `ChatInv`: wherever an event is (about to be published, on the wire, with the listener, with a spawned task, written), its message was for its sender's topic; whoever has read or been written anything has entered as a user that may use the topic. `OnTopicInv` comes through the refinement |
| `CoalescingProofs` | `CoalescingInductive`, `CoalescingTypeCorrect`, `OneOperationPerKey`, `EntriesStayLive`, `AnswersStayForTheKey`, `CallsAreAlwaysCounted`, `ErrorsAreAlwaysCountedOnce`, `AnswersStayFresh`, `WaitsAreNeverCircular`, `CoalescingImplementsFlights` | `CoalescingInv`: mutual exclusion on the map lock, what a call saw in the map is still so when it acts, the map holds exactly the unfinished operations, an operation's result says what is left to count, an unfinished operation belongs to a call that awaits it or was dropped. `CountingInv` on top: each count is the cardinality of a set, of calls, of timed-out operations past the counting step, of failed ones past theirs, that gains one element when the count gains one |

The argument of `DeliveryInv`. A message is *concluded* when the receive loop has
published its event or will not publish it any more. A copy of an event is in one
place only, on the wire, in the listener's fan-out, with a spawned task or in the
frames of its client (`OnePlaceInv`), and every event in any of these places is
concluded, so what is published next is new. That makes a second delivery
impossible although the channel may be subscribed twice and ids come and go; it
is also what the mapping to `Broadcast` needs, where a copy that is delivered
must leave `pending` for good.

The argument of `OrderInv`. When a client's receive loop is about to publish, all
earlier events of that client are concluded, and their numbers smaller, wherever
they are (`EarlierIsBefore`). So an event enters the wire behind all earlier ones
of its client; the wire is read from its head, so every event taken off it comes
before all that are left; and the listener takes an event only when it has handed
on every copy of the last one, so what it is fanning out is the latest one taken.
None of the three parts is inductive without `DeliveryInv`: that an event
published is new is needed for the first.

The argument of `SendersAreNotStuck`. The listener is cut into steps that each
end by themselves; `BusyInv` says that it never stands before one of them
with nothing to do it on, and a full channel is not empty. That the fan-out waits
for no spawned task is what keeps sockets out of it.

The argument of `LossesHaveReasons`. It is an action property, proved per place a
copy can be at. `BusyInv` is needed for the wire: the listener discards it with
the Pub/Sub connection only, so a listener that is about to connect has no link.

The argument of `NoCircularWait`. Both locks *move*: each is free or held by
somebody who can go on (`LocksMove`). A worker that was handed a lock can take its
step if anybody polls it, and the call that initiated it does unless it was dropped
(`InitiatorInv`); that is the abandoned worker. A call that holds the statistics
lock waits for nothing, so that lock moves; a call that holds the map lock alone
waits for nothing but the statistics lock, so the map lock moves as well. The order
of the two halves is the order in which the code takes the locks. A call that
awaits an operation has that operation polled, so its worker runs, is done, was
poisoned, or needs a lock, and locks move.

The argument of `TrackingInv`. Say a topic is *announced* if it has an entry and
its first member has sent its command, or has none and its last member has not.
For every topic that is not `overlapped`: at most one task at a time is about to
send a command (`TeardownInv`); the last command for the topic in the channel,
or the one being executed if there is none, says `Subscribe` exactly if the
topic is announced (`CommandInv`); if there is no command at all, then Redis's
channels, or the listener's collection while it resubscribes, agree with the
maps up to a task that is about to send (`ForwardInv`). A reconnect may drop the
command being executed: it re-reads the maps, so `ForwardInv` is regained topic
by topic. Commands that were queued before the reading are repeated after it;
that they are idempotent, and the last one right, is what makes this harmless.
When a topic is mended the three parts have to hold of it from nothing, with no
induction hypothesis (`MendedIsRight`): a command sent with the maps in order is
the last one in the channel and says what it should; a topic read with no old
command left is collected exactly if it has an entry.

Model-checked only: every liveness property (TLAPS does not reason about
`ENABLED`, so not about fairness). Every invariant, every action property and
every refinement of the passing runs is also proved.
`SendersAreNotStuck` and `NoCircularWait` are the part of two liveness
properties that is a matter of states: that somebody can always take a step,
stated by the guards of the steps. That the steps are then taken, and get
somewhere, is what `tracking` and `coalescing` check.

## 7. Abstractions

- Messages, replies and errors are identified by sender and number; JSON, log
  lines and error texts are left out. Replies and error replies are one kind of
  frame: both are written by the receive loop before it reads on.
- A handler's results are choices: a direct reply, an error, or passing on; an
  event, none, or an error.
- Two Pub/Sub connections never coexist: dropping one makes Redis forget its
  channels at once.
- Redis delivers to the listener in the order of publication.
- A panic of a hook ends its task; nothing of its socket is cleaned up in the
  maps. (`panic = "abort"` would end the process.)
- Names in tokens, texts of messages and HTTP headers other than the token are
  left out; the validator's two refusals (403, 404) are one.
- Resource limits other than the channel (spawned sends, memory) are not
  modelled.

## 8. Not modelled

`get_stats` and `get_pending_tasks_count` read under a lock and change nothing.
Re-exports (`lib.rs`, `ws/mod.rs`) have no behaviour. Payloads that are not
UTF-8 or topics nobody is on can only come from publishers other than the kit.
Frames that a hook writes itself through the sink in its context are not
modelled: no code of the repository does so. Other nodes are present by their
clients; that their registries and listeners are right is what the same modules
say of this node. An endless stream of connections, whose commands the biased
`select!` would always take before events (`service.rs:245`), and the number of
spawned sends (`service.rs:314`) are not bounded by the code; the model's
instances are finite, so nothing is claimed about them.

## 9. Plan

Done, in this order: `WebsocketService` with its registry, channel and listener;
`SubscriptionTracking`; `MessageDelivery`; `Coalescing`; their proofs; the
abstract specifications `Broadcast` and `Flights` with the refinements; the other
nodes' clients; `Admission`; `BasicChat` on the composition of both; the proofs
of every invariant that the runs check; the mending of joined teardowns, the
order and the losses of events, and the absence of circular waits, with their proofs.

What could follow: the consequences of `Broadcast` and `Flights` themselves as
theorems about the abstract modules; two full nodes side by side in TLC (the state space is the
product of two listeners; the proofs need no more than one), and a handler that
writes to the sink in its context.
