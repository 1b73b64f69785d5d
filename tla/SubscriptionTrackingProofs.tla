--------------------- MODULE SubscriptionTrackingProofs ---------------------
(***************************************************************************)
(* Unless a connection joins a topic during the teardown of its last       *)
(* leaver, members stay listed and Redis forwards exactly the topics that  *)
(* have an entry; and so they do again once a command was sent for the     *)
(* topic, or a reconnect has read it, with the maps in order.  Proved for  *)
(* any number of connections, topics, commands in the channel and link     *)
(* failures.                                                               *)
(***************************************************************************)
EXTENDS SubscriptionTracking, WebsocketServiceProofs

(* A send by one of the tasks on t.                                        *)
SendsFor(t) ==
  \E c \in Conn : TopicOf[c] = t /\ (SendSubscribe(c) \/ SendUnsubscribe(c))

(* Any other step of a task.                                               *)
QuietTaskStep(t) ==
  \E c \in Conn :
    \/ Accept(c) \/ Close(c) \/ HookPanic(c) \/ Serve(c) \/ Deregister(c)
    \/ Subscribe(c) \/ Leave(c) \/ DropTopic(c)
    \/ TopicOf[c] # t /\ (SendSubscribe(c) \/ SendUnsubscribe(c))

LinkStep == ListenerStep \/ ConnectFails \/ LinkFault \/ LinkDrops

LEMMA NextSplits ==
  ASSUME NEW t \in Topic, Next
  PROVE  SendsFor(t) \/ QuietTaskStep(t) \/ LinkStep
BY DEF Next, TaskStep, SendsFor, QuietTaskStep, LinkStep

(* Which step it takes to send a command, and to read a topic.             *)
LEMMA NextSends ==
  ASSUME TypeOK, NEW c \in Conn, Next, pc'[c] # pc[c]
  PROVE  /\ pc[c] = "sendSub" => SendSubscribe(c)
         /\ pc[c] = "sendUnsub" => SendUnsubscribe(c)
<1>1. ASSUME NEW d \in Conn, Accept(d) \/ Close(d) \/ HookPanic(d) \/ TaskStep(d)
      PROVE  d = c
  BY <1>1
  DEF TypeOK, Accept, Close, HookPanic, TaskStep, Subscribe, SendSubscribe, Serve,
      Deregister, Leave, DropTopic, SendUnsubscribe, MapStep, Advance, Goto
<1>2. ASSUME Accept(c) \/ Close(c) \/ HookPanic(c) \/ Serve(c) \/ Deregister(c)
             \/ Subscribe(c) \/ Leave(c) \/ DropTopic(c)
      PROVE  pc[c] \notin {"sendSub", "sendUnsub"}
  BY <1>2
  DEF Accept, Close, HookPanic, Serve, Deregister, Subscribe, Leave, DropTopic,
      MapStep, Advance, Goto
<1>3. ASSUME SendSubscribe(c) PROVE pc[c] = "sendSub"
  BY <1>3 DEF SendSubscribe, Goto
<1>4. ASSUME SendUnsubscribe(c) PROVE pc[c] = "sendUnsub"
  BY <1>4 DEF SendUnsubscribe, Goto
<1>5. ~LinkStep
  BY LinkStepsKeepRegistry DEF LinkStep
<1>6. QED
  BY <1>1, <1>2, <1>3, <1>4, <1>5 DEF Next, LinkStep, TaskStep

LEMMA NextReads ==
  ASSUME TypeOK, NEW t \in scan, Next, t \notin scan'
  PROVE  ScanTopic(t)
<1>1. ASSUME NEW d \in Conn, Accept(d) \/ Close(d) \/ HookPanic(d) \/ TaskStep(d)
      PROVE  scan' = scan
  BY <1>1
  DEF Accept, Close, HookPanic, TaskStep, Subscribe, SendSubscribe, Serve,
      Deregister, Leave, DropTopic, SendUnsubscribe, listenerVars, MapStep, Advance
<1>2. CASE LinkStep
  BY <1>2
  DEF TypeOK, LinkStep, ListenerStep, ConnectFails, LinkFault, LinkDrops, Connect,
      ScanTopic, Resubscribe, ResubscribeFails, ReceiveCommand, ExecuteCommand,
      CommandFails, Reconnect, listenerVars
<1>3. QED
  BY <1>1, <1>2 DEF Next, LinkStep

-----------------------------------------------------------------------------
LEMMA NextListener == TypeOK /\ ListenerInv /\ [Next]_vars => ListenerInv'
<1> SUFFICES ASSUME TypeOK, ListenerInv, [Next]_vars PROVE ListenerInv'
  OBVIOUS
<1> USE DEF ListenerInv, linkUp
<1>1. ASSUME NEW c \in Conn,
             Accept(c) \/ Close(c) \/ HookPanic(c) \/ TaskStep(c)
      PROVE  ListenerInv'
  BY <1>1
  DEF Accept, Close, HookPanic, TaskStep, Subscribe, SendSubscribe, Serve,
      Deregister, Leave, DropTopic, SendUnsubscribe, listenerVars, redisVars,
      MapStep, Registered, Advance, IsFirst, IsLast, Rest
<1>2. CASE ReceiveCommand
  <2>1. Head(queue) \in Command
    BY <1>2 DEF TypeOK, ReceiveCommand, Receives, OldestCommand
  <2>2. QED
    BY <1>2, <2>1 DEF ReceiveCommand, redisVars, Receives, OldestCommand
<1>3. CASE Connect \/ Resubscribe \/ ExecuteCommand \/ \E t \in Topic : ScanTopic(t)
  BY <1>3 DEF Connect, Resubscribe, ExecuteCommand, ScanTopic, redisVars,
              ChannelsAfter, Collected
<1>4. CASE ResubscribeFails \/ CommandFails \/ ConnectFails \/ LinkDrops
  BY <1>4
  DEF ResubscribeFails, CommandFails, ConnectFails, LinkDrops, Reconnect,
      Fault, listenerVars
<1>5. CASE UNCHANGED vars
  BY <1>5 DEF vars, listenerVars, redisVars
<1>6. QED
  BY <1>1, <1>2, <1>3, <1>4, <1>5 DEF Next, ListenerStep, LinkFault

-----------------------------------------------------------------------------
(* What tasks do to one topic.                                             *)

LEMMA NextTeardown ==
  ASSUME TypeOK, RegistryInv, NEW t \in Topic, TeardownInv(t), Next,
         ~(TearingDown(t) /\ Joins(t))
  PROVE  TeardownInv(t)'
<1> USE ServiceAssumption
    DEF ServiceAssumption, TypeOK, RegistryInv, EmptyEntriesAreDropped,
        MemberState, TeardownInv
<1>1. ASSUME NEW e \in Conn,
             Accept(e) \/ Close(e) \/ HookPanic(e) \/ Serve(e) \/ Deregister(e)
      PROVE  TeardownInv(t)'
  BY <1>1 DEF Accept, Close, HookPanic, Serve, Deregister, Goto, connVars,
              MapStep, Registered, Advance
<1>2. ASSUME NEW e \in Conn, SendSubscribe(e) \/ SendUnsubscribe(e)
      PROVE  TeardownInv(t)'
  BY <1>2 DEF SendSubscribe, SendUnsubscribe, Goto, connVars
<1>3. ASSUME NEW e \in Conn, Subscribe(e) PROVE TeardownInv(t)'
  <2>1. CASE TopicOf[e] # t
    BY <1>3, <2>1 DEF Subscribe, Goto, MapStep, IsFirst
  <2>2. CASE TopicOf[e] = t
    <3>1. Joins(t)
      BY <1>3, <2>2 DEF Joins, Subscribe, Goto, MapStep, IsFirst
    <3>2. \A c \in Conn : TopicOf[c] = t => pc[c] \notin {"dropTopic", "sendUnsub"}
      BY <3>1 DEF TearingDown
    <3>3. \A c \in Conn : TopicOf[c] = t /\ pc[c] = "sendSub" => subscriptions[t] # {}
      OBVIOUS
    <3>4. QED
      BY <1>3, <2>2, <3>2, <3>3 DEF Subscribe, Goto, MapStep, IsFirst
  <2>3. QED
    BY <2>1, <2>2
<1>4. ASSUME NEW e \in Conn, Leave(e) PROVE TeardownInv(t)'
  <2>1. CASE TopicOf[e] # t
    BY <1>4, <2>1 DEF Leave, Goto, MapStep, IsLast, Rest
  <2>2. CASE TopicOf[e] = t
    <3>1. e \in subscriptions[t]
      BY <1>4, <2>2 DEF Leave, Goto, MapStep, IsLast, Rest
    <3>2. \A c \in Conn : TopicOf[c] = t => pc[c] \notin {"dropTopic", "sendUnsub"}
      BY <3>1
    <3>3. QED
      BY <1>4, <2>2, <3>1, <3>2 DEF Leave, Goto, MapStep, IsLast, Rest
  <2>3. QED
    BY <2>1, <2>2
<1>5. ASSUME NEW e \in Conn, DropTopic(e) PROVE TeardownInv(t)'
  BY <1>5 DEF DropTopic, Goto, MapStep
<1>6. CASE LinkStep
  BY <1>6, LinkStepsKeepRegistry DEF LinkStep, connVars
<1>7. QED
  BY <1>1, <1>2, <1>3, <1>4, <1>5, <1>6 DEF Next, TaskStep, LinkStep

(* A step that sends nothing for t does not change what was announced for  *)
(* t, and can only weaken what the maps require of Redis.                  *)
LEMMA QuietStep ==
  ASSUME TypeOK, RegistryInv, NEW t \in Topic, TeardownInv(t), QuietTaskStep(t),
         ~(TearingDown(t) /\ Joins(t))
  PROVE  /\ Announced(t)' <=> Announced(t)
         /\ (t \in entries /\ ~AboutToSubscribe(t))' => t \in entries /\ ~AboutToSubscribe(t)
         /\ t \in entries \/ AboutToUnsubscribe(t) => (t \in entries \/ AboutToUnsubscribe(t))'
<1> USE ServiceAssumption
    DEF ServiceAssumption, TypeOK, RegistryInv, EmptyEntriesAreDropped,
        MemberState, TeardownInv, Announced, AboutToSubscribe, AboutToUnsubscribe
<1>1. ASSUME NEW e \in Conn,
             Accept(e) \/ Close(e) \/ HookPanic(e) \/ Serve(e) \/ Deregister(e)
      PROVE  /\ entries' = entries
             /\ AboutToSubscribe(t)' <=> AboutToSubscribe(t)
             /\ AboutToUnsubscribe(t)' <=> AboutToUnsubscribe(t)
  BY <1>1 DEF Accept, Close, HookPanic, Serve, Deregister, Goto, connVars,
              MapStep, Registered, Advance
<1>2. ASSUME NEW e \in Conn, TopicOf[e] # t, SendSubscribe(e) \/ SendUnsubscribe(e)
      PROVE  /\ entries' = entries
             /\ AboutToSubscribe(t)' <=> AboutToSubscribe(t)
             /\ AboutToUnsubscribe(t)' <=> AboutToUnsubscribe(t)
  BY <1>2 DEF SendSubscribe, SendUnsubscribe, Goto, connVars
<1>3. ASSUME NEW e \in Conn, Leave(e)
      PROVE  /\ entries' = entries
             /\ AboutToSubscribe(t)' <=> AboutToSubscribe(t)
             /\ AboutToUnsubscribe(t)' <=> AboutToUnsubscribe(t)
  BY <1>3 DEF Leave, Goto, MapStep, IsLast, Rest
<1>4. ASSUME NEW e \in Conn, TopicOf[e] # t, Subscribe(e) \/ DropTopic(e)
      PROVE  /\ t \in entries' <=> t \in entries
             /\ AboutToSubscribe(t)' <=> AboutToSubscribe(t)
             /\ AboutToUnsubscribe(t)' <=> AboutToUnsubscribe(t)
  BY <1>4 DEF Subscribe, DropTopic, Goto, MapStep, IsFirst
<1>5. ASSUME NEW e \in Conn, TopicOf[e] = t, Subscribe(e)
      PROVE  /\ ~AboutToUnsubscribe(t) /\ ~AboutToUnsubscribe(t)'
             /\ t \in entries'
             /\ t \notin entries => ~AboutToSubscribe(t) /\ AboutToSubscribe(t)'
             /\ t \in entries => (AboutToSubscribe(t)' <=> AboutToSubscribe(t))
  <2>1. Joins(t)
    BY <1>5 DEF Joins, Subscribe, Goto, MapStep, IsFirst
  <2>2. \A c \in Conn : TopicOf[c] = t => pc[c] \notin {"dropTopic", "sendUnsub"}
    BY <2>1 DEF TearingDown
  <2>3. t \in entries <=> subscriptions[t] # {}
    BY <2>2
  <2>4. t \notin entries => ~AboutToSubscribe(t)
    BY <2>3
  <2>5. QED
    BY <1>5, <2>2, <2>3, <2>4 DEF Subscribe, Goto, MapStep, IsFirst
<1>6. ASSUME NEW e \in Conn, TopicOf[e] = t, DropTopic(e)
      PROVE  /\ t \in entries /\ t \notin entries'
             /\ ~AboutToSubscribe(t)
             /\ AboutToUnsubscribe(t)'
  BY <1>6 DEF DropTopic, Goto, MapStep
<1>7. QED
  BY <1>1, <1>2, <1>3, <1>4, <1>5, <1>6 DEF QuietTaskStep

(* A send for t makes its command the last one and announces just that.    *)
LEMMA SendStep ==
  ASSUME TypeOK, RegistryInv, NEW t \in Topic, TeardownInv(t), SendsFor(t)
  PROVE  \E op \in {"Subscribe", "Unsubscribe"} :
           /\ queue' = Append(queue, [op |-> op, topic |-> t])
           /\ op = "Subscribe" <=> Announced(t)'
<1> USE ServiceAssumption
    DEF ServiceAssumption, TypeOK, MemberState, TeardownInv, Announced,
        AboutToSubscribe, AboutToUnsubscribe
<1>1. ASSUME NEW c \in Conn, TopicOf[c] = t, SendSubscribe(c)
      PROVE  /\ queue' = Append(queue, [op |-> "Subscribe", topic |-> t])
             /\ Announced(t)'
  <2>1. \A d \in Conn : TopicOf[d] = t => pc'[d] # "sendSub"
    BY <1>1 DEF SendSubscribe, Goto
  <2>2. c \in subscriptions[t]
    BY <1>1 DEF SendSubscribe, Goto
  <2>3. QED
    BY <1>1, <2>1, <2>2 DEF RegistryInv, SendSubscribe, Send, connVars,
                            HasRoom
<1>2. ASSUME NEW c \in Conn, TopicOf[c] = t, SendUnsubscribe(c)
      PROVE  /\ queue' = Append(queue, [op |-> "Unsubscribe", topic |-> t])
             /\ ~Announced(t)'
  <2>1. \A d \in Conn : TopicOf[d] = t => pc'[d] # "sendUnsub"
    BY <1>2 DEF SendUnsubscribe, Goto
  <2>2. t \notin entries
    BY <1>2 DEF SendUnsubscribe, Goto
  <2>3. QED
    BY <1>2, <2>1, <2>2 DEF SendUnsubscribe, Send, connVars, HasRoom
<1>3. QED
  BY <1>1, <1>2 DEF SendsFor

(* The rest of what a task's step leaves alone.                            *)
LEMMA QuietQueue ==
  ASSUME TypeOK, NEW t \in Topic, QuietTaskStep(t)
  PROVE  /\ UNCHANGED <<listenerVars, redisVars>>
         /\ \/ queue' = queue
            \/ \E cmd \in Command : cmd.topic # t /\ queue' = Append(queue, cmd)
<1>1. ASSUME NEW c \in Conn, TopicOf[c] # t, SendSubscribe(c) \/ SendUnsubscribe(c)
      PROVE  \E cmd \in Command : cmd.topic # t /\ queue' = Append(queue, cmd)
  <2>1. PICK op \in {"Subscribe", "Unsubscribe"} : Send(op, TopicOf[c])
    BY <1>1 DEF SendSubscribe, SendUnsubscribe
  <2>2. [op |-> op, topic |-> TopicOf[c]] \in Command
    BY ServiceAssumption DEF ServiceAssumption, Command
  <2>3. QED
    BY <1>1, <2>1, <2>2 DEF Send, HasRoom
<1>2. QED
  BY <1>1
  DEF QuietTaskStep, Accept, Close, HookPanic, Serve, Deregister, Subscribe,
      Leave, DropTopic, SendSubscribe, SendUnsubscribe, Send, connVars,
      MapStep, Registered, Advance, IsFirst, IsLast, Rest, HasRoom

LEMMA LinkStepKeeps ==
  ASSUME NEW t \in Topic, LinkStep
  PROVE  /\ Announced(t)' <=> Announced(t)
         /\ entries' = entries
         /\ AboutToSubscribe(t)' <=> AboutToSubscribe(t)
         /\ AboutToUnsubscribe(t)' <=> AboutToUnsubscribe(t)
BY LinkStepsKeepRegistry
DEF LinkStep, connVars, Announced, AboutToSubscribe, AboutToUnsubscribe

-----------------------------------------------------------------------------
(* The commands on their way.                                              *)

(* A command that says what the maps say puts the queue right about t: it  *)
(* is the last one, and Redis has not heard it yet.                        *)
LEMMA SentLast ==
  ASSUME TypeOK, NEW t \in Topic, NEW op \in {"Subscribe", "Unsubscribe"},
         queue' = Append(queue, [op |-> op, topic |-> t]),
         op = "Subscribe" <=> Announced(t)'
  PROVE  CommandInv(t)' /\ ForwardInv(t)'
<1>1. queue \in Seq(Command) /\ [op |-> op, topic |-> t] \in Command
  BY DEF TypeOK, Command
<1>2. /\ Len(queue') = Len(queue) + 1 /\ Len(queue) \in Nat
      /\ queue'[Len(queue) + 1].topic = t
      /\ queue'[Len(queue) + 1].op = op
  BY <1>1
<1>3. CommandInv(t)'
  BY <1>2 DEF CommandInv
<1>4. ForwardInv(t)'
  BY <1>2 DEF ForwardInv, NoCommandFor
<1>5. QED
  BY <1>3, <1>4

LEMMA NextCommand ==
  ASSUME TypeOK, TypeOK', ListenerInv, RegistryInv, NEW t \in Topic, Next,
         TeardownInv(t), CommandInv(t), ~(TearingDown(t) /\ Joins(t))
  PROVE  CommandInv(t)'
<1>1. queue \in Seq(Command) /\ inflight \subseteq Command
  BY DEF TypeOK
<1>2. CASE SendsFor(t)
  BY <1>2, SendStep, SentLast
<1>3. CASE QuietTaskStep(t)
  <2>1. inflight' = inflight
    BY <1>3, QuietQueue DEF listenerVars
  <2>2. Announced(t)' <=> Announced(t)
    BY <1>3, QuietStep
  <2>3. CASE queue' = queue
    BY <2>1, <2>2, <2>3 DEF CommandInv
  <2>4. ASSUME NEW cmd \in Command, cmd.topic # t, queue' = Append(queue, cmd)
        PROVE  CommandInv(t)'
    <3>1. /\ Len(queue') = Len(queue) + 1
          /\ \A i \in 1 .. Len(queue) : queue'[i] = queue[i]
          /\ queue'[Len(queue) + 1].topic # t
      BY <1>1, <2>4
    <3>2. Len(queue) \in Nat
      BY <1>1
    <3>3. \A i \in 1 .. Len(queue') : queue'[i].topic = t => i \in 1 .. Len(queue)
      BY <3>1, <3>2
    <3>4. QED
      BY <2>1, <2>2, <3>1, <3>2, <3>3 DEF CommandInv
  <2>5. QED
    BY <1>3, <2>3, <2>4, QuietQueue
<1>4. CASE LinkStep
  <2>1. Announced(t)' <=> Announced(t)
    BY <1>4, LinkStepKeeps
  <2>2. CASE ReceiveCommand
    <3>1. /\ Len(queue) \in Nat \ {0}
          /\ inflight' = {queue[1]}
          /\ Len(queue') = Len(queue) - 1
          /\ \A i \in 1 .. Len(queue') : queue'[i] = queue[i + 1]
      BY <1>1, <2>2 DEF ReceiveCommand, Receives, OldestCommand
    <3>2. ASSUME NEW i \in 1 .. Len(queue'), queue'[i].topic = t,
                 \A j \in i+1 .. Len(queue') : queue'[j].topic # t
          PROVE  queue'[i].op = "Subscribe" <=> Announced(t)'
      <4>1. i + 1 \in 1 .. Len(queue) /\ queue[i + 1].topic = t
        BY <3>1, <3>2
      <4>2. ASSUME NEW j \in (i+1)+1 .. Len(queue) PROVE queue[j].topic # t
        <5>1. j - 1 \in i+1 .. Len(queue') /\ j - 1 \in 1 .. Len(queue')
          BY <3>1
        <5>2. queue'[j - 1] = queue[(j - 1) + 1] /\ (j - 1) + 1 = j
          BY <3>1, <5>1
        <5>3. QED
          BY <3>2, <5>1, <5>2
      <4>3. QED
        BY <2>1, <3>1, <4>1, <4>2 DEF CommandInv
    <3>3. ASSUME \A i \in 1 .. Len(queue') : queue'[i].topic # t, queue[1].topic = t
          PROVE  queue[1].op = "Subscribe" <=> Announced(t)'
      <4>1. ASSUME NEW j \in 1+1 .. Len(queue) PROVE queue[j].topic # t
        <5>1. j - 1 \in 1 .. Len(queue')
          BY <3>1
        <5>2. queue'[j - 1] = queue[(j - 1) + 1] /\ (j - 1) + 1 = j
          BY <3>1, <5>1
        <5>3. QED
          BY <3>3, <5>1, <5>2
      <4>2. QED
        BY <2>1, <3>1, <3>3, <4>1 DEF CommandInv
    <3>4. QED
      BY <3>1, <3>2, <3>3 DEF CommandInv
  <2>3. CASE queue' = queue /\ (inflight' = {} \/ inflight' = inflight)
    BY <2>1, <2>3 DEF CommandInv
  <2>4. QED
    BY <1>4, <2>2, <2>3
    DEF LinkStep, ListenerStep, ConnectFails, LinkFault, LinkDrops, Connect,
        ScanTopic, Resubscribe, ResubscribeFails, ExecuteCommand,
        CommandFails, Reconnect, listenerVars, Collected, ChannelsAfter
<1>5. QED
  BY <1>2, <1>3, <1>4, NextSplits

-----------------------------------------------------------------------------
(* What Redis forwards, or will once the listener has resubscribed.        *)

LEMMA NextForward ==
  ASSUME TypeOK, ListenerInv, RegistryInv, NEW t \in Topic, Next,
         TeardownInv(t), CommandInv(t), ForwardInv(t), ~(TearingDown(t) /\ Joins(t))
  PROVE  ForwardInv(t)'
<1>1. queue \in Seq(Command) /\ inflight \subseteq Command
  BY DEF TypeOK
<1>2. CASE SendsFor(t)
  BY <1>2, SendStep, SentLast
<1>3. CASE QuietTaskStep(t)
  <2>1. UNCHANGED <<listenerVars, redisVars>>
    BY <1>3, QuietQueue
  <2>2. NoCommandFor(t)' => NoCommandFor(t)
    <3>1. CASE queue' = queue
      BY <2>1, <3>1 DEF NoCommandFor, listenerVars
    <3>2. ASSUME NEW cmd \in Command, queue' = Append(queue, cmd)
          PROVE  NoCommandFor(t)' => NoCommandFor(t)
      <4>1. /\ Len(queue) \in Nat /\ Len(queue') = Len(queue) + 1
            /\ \A i \in 1 .. Len(queue) : queue'[i] = queue[i]
        BY <1>1, <3>2
      <4>2. QED
        BY <2>1, <4>1 DEF NoCommandFor, listenerVars
    <3>3. QED
      BY <1>3, <3>1, <3>2, QuietQueue
  <2>3. \A S : Matches(t, S) => Matches(t, S)'
    BY <1>3, QuietStep DEF Matches
  <2>4. QED
    BY <2>1, <2>2, <2>3 DEF ForwardInv, Matches, linkUp, listenerVars, redisVars
<1>4. CASE LinkStep
  <2>1. /\ entries' = entries
        /\ AboutToSubscribe(t)' <=> AboutToSubscribe(t)
        /\ AboutToUnsubscribe(t)' <=> AboutToUnsubscribe(t)
    BY <1>4, LinkStepKeeps
  <2>2. CASE ReceiveCommand
    <3>1. /\ Len(queue) \in Nat \ {0}
          /\ inflight' = {queue[1]}
          /\ Len(queue') = Len(queue) - 1
          /\ \A i \in 1 .. Len(queue') : queue'[i] = queue[i + 1]
      BY <1>1, <2>2 DEF ReceiveCommand, Receives, OldestCommand
    <3>2. ASSUME NoCommandFor(t)', NEW i \in 1 .. Len(queue)
          PROVE  queue[i].topic # t
      <4>1. CASE i = 1
        BY <3>1, <3>2, <4>1 DEF NoCommandFor
      <4>2. CASE i # 1
        <5>1. i - 1 \in 1 .. Len(queue') /\ (i - 1) + 1 = i
          BY <3>1, <4>2
        <5>2. queue'[i - 1] = queue[i]
          BY <3>1, <5>1
        <5>3. QED
          BY <3>2, <5>1, <5>2 DEF NoCommandFor
      <4>3. QED
        BY <4>1, <4>2
    <3>3. inflight = {}
      BY <2>2 DEF ListenerInv, ReceiveCommand, Receives, OldestCommand
    <3>4. QED
      BY <2>1, <2>2, <3>2, <3>3
      DEF ForwardInv, NoCommandFor, Matches, linkUp, ReceiveCommand,
          redisVars, Receives, OldestCommand
  <2>3. CASE ExecuteCommand
    <3>1. PICK cmd \in Command : inflight = {cmd}
      BY <2>3 DEF ListenerInv, ExecuteCommand, ChannelsAfter
    <3>2. /\ linkUp /\ lst = "executing"
          /\ redisSubs' = IF cmd.op = "Subscribe" THEN redisSubs \cup {cmd.topic}
                                                  ELSE redisSubs \ {cmd.topic}
          /\ queue' = queue /\ lst' = "listening"
      BY <2>3, <3>1 DEF ExecuteCommand, ChannelsAfter
    <3>3. CASE cmd.topic = t
      BY <2>1, <3>1, <3>2, <3>3
      DEF ForwardInv, NoCommandFor, Matches, CommandInv, Announced
    <3>4. CASE cmd.topic # t
      BY <2>1, <3>1, <3>2, <3>4 DEF ForwardInv, NoCommandFor, Matches
    <3>5. QED
      BY <3>3, <3>4
  <2>4. CASE Connect
    BY <2>4 DEF ForwardInv, Connect
  <2>5. ASSUME NEW u \in Topic, ScanTopic(u) PROVE ForwardInv(t)'
    <3>1. /\ UNCHANGED <<queue, inflight>>
          /\ lst = "scanning" /\ lst' \in {"scanning", "resubscribing"}
          /\ t \in scan => t \in scan' \/ u = t
          /\ t \in resub' <=> (t \in resub \/ (u = t /\ t \in entries))
      BY <2>5 DEF ScanTopic, Collected
    <3>2. t \in scan => t \notin resub
      BY DEF ListenerInv
    <3>3. QED
      BY <2>1, <3>1, <3>2 DEF ForwardInv, NoCommandFor, Matches
  <2>6. CASE Resubscribe
    BY <2>1, <2>6
    DEF ForwardInv, NoCommandFor, Matches, Resubscribe, ListenerInv, linkUp
  <2>7. CASE ResubscribeFails \/ CommandFails \/ ConnectFails \/ LinkDrops
    BY <2>1, <2>7
    DEF ForwardInv, NoCommandFor, Matches, ResubscribeFails, CommandFails,
        ConnectFails, LinkDrops, Reconnect, linkUp, listenerVars
  <2>8. QED
    BY <1>4, <2>2, <2>3, <2>4, <2>5, <2>6, <2>7
    DEF LinkStep, ListenerStep, LinkFault
<1>5. QED
  BY <1>2, <1>3, <1>4, NextSplits

-----------------------------------------------------------------------------
(* How a topic gets right again.                                           *)

LEMMA MendedIsRight ==
  ASSUME TypeOK, TypeOK', ListenerInv, RegistryInv, RegistryInv', NEW t \in Topic, Next,
         Mended(t)
  PROVE  TeardownInv(t)' /\ CommandInv(t)' /\ ForwardInv(t)'
<1>1. InOrder(t)'
  BY DEF Mended
<1>2. TeardownInv(t)'
  BY <1>1 DEF InOrder, TeardownInv, AboutToSubscribe, TearingDown
<1>3. (Announced(t) <=> t \in entries)'
  BY <1>1 DEF InOrder, Announced, AboutToUnsubscribe, TearingDown
<1>4. ASSUME NEW c \in Conn, TopicOf[c] = t, pc[c] = "sendSub", pc'[c] = "onConnect"
      PROVE  CommandInv(t)' /\ ForwardInv(t)'
  <2>1. SendSubscribe(c)
    BY <1>4, NextSends
  <2>2. queue' = Append(queue, [op |-> "Subscribe", topic |-> t])
    BY <1>4, <2>1 DEF SendSubscribe, Send
  <2>3. t \in entries'
    BY <1>1, <1>4 DEF InOrder, MemberState, RegistryInv
  <2>4. QED
    BY <1>3, <2>2, <2>3, SentLast
<1>5. ASSUME NEW c \in Conn, TopicOf[c] = t, pc[c] = "sendUnsub", pc'[c] = "gone",
             t \notin entries
      PROVE  CommandInv(t)' /\ ForwardInv(t)'
  <2>1. SendUnsubscribe(c)
    BY <1>5, NextSends
  <2>2. /\ queue' = Append(queue, [op |-> "Unsubscribe", topic |-> t])
        /\ t \notin entries'
    BY <1>5, <2>1 DEF SendUnsubscribe, Send, connVars
  <2>3. QED
    BY <1>3, <2>2, SentLast
<1>6. ASSUME Reread(t) PROVE CommandInv(t)' /\ ForwardInv(t)'
  <2>1. ScanTopic(t)
    BY <1>6, NextReads DEF Reread
  <2>2. /\ NoCommandFor(t)'
        /\ lst' \in {"scanning", "resubscribing"}
        /\ t \in resub' <=> t \in entries'
    <3>1. t \in scan /\ t \notin resub
      BY <1>6 DEF Reread, ListenerInv
    <3>2. /\ UNCHANGED <<queue, inflight, entries>>
          /\ lst' \in {"scanning", "resubscribing"}
      BY <2>1 DEF ScanTopic, connVars
    <3>3. NoCommandFor(t)'
      BY <1>6, <3>2 DEF Reread, NoCommandFor
    <3>4. t \in resub' <=> t \in entries
      BY <2>1, <3>1 DEF ScanTopic, Collected
    <3>5. QED
      BY <3>2, <3>3, <3>4
  <2>3. CommandInv(t)'
    BY <2>2 DEF CommandInv, NoCommandFor
  <2>4. Matches(t, resub)'
    BY <2>2 DEF Matches
  <2>5. QED
    BY <2>2, <2>3, <2>4 DEF ForwardInv
<1>7. QED
  BY <1>2, <1>4, <1>5, <1>6 DEF Mended, CommandSent

-----------------------------------------------------------------------------
LEMMA InitTracking == HInit => TrackingInv
<1> SUFFICES ASSUME HInit PROVE TrackingInv
  OBVIOUS
<1>1. TypeOK /\ RegistryInv
  BY InitType, InitRegistry DEF HInit
<1>2. QED
  BY <1>1, ServiceAssumption
  DEF ServiceAssumption, HInit, Init, TrackingInv, ListenerInv, TeardownInv,
      CommandInv, ForwardInv, MemberState, linkUp

LEMMA NextTracking == TrackingInv /\ [HNext]_hvars => TrackingInv'
<1> SUFFICES ASSUME TrackingInv, [HNext]_hvars PROVE TrackingInv'
  OBVIOUS
<1>1. [Next]_vars
  BY DEF HNext, hvars
<1>2. TypeOK' /\ ListenerInv' /\ RegistryInv'
  BY <1>1, NextType, NextListener, NextRegistry DEF TrackingInv
<1>3. CASE HNext
  <2>1. ASSUME NEW t \in Topic, t \notin overlapped'
        PROVE  TeardownInv(t)' /\ CommandInv(t)' /\ ForwardInv(t)'
    <3>1. Next /\ TypeOK /\ ListenerInv /\ RegistryInv
      BY <1>3 DEF HNext, TrackingInv
    <3>2. CASE Mended(t)
      BY <1>2, <3>1, <3>2, MendedIsRight
    <3>3. CASE ~Mended(t)
      <4>1. t \notin overlapped /\ ~(TearingDown(t) /\ Joins(t))
        BY <1>3, <2>1, <3>3 DEF HNext, Record
      <4>2. TeardownInv(t) /\ CommandInv(t) /\ ForwardInv(t)
        BY <4>1 DEF TrackingInv
      <4>3. TeardownInv(t)'
        BY <3>1, <4>1, <4>2, NextTeardown
      <4>4. CommandInv(t)'
        BY <1>2, <3>1, <4>1, <4>2, NextCommand
      <4>5. ForwardInv(t)'
        BY <3>1, <4>1, <4>2, NextForward
      <4>6. QED
        BY <4>3, <4>4, <4>5
    <3>4. QED
      BY <3>2, <3>3
  <2>2. QED
    BY <1>2, <2>1 DEF TrackingInv
<1>4. CASE UNCHANGED hvars
  BY <1>2, <1>4
  DEF TrackingInv, TeardownInv, CommandInv, ForwardInv, NoCommandFor, Matches,
      Announced, AboutToSubscribe, AboutToUnsubscribe, linkUp, hvars, vars,
      connVars, listenerVars, redisVars
<1>5. QED
  BY <1>3, <1>4

(* The invariant from which the others follow: for every topic nobody has  *)
(* joined during a teardown, or that was mended since, the last command on *)
(* its way, the listener's reading of the maps and Redis's list of         *)
(* channels agree with the maps.                                           *)
THEOREM TrackingInductive == HSpec => []TrackingInv
BY InitTracking, NextTracking, PTL DEF HSpec

(* A connection that has joined and not left is in its topic's set, so     *)
(* handle_redis_broadcast finds it.                                        *)
THEOREM MembersStayListed == HSpec => []MembersAreListed
<1>1. TrackingInv => MembersAreListed
  BY ServiceAssumption
  DEF ServiceAssumption, TrackingInv, TeardownInv, MembersAreListed
<1>2. QED
  BY <1>1, TrackingInductive, PTL

(* Once nothing is under way, Redis forwards every topic that has an       *)
(* entry: run_redis_listener loses none, whatever it had to reconnect for. *)
THEOREM LiveTopicsStayForwarded == HSpec => []LiveTopicsAreForwarded
<1>1. TrackingInv => LiveTopicsAreForwarded
  BY DEF TrackingInv, TypeOK, ForwardInv, Matches, LiveTopicsAreForwarded, Settled
<1>2. QED
  BY <1>1, TrackingInductive, PTL

(* Once nothing is under way, Redis forwards no topic without an entry:    *)
(* on_disconnect's Unsubscribe command is neither lost nor undone.         *)
THEOREM ForwardedTopicsStayLive == HSpec => []ForwardedTopicsAreLive
<1>1. TrackingInv => ForwardedTopicsAreLive
  BY DEF TrackingInv, TypeOK, ForwardInv, Matches, ForwardedTopicsAreLive, Settled
<1>2. QED
  BY <1>1, TrackingInductive, PTL
=============================================================================
