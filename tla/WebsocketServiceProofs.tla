----------------------- MODULE WebsocketServiceProofs -----------------------
(***************************************************************************)
(* The two shared maps of a node stay consistent, for any set of           *)
(* connections and topics, any channel capacity and any pattern of link    *)
(* failures and panicking hooks.                                           *)
(***************************************************************************)
EXTENDS WebsocketService, TLAPS

(* Steps of the listener and of the link leave the tasks and maps alone.   *)
LEMMA LinkStepsKeepRegistry ==
  ASSUME ListenerStep \/ ConnectFails \/ LinkFault \/ LinkDrops
  PROVE  UNCHANGED <<pc, connVars>>
BY DEF ListenerStep, ConnectFails, LinkFault, LinkDrops, Connect, ScanTopic,
       Resubscribe, ResubscribeFails, ReceiveCommand, ExecuteCommand,
       CommandFails, Collected, Receives, OldestCommand, ChannelsAfter

(* What appending to and taking from the channel does to its type.         *)
LEMMA SendType ==
  ASSUME TypeOK, NEW t \in Topic, NEW op \in {"Subscribe", "Unsubscribe"}, Send(op, t)
  PROVE  /\ queue' \in Seq(Command)
         /\ Len(queue') <= Capacity
BY ServiceAssumption DEF ServiceAssumption, TypeOK, Send, Command, HasRoom

LEMMA ReceiveType ==
  ASSUME TypeOK, ReceiveCommand
  PROVE  /\ queue' \in Seq(Command)
         /\ Len(queue') <= Capacity
         /\ inflight' \subseteq Command
BY ServiceAssumption DEF ServiceAssumption, TypeOK, ReceiveCommand, Receives,
                         OldestCommand

LEMMA InitType == Init => TypeOK
BY ServiceAssumption
DEF ServiceAssumption, Init, TypeOK, ConnState, ListenerState

LEMMA NextType == TypeOK /\ [Next]_vars => TypeOK'
<1> SUFFICES ASSUME TypeOK, [Next]_vars PROVE TypeOK'
  OBVIOUS
<1> USE ServiceAssumption DEF ServiceAssumption
<1>1. ASSUME NEW c \in Conn,
             Accept(c) \/ Close(c) \/ HookPanic(c) \/ TaskStep(c)
      PROVE  TypeOK'
  <2>1. TopicOf[c] \in Topic
    OBVIOUS
  <2>2. CASE Accept(c) \/ Close(c) \/ HookPanic(c) \/ Serve(c) \/ Deregister(c)
    BY <2>2 DEF TypeOK, Accept, Close, HookPanic, Serve, Deregister, Goto,
                ConnState, connVars, listenerVars, redisVars, MapStep,
                Registered, Advance
  <2>3. CASE Subscribe(c) \/ Leave(c) \/ DropTopic(c)
    BY <2>1, <2>3 DEF TypeOK, Subscribe, Leave, DropTopic, Goto, ConnState,
                      connVars, listenerVars, redisVars, MapStep, IsFirst,
                      IsLast, Rest
  <2>4. CASE SendSubscribe(c)
    BY <2>1, <2>4, SendType
    DEF TypeOK, SendSubscribe, Goto, ConnState, connVars, listenerVars, redisVars
  <2>5. CASE SendUnsubscribe(c)
    BY <2>1, <2>5, SendType
    DEF TypeOK, SendUnsubscribe, Goto, ConnState, connVars, listenerVars, redisVars
  <2>6. QED
    BY <1>1, <2>2, <2>3, <2>4, <2>5 DEF TaskStep
<1>2. CASE ReceiveCommand
  BY <1>2, ReceiveType
  DEF TypeOK, ReceiveCommand, ListenerState, connVars, redisVars, Receives,
      OldestCommand
<1>3. CASE ExecuteCommand
  BY <1>3
  DEF TypeOK, ExecuteCommand, ListenerState, Command, connVars, ChannelsAfter
<1>4. CASE Connect \/ Resubscribe \/ \E t \in Topic : ScanTopic(t)
  BY <1>4
  DEF TypeOK, Connect, Resubscribe, ScanTopic, ListenerState, connVars,
      redisVars, Collected
<1>5. CASE ResubscribeFails \/ CommandFails
  BY <1>5
  DEF TypeOK, ResubscribeFails, CommandFails, Reconnect, Fault, ListenerState, connVars
<1>6. CASE ConnectFails \/ LinkDrops
  BY <1>6
  DEF TypeOK, ConnectFails, LinkDrops, Fault, connVars, listenerVars
<1>7. CASE UNCHANGED vars
  BY <1>7 DEF TypeOK, vars, connVars, listenerVars, redisVars
<1>8. QED
  BY <1>1, <1>2, <1>3, <1>4, <1>5, <1>6, <1>7 DEF Next, ListenerStep, LinkFault

(* Every state of every behaviour is of the types the program's variables  *)
(* have; in particular the command channel never exceeds its capacity.     *)
THEOREM TypeCorrect == Spec => []TypeOK
BY InitType, NextType, PTL DEF Spec

-----------------------------------------------------------------------------
LEMMA InitRegistry == Init => RegistryInv
BY DEF Init, RegistryInv, MembersHaveSinks, EmptyEntriesAreDropped

LEMMA NextRegistry == TypeOK /\ RegistryInv /\ [Next]_vars => RegistryInv'
<1> SUFFICES ASSUME TypeOK, RegistryInv, [Next]_vars PROVE RegistryInv'
  OBVIOUS
<1> USE ServiceAssumption DEF ServiceAssumption
<1> USE DEF TypeOK, RegistryInv, MembersHaveSinks, EmptyEntriesAreDropped, MemberState
<1>1. ASSUME NEW c \in Conn,
             Accept(c) \/ Close(c) \/ HookPanic(c) \/ TaskStep(c)
      PROVE  RegistryInv'
  <2>1. TopicOf[c] \in Topic
    OBVIOUS
  <2>2. CASE Accept(c)
    BY <2>2 DEF Accept, Goto, MapStep, Registered
  <2>3. CASE Close(c) \/ HookPanic(c) \/ Serve(c)
    BY <2>3 DEF Close, HookPanic, Serve, Goto, connVars, MapStep, Advance
  <2>4. CASE Subscribe(c)
    BY <2>1, <2>4 DEF Subscribe, Goto, MapStep, IsFirst
  <2>5. CASE SendSubscribe(c) \/ SendUnsubscribe(c)
    BY <2>5 DEF SendSubscribe, SendUnsubscribe, Goto, connVars
  <2>6. CASE Deregister(c)
    BY <2>6 DEF Deregister, Goto, MapStep
  <2>7. CASE Leave(c)
    BY <2>1, <2>7 DEF Leave, Goto, MapStep, IsLast, Rest
  <2>8. CASE DropTopic(c)
    BY <2>1, <2>8 DEF DropTopic, Goto, MapStep
  <2>9. QED
    BY <1>1, <2>2, <2>3, <2>4, <2>5, <2>6, <2>7, <2>8 DEF TaskStep
<1>2. CASE ListenerStep \/ ConnectFails \/ LinkFault \/ LinkDrops
  BY <1>2, LinkStepsKeepRegistry DEF connVars
<1>3. CASE UNCHANGED vars
  BY <1>3 DEF vars, connVars
<1>4. QED
  BY <1>1, <1>2, <1>3 DEF Next

(* The two maps agree, by an invariant that every step preserves.          *)
THEOREM RegistryInductive == Spec => [](TypeOK /\ RegistryInv)
<1>1. Init => TypeOK /\ RegistryInv
  BY InitType, InitRegistry
<1>2. (TypeOK /\ RegistryInv) /\ [Next]_vars => (TypeOK /\ RegistryInv)'
  BY NextType, NextRegistry
<1>3. QED
  BY <1>1, <1>2, PTL DEF Spec

(* A disconnected id never stays in a topic's set: every member has a sink *)
(* or is between the two removals of on_disconnect.                        *)
THEOREM MembersAlwaysHaveSinks == Spec => []MembersHaveSinks
<1>1. TypeOK /\ RegistryInv => MembersHaveSinks
  BY DEF RegistryInv
<1>2. QED
  BY <1>1, RegistryInductive, PTL

(* An entry whose set became empty always has a task about to remove it,   *)
(* however joins and leaves of other tasks fall around that removal.       *)
THEOREM EmptyEntriesAlwaysDropped == Spec => []EmptyEntriesAreDropped
<1>1. TypeOK /\ RegistryInv => EmptyEntriesAreDropped
  BY DEF RegistryInv
<1>2. QED
  BY <1>1, RegistryInductive, PTL
=============================================================================
