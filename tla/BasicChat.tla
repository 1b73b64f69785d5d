------------------------------- MODULE BasicChat -------------------------------
(***************************************************************************)
(* The application of examples/basic_chat.rs on top of the kit: who its    *)
(* tokens name, which topics they may use, what its handler does with a    *)
(* client's messages.  The hooks of MessageDelivery and the validators of  *)
(* Admission, which are open there, are the ones of the example here.      *)
(***************************************************************************)
EXTENDS MessageDelivery, Admission

CONSTANTS
  Malformed,   \* what is not a user id
  Private,     \* topics whose name starts with private- ...
  OwnerOf,     \* ... with the user in the rest of the name, if it is one
  Public       \* general and random

VARIABLE
  said         \* said[c]: the messages the receive loop of c has read

bvars == <<dvars, doorVars, said>>

(* A token is <user id>:<name>, perhaps after another Bearer.              *)
TokenText == [bearer : BOOLEAN, parts : {1, 2}, id : User \cup {Malformed}]

(* validate_token, which strips the prefix and believes the id.            *)
Identify(t) == IF t.parts = 2 /\ t.id \in User THEN t.id ELSE Nobody

(* Bug: the name in a private topic is not compared with the user.         *)
MayUseAnyPrivate(u, t) == t \in Private \cup Public

(* validate_topic_access: FORBIDDEN or NOT_FOUND otherwise.                *)
MayUse(u, t) == IF t \in Private THEN OwnerOf[t] = u ELSE t \in Public

ASSUME ChatAssumption ==
  /\ Malformed \notin User
  /\ Private \subseteq Topic
  /\ Public \subseteq Topic \ Private
  /\ OwnerOf \in [Private -> User \cup {Nobody}]
  /\ Token \subseteq TokenText
  /\ UserOf = [t \in Token |-> Identify(t)]
  /\ Rights = {p \in User \X Topic : MayUse(p[1], p[2])}
  /\ Changeable = {}

(* A text that is no ClientMessage, a Ping, or text for some room.         *)
Message == [kind : {"junk", "Ping"}] \cup [kind : {"SendMessage"}, room : Topic]

ChatInit ==
  /\ DInit
  /\ DoorInit
  /\ said = [c \in Conn |-> <<>>]

-----------------------------------------------------------------------------
(* What becomes of the message that c sent last.                           *)

Last(c) == said[c][read[c]]

AfterRead(msg) == IF msg.kind = "junk" THEN "replying" ELSE "direct"

(* Bug: what is not answered directly is published as it is.               *)
AfterDirectPublishes(msg) == IF msg.kind = "Ping" THEN "replying" ELSE "publishing"

(* handle_direct_message: Pong to a Ping; the rest falls through.          *)
AfterDirect(msg) == IF msg.kind = "Ping" THEN "replying" ELSE "broadcast"

(* Bug: the room is not compared with the topic of the connection.         *)
AfterBroadcastAnyRoom(c, msg) ==
  IF msg.kind = "SendMessage" THEN "publishing" ELSE "reading"

(* handle_broadcast_message: BAD_REQUEST for another room than the topic.  *)
AfterBroadcast(c, msg) ==
  IF msg.kind # "SendMessage" THEN "reading"
  ELSE IF msg.room = TopicOf[c] THEN "publishing" ELSE "replying"

(* A client of another node talks once it was let in there.                *)
Hear(c) ==
  /\ c \in Senders
  /\ c \in Remote => door[c] = "entered"
  /\ read[c] < MaxMessages
  /\ read' = [read EXCEPT ![c] = @ + 1]
  /\ \E msg \in Message :
       /\ said' = [said EXCEPT ![c] = Append(@, msg)]
       /\ Proceed(c, "reading", AfterRead(msg))
  /\ UNCHANGED <<wire, sends, out>>

Think(c) ==
  /\ read[c] > 0
  /\ \/ Proceed(c, "direct", AfterDirect(Last(c)))
     \/ Proceed(c, "broadcast", AfterBroadcast(c, Last(c)))
  /\ UNCHANGED <<said, read, wire, sends, out>>

ChatStep(c) == Hear(c) \/ Think(c)

(* The upgrade of a request at another node.                               *)
EnterElsewhere(c) ==
  /\ c \in Remote
  /\ door[c] \in Ready
  /\ Pass(c, door[c], "entered")
  /\ UNCHANGED <<request, user, since>>

ChatNext ==
  \/ (\E c \in Conn : ChatStep(c)) /\ UNCHANGED doorVars
  \/ (\E c \in Conn : AdmissionStep(c) \/ EnterElsewhere(c)) /\ UNCHANGED <<dvars, said>>
  \/ KitStep /\ Gate /\ UNCHANGED said

ChatSpec == ChatInit /\ [][ChatNext]_bvars

(* The chat uses the kit as MessageDelivery lets an application use it.    *)
DeliverySpec == DSpec

-----------------------------------------------------------------------------
(* Properties.                                                             *)

SaidOK == said \in [Conn -> Seq(Message)] /\ \A c \in Conn : Len(said[c]) = read[c]

(* What was said to a room is heard in that room only, although the room   *)
(* is checked against the sender's topic, and the event finds its clients  *)
(* by the topic of a connection: nobody gets the text of another room, nor *)
(* anything that is not a text.                                            *)
RoomsStayApart ==
  \A c \in Conn : \A i \in 1 .. Len(out[c]) :
    LET f == out[c][i] IN
    f.kind = "event" => said[f.from][f.n] = [kind |-> "SendMessage", room |-> TopicOf[c]]

(* Events on a private topic go from connections of its owner to others of *)
(* the owner's, on whatever node, and to nobody else.                      *)
PrivateRoomsArePrivate ==
  \A c \in Conn : TopicOf[c] \in Private =>
    \A i \in 1 .. Len(out[c]) :
      /\ user[c] = OwnerOf[TopicOf[c]]
      /\ out[c][i].kind = "event" => user[out[c][i].from] = OwnerOf[TopicOf[c]]

(* The event comes from a message that was read, and meant for its room.   *)
ForItsRoom(e) ==
  /\ e.n <= read[e.from]
  /\ said[e.from][e.n] = [kind |-> "SendMessage", room |-> TopicOf[e.from]]

(* Whoever is in was found to be a user that may use the topic.            *)
EnteredMayUse ==
  \A c \in Conn :
    /\ door[c] \in {"upgrading", "entered"} => user[c] \in User /\ MayUse(user[c], TopicOf[c])
    /\ pc[c] # "idle" \/ read[c] > 0 \/ out[c] # <<>> => door[c] = "entered"

(* The inductive invariant behind the two.                                 *)
ChatInv ==
  /\ OnTopicInv
  /\ SaidOK
  /\ DoorTypeOK
  /\ granted = Rights
  /\ \A c \in Conn : recv[c] = "publishing" => ForItsRoom(EventOf(c))
  /\ \A i \in 1 .. Len(wire) : ForItsRoom(wire[i])
  /\ \A s \in fan \cup sends : ForItsRoom(s.event) /\ pc[s.to] # "idle"
  /\ \A c \in Conn : \A i \in 1 .. Len(out[c]) :
       out[c][i].kind = "event" => ForItsRoom(out[c][i])
  /\ EnteredMayUse
=============================================================================
