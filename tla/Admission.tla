------------------------------- MODULE Admission -------------------------------
(***************************************************************************)
(* How a request becomes a connection: the WsAuth extractor finds a token  *)
(* and asks the application whose it is, upgrade_handler asks it whether   *)
(* that user may use the topic, and the WebSocket upgrade runs in the      *)
(* background before WebsocketService takes over.  The application may     *)
(* change its mind about who may use what at any moment.                   *)
(***************************************************************************)
EXTENDS WebsocketService

CONSTANTS
  User,
  Token,
  Nobody,      \* no user, and
  NoToken,     \* no token
  UserOf,      \* UserOf[t]: whom validate_token finds for token t
  Requests,    \* what requests carry in their Authorization header and query
  Rights,      \* the <<user, topic>> pairs the validator accepts at first
  Changeable   \* the pairs about which the application may change its mind

ASSUME AdmissionAssumption ==
  /\ Nobody \notin User
  /\ NoToken \notin Token
  /\ UserOf \in [Token -> User \cup {Nobody}]
  /\ Requests \subseteq [scheme : {"none", "Bearer", "other"},
                         header : Token \cup {NoToken},
                         query  : Token \cup {NoToken}]
  /\ \A r \in Requests : r.scheme = "Bearer" => r.header \in Token
  /\ Rights \subseteq User \X Topic
  /\ Changeable \subseteq User \X Topic

VARIABLES
  door,      \* door[c]: how far the request for connection c has got
  request,   \* request[c]: what it carries
  user,      \* user[c]: whom the extractor found
  granted,   \* the pairs the validator accepts
  since      \* since[c]: those it accepted when c was requested or later (history)

doorVars == <<door, request, user, granted, since>>
avars == <<vars, doorVars>>

DoorState ==
  {"out", "authenticating", "authorising", "upgrading",
   "unauthorized", "refused", "lost", "entered"}

NoRequest == [scheme |-> "none", header |-> NoToken, query |-> NoToken]

DoorInit ==
  /\ door = [c \in Conn |-> "out"]
  /\ request = [c \in Conn |-> NoRequest]
  /\ user = [c \in Conn |-> Nobody]
  /\ granted = Rights
  /\ since = [c \in Conn |-> {}]

AInit == Init /\ DoorInit

-----------------------------------------------------------------------------
Pass(c, from, to) ==
  /\ door[c] = from
  /\ door' = [door EXCEPT ![c] = to]
  /\ UNCHANGED granted

Request(c) ==
  /\ Pass(c, "out", "authenticating")
  /\ \E r \in Requests : request' = [request EXCEPT ![c] = r]
  /\ since' = [since EXCEPT ![c] = granted]
  /\ UNCHANGED user

(* Bug: a token in the query goes before the header.                       *)
TokenInQueryFirst(r) ==
  IF r.query # NoToken \/ r.scheme # "Bearer" THEN r.query ELSE r.header

(* A header with another scheme, or without a token, does not count.       *)
TokenIn(r) == IF r.scheme = "Bearer" THEN r.header ELSE r.query

Identity(c) ==
  IF TokenIn(request[c]) = NoToken THEN Nobody ELSE UserOf[TokenIn(request[c])]

(* from_request_parts: 401 without a token or with one that is not valid.  *)
Authenticate(c) ==
  /\ user' = [user EXCEPT ![c] = Identity(c)]
  /\ Pass(c, "authenticating", IF user'[c] = Nobody THEN "unauthorized" ELSE "authorising")
  /\ UNCHANGED <<request, since>>

(* Bug: some topic of the user's will do.                                  *)
IsGrantedSomewhere(c) == \E t \in Topic : <<user[c], t>> \in granted

IsGranted(c) == <<user[c], TopicOf[c]>> \in granted

(* upgrade_handler returns the validator's status, or starts the upgrade.  *)
Authorise(c) ==
  /\ Pass(c, "authorising", IF IsGranted(c) THEN "upgrading" ELSE "refused")
  /\ UNCHANGED <<request, user, since>>

(* The client is gone before the upgrade is done: no callback runs.        *)
UpgradeFails(c) ==
  /\ Pass(c, "upgrading", "lost")
  /\ UNCHANGED <<request, user, since>>

(* The application's data, not the kit's.                                  *)
ChangeRights ==
  /\ \E p \in Changeable : granted' \in {granted \cup {p}, granted \ {p}}
  /\ since' = [c \in Conn |-> since[c] \cup granted']
  /\ UNCHANGED <<door, request, user>>

(* Bug: upgraded before the validator was asked.                           *)
ReadyEarly == {"authorising", "upgrading"}

Ready == {"upgrading"}

Accepted == {c \in Conn : pc[c] = "idle" /\ pc'[c] # "idle"}

(* The callback of on_upgrade calls handle_connection, and nothing else    *)
(* does: in a step of the node, who is accepted comes through the door.    *)
Gate ==
  /\ \A c \in Accepted : door[c] \in Ready
  /\ door' = [c \in Conn |-> IF c \in Accepted THEN "entered" ELSE door[c]]
  /\ UNCHANGED <<request, user, granted, since>>

AdmissionStep(c) == Request(c) \/ Authenticate(c) \/ Authorise(c) \/ UpgradeFails(c)

ANext ==
  \/ (\E c \in Conn : AdmissionStep(c)) /\ UNCHANGED vars
  \/ ChangeRights /\ UNCHANGED vars
  \/ Next /\ Gate

ASpec == AInit /\ [][ANext]_avars

(* The application's two validators return, an upgrade succeeds or fails,  *)
(* and the node is as fair as in WebsocketService.                         *)
AFairness ==
  /\ \A c \in Conn :
       /\ WF_avars((Authenticate(c) \/ Authorise(c)) /\ UNCHANGED vars)
       /\ WF_avars((UpgradeFails(c) /\ UNCHANGED vars) \/ (Accept(c) /\ Gate))
       /\ WF_avars(TaskStep(c) /\ Gate)
  /\ WF_avars(ListenerStep /\ Gate)

AFairSpec == ASpec /\ AFairness

-----------------------------------------------------------------------------
(* Properties.                                                             *)

DoorTypeOK ==
  /\ door \in [Conn -> DoorState]
  /\ request \in [Conn -> Requests \cup {NoRequest}]
  /\ user \in [Conn -> User \cup {Nobody}]
  /\ granted \subseteq User \X Topic
  /\ since \in [Conn -> SUBSET (User \X Topic)]

(* Whoever is on a topic may have been shut out by now, the upgrade takes  *)
(* time: but the user that the bearer token of the request names, or the   *)
(* token of its query if there is none, was granted that topic when the    *)
(* request came or later, and no earlier grant is ever made use of.        *)
AcceptedWereGranted ==
  \A c \in Conn : pc[c] # "idle" =>
    /\ user[c] # Nobody
    /\ user[c] = UserOf[IF request[c].scheme = "Bearer"
                        THEN request[c].header ELSE request[c].query]
    /\ <<user[c], TopicOf[c]>> \in since[c]

(* The inductive invariant behind AcceptedWereGranted.                     *)
AdmissionInv ==
  /\ DoorTypeOK
  /\ AcceptedWereGranted
  /\ \A c \in Conn :
       /\ door[c] = "entered" <=> pc[c] # "idle"
       /\ door[c] # "out" => granted \subseteq since[c]
       /\ door[c] \in {"authorising", "upgrading"} => user[c] = Identity(c) /\ user[c] # Nobody
       /\ door[c] = "upgrading" => <<user[c], TopicOf[c]>> \in since[c]

(* Every request is turned away, is lost with its client, or is served in  *)
(* the end, also while the command channel is full and Redis is away.      *)
RequestsAreAnswered ==
  \A c \in Conn :
    door[c] = "authenticating" ~>
      door[c] \in {"unauthorized", "refused", "lost"} \/ pc[c] \in {"serving", "panicked"}
=============================================================================
