---------------------------- MODULE AdmissionProofs ----------------------------
(***************************************************************************)
(* Nobody gets a connection without having been granted its topic, for any *)
(* users, tokens and changes of rights.  Because the validator is asked    *)
(* before the upgrade, "granted" can only mean at the time of the request  *)
(* or later: the invariant carries the right that was seen through the     *)
(* upgrade as a member of since.                                           *)
(***************************************************************************)
EXTENDS Admission, WebsocketServiceProofs

(* With its admission the node still does nothing but what it does alone.  *)
THEOREM AdmissionImplementsService == ASpec => ServiceSpec
<1>1. AInit => Init
  BY DEF AInit
<1>2. [ANext]_avars => [Next]_vars
  BY DEF ANext, avars
<1>3. QED
  BY <1>1, <1>2, PTL DEF ASpec, Spec, ServiceSpec

LEMMA InitAdmission == AInit => AdmissionInv
BY AdmissionAssumption
DEF AdmissionAssumption, AInit, Init, DoorInit, AdmissionInv, DoorTypeOK, DoorState,
    AcceptedWereGranted

(* A task never goes back to where it was before its socket was accepted.  *)
LEMMA IdleIsLeftOnce ==
  ASSUME TypeOK, [Next]_vars, NEW c \in Conn, pc[c] # "idle"
  PROVE  pc'[c] # "idle"
<1>1. ASSUME NEW d \in Conn, Accept(d) \/ Close(d) \/ HookPanic(d) \/ TaskStep(d)
      PROVE  pc'[c] # "idle"
  BY <1>1
  DEF TypeOK, Accept, Close, HookPanic, TaskStep, Subscribe, SendSubscribe, Serve,
      Deregister, Leave, DropTopic, SendUnsubscribe, Advance, MapStep, Goto
<1>2. CASE ListenerStep \/ ConnectFails \/ LinkFault \/ LinkDrops
  BY <1>2
  DEF ListenerStep, ConnectFails, LinkFault, LinkDrops, Connect, ScanTopic, Resubscribe,
      ResubscribeFails, ReceiveCommand, ExecuteCommand, CommandFails
<1>3. CASE UNCHANGED vars
  BY <1>3 DEF vars
<1>4. QED
  BY <1>1, <1>2, <1>3 DEF Next

LEMMA NextAdmission == TypeOK /\ AdmissionInv /\ [ANext]_avars => AdmissionInv'
<1> SUFFICES ASSUME TypeOK, AdmissionInv, [ANext]_avars PROVE AdmissionInv'
  OBVIOUS
<1> USE AdmissionAssumption, ServiceAssumption
    DEF AdmissionAssumption, ServiceAssumption, AdmissionInv, DoorTypeOK, DoorState,
        AcceptedWereGranted, Identity, TokenIn
<1>1. ASSUME NEW c \in Conn, Request(c), UNCHANGED vars PROVE AdmissionInv'
  <2>1. /\ door[c] = "out" /\ door' = [door EXCEPT ![c] = "authenticating"]
        /\ \E r \in Requests : request' = [request EXCEPT ![c] = r]
        /\ since' = [since EXCEPT ![c] = granted]
        /\ UNCHANGED <<pc, granted, user>>
    BY <1>1 DEF Request, Pass, vars
  <2>2. DoorTypeOK'
    BY <2>1
  <2>3. pc[c] = "idle"
    BY <2>1
  <2>4. \A d \in Conn \ {c} : UNCHANGED <<door[d], request[d], user[d], since[d], pc[d]>>
    BY <2>1
  <2>5. AcceptedWereGranted'
    BY <2>1, <2>3, <2>4
  <2>6. QED
    BY <2>1, <2>2, <2>3, <2>4, <2>5
<1>2. ASSUME NEW c \in Conn, Authenticate(c), UNCHANGED vars PROVE AdmissionInv'
  <2>1. /\ door[c] = "authenticating" /\ user' = [user EXCEPT ![c] = Identity(c)]
        /\ door' = [door EXCEPT ![c] = IF user'[c] = Nobody THEN "unauthorized"
                                       ELSE "authorising"]
        /\ UNCHANGED <<pc, granted, request, since>>
    BY <1>2 DEF Authenticate, Pass, vars
  <2>2. Identity(c) \in User \cup {Nobody}
    BY <2>1 DEF NoRequest
  <2>3. QED
    BY <2>1, <2>2
<1>3. ASSUME NEW c \in Conn, Authorise(c), UNCHANGED vars PROVE AdmissionInv'
  BY <1>3 DEF Authorise, IsGranted, Pass, vars
<1>4. ASSUME NEW c \in Conn, UpgradeFails(c), UNCHANGED vars PROVE AdmissionInv'
  BY <1>4 DEF UpgradeFails, Pass, vars
<1>5. ASSUME ChangeRights, UNCHANGED vars PROVE AdmissionInv'
  BY <1>5 DEF ChangeRights, vars
<1>6. ASSUME [Next]_vars, Gate PROVE AdmissionInv'
  <2>1. /\ \A c \in Conn : pc[c] = "idle" /\ pc'[c] # "idle" => door[c] = "upgrading"
        /\ door' = [c \in Conn |-> IF pc[c] = "idle" /\ pc'[c] # "idle"
                                   THEN "entered" ELSE door[c]]
        /\ UNCHANGED <<request, user, granted, since>>
    BY <1>6 DEF Gate, Accepted, Ready
  <2>2. \A c \in Conn : pc[c] # "idle" => pc'[c] # "idle"
    BY <1>6, IdleIsLeftOnce
  <2>3. QED
    BY <2>1, <2>2 DEF NoRequest
<1>7. CASE UNCHANGED avars
  BY <1>7 DEF avars, vars, doorVars
<1>8. QED
  BY <1>1, <1>2, <1>3, <1>4, <1>5, <1>6, <1>7 DEF ANext, AdmissionStep

(* The invariant, of which the types are a conjunct.                       *)
THEOREM AdmissionIsRight == ASpec => []AdmissionInv
<1>1. ASpec => []TypeOK
  BY AdmissionImplementsService, TypeCorrect, PTL DEF ServiceSpec
<1>2. QED
  BY <1>1, InitAdmission, NextAdmission, PTL DEF ASpec

(* The door, the users found and the rights keep their types.              *)
THEOREM DoorTypeCorrect == ASpec => []DoorTypeOK
<1>1. AdmissionInv => DoorTypeOK
  BY DEF AdmissionInv
<1>2. QED
  BY <1>1, AdmissionIsRight, PTL

(* Whoever got past the door was granted the topic since the request came, *)
(* under the name that the request's own token stands for.                 *)
THEOREM AcceptedWereAlwaysGranted == ASpec => []AcceptedWereGranted
<1>1. AdmissionInv => AcceptedWereGranted
  BY DEF AdmissionInv
<1>2. QED
  BY <1>1, AdmissionIsRight, PTL
=============================================================================
