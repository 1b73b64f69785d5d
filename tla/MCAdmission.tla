------------------------------ MODULE MCAdmission ------------------------------
(* Small instances of Admission for TLC.                                   *)
EXTENDS Admission

CONSTANTS c1, c2, t1, t2, u1, u2, k1, k2, bad

(* Each connection has a topic of its own.                                 *)
OwnTopics == [c \in Conn |-> IF c = c1 THEN t1 ELSE t2]

(* Two users with a token each, and a token that is not valid.             *)
Owners == [t \in Token |-> CASE t = k1 -> u1 [] t = k2 -> u2 [] OTHER -> Nobody]

(* A bearer token alone, and with another one in the query; a query token  *)
(* next to a header of another scheme; tokens that are missing or bad.     *)
SomeRequests ==
  {[scheme |-> "Bearer", header |-> k1, query |-> NoToken],
   [scheme |-> "Bearer", header |-> k1, query |-> k2],
   [scheme |-> "other", header |-> k1, query |-> k2],
   [scheme |-> "none", header |-> NoToken, query |-> NoToken],
   [scheme |-> "none", header |-> NoToken, query |-> bad]}

(* The first user may use both topics, but one only for a while; the       *)
(* second may not use that one.                                            *)
SomeRights == {<<u1, t1>>, <<u1, t2>>, <<u2, t2>>}
OneRight == {<<u1, t1>>}
=============================================================================
