------------------------------ MODULE MCBasicChat ------------------------------
(* Small instances of BasicChat for TLC.                                   *)
EXTENDS BasicChat

CONSTANTS c1, c2, c3, t1, t2, u1, u2

(* The first connection has a topic of its own, the others share one.      *)
ChatTopics == [c \in Conn |-> IF c = c1 THEN t2 ELSE t1]

(* The shared topic belongs to the first user.                             *)
ChatOwner == [t \in Private |-> u1]

Text(bearer, parts, id) == [bearer |-> bearer, parts |-> parts, id |-> id]

(* The second user's id without a name is not a token.                     *)
ChatTokens == {Text(FALSE, 2, u1), Text(TRUE, 2, u2), Text(FALSE, 1, u1)}

ChatUsers == [t \in Token |-> Identify(t)]

ChatRights == {p \in User \X Topic : MayUse(p[1], p[2])}

(* Every token in a bearer header, and one in the query.                   *)
ChatRequests ==
  {[scheme |-> "Bearer", header |-> t, query |-> NoToken] : t \in Token}
=============================================================================
