-------------------------- MODULE MCMessageDelivery --------------------------
(* Small instances of MessageDelivery for TLC.                             *)
EXTENDS MessageDelivery

CONSTANTS c1, c2, c3, c4, t1, t2

(* All connections on one topic.                                           *)
OneTopic == [c \in Conn |-> t1]
=============================================================================
