---------------------- MODULE MCSubscriptionTracking ------------------------
(* Small instances of SubscriptionTracking for TLC.                        *)
EXTENDS SubscriptionTracking

CONSTANTS c1, c2, c3, t1, t2

(* All connections on one topic.                                           *)
OneTopic == [c \in Conn |-> t1]
=============================================================================
