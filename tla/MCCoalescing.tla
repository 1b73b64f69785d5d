---------------------------- MODULE MCCoalescing ----------------------------
(* Small instances of Coalescing for TLC.                                  *)
EXTENDS Coalescing

CONSTANTS c1, c2, c3, c4, k1, k2

(* One call has a key of its own, the others share one.                    *)
TwoKeys == [c \in Caller |-> IF c = c1 THEN k2 ELSE k1]
=============================================================================
