---------------------------- MODULE MCEventManager ----------------------------
(* EventManager for TLC: what a configuration cannot write.                *)
EXTENDS EventManager

CONSTANTS o1, o2, agg

OneAggregator == [o \in Op |-> IF o = o1 THEN agg ELSE NoAggregator]
=============================================================================
