--------------------------- MODULE MCNodeLifecycle ---------------------------
(* A small instance of NodeLifecycle for TLC: two operations share a paymaster. *)
EXTENDS NodeLifecycle

MCLower == [x \in Address |-> x]
MCEntity == [o \in Op |-> IF o = "q1" THEN "q" ELSE "p"]
MCSettings == {[opsSeen |-> 4, opsIncluded |-> 2]}
=============================================================================
