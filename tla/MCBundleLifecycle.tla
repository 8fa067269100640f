-------------------------- MODULE MCBundleLifecycle --------------------------
(* BundleLifecycle for TLC: what a configuration cannot write.             *)
EXTENDS BundleLifecycle

\* Blaming one entity takes no other operation with it.
NobodyElse == [o \in Op |-> {o}]
=============================================================================
