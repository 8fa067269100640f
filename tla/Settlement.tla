------------------------------ MODULE Settlement ------------------------------
(***************************************************************************)
(* What the rest of the bundler relies on when operations reach the chain, *)
(* as an abstract specification: the chain executes operations, once each, *)
(* and sooner or later the mempool lets go of every one of them.           *)
(* EventManager implements it; BundleLifecycle builds on it.               *)
(***************************************************************************)
CONSTANTS Op

VARIABLES
  landed,       \* operations executed on chain
  succeeded,    \* those whose call did not revert
  settled,      \* those the mempool has been told of
  pool          \* the status of each entry

settleVars == <<landed, succeeded, settled, pool>>

Status == {"absent", "pending", "bundling", "failed"}

Land(ops, ok) ==
  /\ ops \cap landed = {}
  /\ landed' = landed \cup ops
  /\ succeeded' = IF ok THEN succeeded \cup ops ELSE succeeded

\* Seeded bug: the entry of a reverted operation keeps its status.
SettledIfSucceeded(o) == IF o \in succeeded THEN "absent" ELSE pool[o]

\* What becomes of the entry of an operation on chain.
SettledEntry(o) ==
  IF pool[o] = "absent" \/ o \in succeeded THEN "absent" ELSE "failed"

\* removeUserOp, or 'failed' for an operation that reverted; an operation may
\* be settled again.
SettleOp(o) ==
  /\ o \in landed
  /\ pool' = [pool EXCEPT ![o] = SettledEntry(o)]
  /\ settled' = settled \cup {o}
  /\ UNCHANGED <<landed, succeeded>>

Init ==
  /\ landed = {} /\ succeeded = {} /\ settled = {}
  /\ pool \in [Op -> {"absent", "pending", "bundling"}]

Next ==
  \/ \E ops \in SUBSET Op, ok \in BOOLEAN : Land(ops, ok) /\ UNCHANGED <<settled, pool>>
  \/ \E o \in Op : SettleOp(o)

Spec == /\ Init /\ [][Next]_settleVars
        /\ \A o \in Op : WF_settleVars(o \notin settled /\ SettleOp(o))
=============================================================================
