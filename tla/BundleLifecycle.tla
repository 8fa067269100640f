--------------------------- MODULE BundleLifecycle ---------------------------
(***************************************************************************)
(* The bundle manager and the bundle processor (src/src/bundle) at work    *)
(* with the event manager: from a pending entry of the mempool to a        *)
(* transaction, and back when sending fails.  What events do is Settlement.*)
(*                                                                         *)
(* An attempt is one run of doAttemptBundle: a tick of the auto bundler,   *)
(* which waits for the manager's mutex, or debug_bundler_sendBundleNow,    *)
(* which does not.  Its steps are                                          *)
(*                                                                         *)
(*   events -> take -> mark -> build -> send [-> wait] -> record           *)
(*                                         \-> crash, or back (op by op)   *)
(*                                                                         *)
(* What other modules have in detail is coarse here: the builder is one    *)
(* step that decides every entry taken (BundleBuilder), a removal is one   *)
(* step (Mempool), and handlePastEvents is an await during which events    *)
(* may be settled, as they may at any time (EventManager).  The chain, the *)
(* RPC node and the relay are external.                                    *)
(***************************************************************************)
EXTENDS Settlement, Integers, Sequences, SequencesExt, FiniteSets

CONSTANTS
  Ticks, Debug,          \* attempts: of the interval, of the debug API
  Auth,                  \* operations with an EIP-7702 authorization
  TxModes,               \* values of txMode
  UsesBanned,            \* Op -> operations an address to ban is an entity of
  BundleSize, MaxTxs, MaxFailures    \* MaxTxs, MaxFailures: bounds

ASSUME AttemptAssumption ==
  /\ IsFiniteSet(Op)
  /\ Ticks \cap Debug = {}
  /\ Auth \subseteq Op
  /\ TxModes \subseteq {"base", "searcher"}
  /\ UsesBanned \in [Op -> SUBSET Op]

VARIABLES
  txMode,
  queue,            \* the mutex: its holder, then those who wait
  attempt,
  txs,              \* external: bundle transactions given to the network
  bundleTxs,        \* StateKey.BundleTxs
  failures,         \* errors so far: of the network, or that cost an entry (bound)
  overlapped,       \* history: an attempt ran beside one of the debug API
  unsure,           \* history: given back while their transaction was live
  stranded          \* history: left 'bundling' by a path that gives nothing back

attemptVars == <<txMode, queue, attempt, txs, bundleTxs, failures,
                 overlapped, unsure, stranded>>
vars == <<settleVars, attemptVars>>

Callers == Ticks \cup Debug
IdleAttempt == [pc |-> "idle", ops |-> <<>>, taken |-> {}, tx |-> 0, found |-> FALSE]
At(a, pc) == attempt[a].pc = pc
Goto(a, pc) == attempt' = [attempt EXCEPT ![a].pc = pc]
Active == {a \in Callers : attempt[a].pc \notin {"idle", "queued"}}

Chain == <<landed, succeeded, settled>>

Is7702(ops) == Range(ops) \cap Auth # {}
Txs == DOMAIN txs
Live(x) == txs[x].state = "live"
Bundling == {o \in Op : pool[o] = "bundling"}

\* Seeded bug: the mutex stays locked.
FinishLocked(a) ==
  attempt' = [attempt EXCEPT ![a] = IdleAttempt] /\ UNCHANGED queue

\* The attempt is over: the finally block of runExclusive releases the mutex.
\* sendBundleNow handles past events once more, and does nothing after that.
Finish(a) ==
  /\ attempt' = [attempt EXCEPT ![a] = IdleAttempt]
  /\ queue' = IF a \in Ticks THEN Tail(queue) ELSE queue

-----------------------------------------------------------------------------
(* Attempts start *)

\* The attempts under way may each send one transaction.
BelowBound ==
  Len(txs) + Cardinality({a \in Callers : ~At(a, "idle")}) < MaxTxs

\* A tick of the interval, if the mode is auto: it queues for the mutex.
Tick(a) ==
  /\ BelowBound
  /\ At(a, "idle")
  /\ Goto(a, "queued")
  /\ queue' = Append(queue, a)
  /\ UNCHANGED <<settleVars, txMode, txs, bundleTxs, failures, overlapped, unsure, stranded>>

\* Seeded bug: the tick does not wait.
MayStartUnlocked(a) == At(a, "queued")
MayStart(a) == At(a, "queued") /\ Head(queue) = a

\* doAttemptBundle begins with handlePastEvents.
Start(a) ==
  /\ \/ a \in Ticks /\ MayStart(a)
     \/ a \in Debug /\ At(a, "idle") /\ BelowBound
  /\ Goto(a, "events")
  /\ overlapped' = (overlapped \/ (Active # {} /\ (Active \cup {a}) \cap Debug # {}))
  /\ UNCHANGED <<settleVars, txMode, queue, txs, bundleTxs, failures,
                 unsure, stranded>>

EventsDone(a) ==
  /\ At(a, "events")
  /\ Goto(a, "take")
  /\ UNCHANGED <<settleVars, txMode, queue, txs, bundleTxs, failures,
                 overlapped, unsure, stranded>>

-----------------------------------------------------------------------------
(* createBundle *)

\* getNextPending, or getAllPending for the debug API, finds the entries ...
Take(a) ==
  LET pending == {o \in Op : pool[o] = "pending"}
      n == IF a \in Debug \/ Cardinality(pending) < BundleSize
           THEN Cardinality(pending) ELSE BundleSize
  IN
  /\ At(a, "take")
  /\ \/ /\ pending = {}
        /\ Finish(a)
     \/ /\ pending # {}
        /\ \E S \in {P \in SUBSET pending : Cardinality(P) = n} :
             attempt' = [attempt EXCEPT ![a].pc = "mark", ![a].taken = S]
        /\ UNCHANGED queue
  /\ UNCHANGED <<settleVars, txMode, txs, bundleTxs, failures, overlapped, unsure, stranded>>

\* ... and marks them after an await; one that has gone is a TypeError.
MarkBundling(a) ==
  LET S == attempt[a].taken
      marked == S \cap {o \in Op : pool[o] # "absent"}
  IN
  /\ At(a, "mark")
  /\ \/ /\ marked = S
        /\ pool' = [o \in Op |-> IF o \in S THEN "bundling" ELSE pool[o]]
        /\ Goto(a, "build")
        /\ UNCHANGED <<queue, stranded>>
     \/ /\ marked # S
        /\ \E done \in SUBSET marked :
             /\ pool' = [o \in Op |-> IF o \in done THEN "bundling" ELSE pool[o]]
             /\ stranded' = stranded \cup done
        /\ Finish(a)
  /\ UNCHANGED <<Chain, txMode, txs, bundleTxs, failures, overlapped, unsure>>

NetworkFails == failures < MaxFailures /\ failures' = failures + 1

\* An entry is given back, left as it is, dropped, or part of the bundle.
Decide(a, ops, back, left) ==
  /\ pool' = [o \in Op |->
       IF o \in back /\ pool[o] # "absent" THEN "pending"
       ELSE IF o \in attempt[a].taken \ (Range(ops) \cup left) THEN "absent"
       ELSE pool[o]]
  /\ stranded' = stranded \cup left
  /\ \/ left = {} /\ UNCHANGED failures
     \/ left # {} /\ NetworkFails
  /\ \/ ops = <<>> /\ Finish(a)
     \/ /\ ops # <<>>
        /\ attempt' = [attempt EXCEPT ![a].pc = "send", ![a].ops = ops, ![a].taken = {}]
        /\ UNCHANGED queue

\* The second validation fails for an operation that is on chain already.  When
\* balanceOf or the hook rejects, nothing is sent and the entries not seen to are
\* left; a hook that returns early and a conflict of tuples leave some as well.
Build(a) ==
  /\ At(a, "build")
  /\ \E kept \in SUBSET (attempt[a].taken \ landed) :
     \E back \in SUBSET (attempt[a].taken \ kept) :
     \E left \in SUBSET (attempt[a].taken \ (kept \cup back)) :
       Decide(a, SetToSeq(kept), back, left)    \* nothing depends on the order
  /\ UNCHANGED <<Chain, txMode, txs, bundleTxs, overlapped, unsure>>

-----------------------------------------------------------------------------
(* sendBundle *)

\* A transaction of type 2 is estimated first; on the chain of that moment
\* handleOps must not revert.
EstimatePasses(a) == Is7702(attempt[a].ops) \/ Range(attempt[a].ops) \cap landed = {}

\* sendTransaction, eth_sendRawTransaction or the relay takes it.
Send(a) ==
  /\ At(a, "send") /\ EstimatePasses(a)
  /\ txs' = Append(txs, [ops |-> attempt[a].ops, state |-> "live",
                         private |-> txMode = "searcher"])
  /\ attempt' = [attempt EXCEPT ![a].pc = IF txMode = "base" THEN "wait" ELSE "record",
                                ![a].tx = Len(txs')]
  /\ UNCHANGED <<settleVars, txMode, queue, bundleTxs, failures, overlapped, unsure, stranded>>

\* Type 2 waits until it is mined, and rejects when it reverted.  With an
\* authorization the receipt is looked for once and its status is not: a bundle
\* that reverted counts as sent, one that has no receipt yet as failed.
Receipt(a) ==
  LET ops == attempt[a].ops
      state == txs[attempt[a].tx].state
  IN
  /\ At(a, "wait")
  /\ \/ /\ state = "mined" \/ (state = "reverted" /\ Is7702(ops))
        /\ Goto(a, "record")
        /\ stranded' = IF state = "reverted" THEN stranded \cup Range(ops) ELSE stranded
        /\ UNCHANGED failures
     \/ /\ \/ state = "reverted" /\ ~Is7702(ops) /\ UNCHANGED failures
           \/ state = "live" /\ Is7702(ops) /\ UNCHANGED failures
           \/ NetworkFails
        /\ Goto(a, "back")
        /\ UNCHANGED stranded
  /\ unsure' = IF At(a, "wait") /\ state = "live" /\ attempt'[a].pc = "back"
               THEN unsure \cup Range(ops) ELSE unsure
  /\ UNCHANGED <<settleVars, txMode, queue, txs, bundleTxs, overlapped>>

\* getUserOpHashes, the audit events, and updateState(BundleTxs).
Record(a) ==
  /\ At(a, "record")
  /\ bundleTxs' = bundleTxs \cup {attempt[a].tx}
  /\ Finish(a)
  /\ UNCHANGED <<settleVars, txMode, txs, failures, overlapped, unsure, stranded>>

\* handleOps would revert with FailedOp(i): because the operation is on chain
\* already, or for a reason of its own.
FailedOp(a) ==
  /\ At(a, "send")
  /\ \/ ~EstimatePasses(a) /\ UNCHANGED failures
     \/ ~Is7702(attempt[a].ops) /\ NetworkFails
  /\ \E i \in DOMAIN attempt[a].ops :
       LET failed == attempt[a].ops[i]
           gone(blamed) == {failed} \cup blamed
       IN
       /\ ~EstimatePasses(a) => failed \in landed
       /\ \E blamed \in {{}, UsesBanned[failed]} :
            /\ pool' = [o \in Op |-> IF o \in gone(blamed) THEN "absent" ELSE pool[o]]
            /\ stranded' = stranded \cup (Range(attempt[a].ops) \ gone(blamed))
  /\ Finish(a)
  /\ UNCHANGED <<Chain, txMode, txs, bundleTxs, overlapped, unsure>>

\* Another error: the operations go back one by one.
NonFatal(a) ==
  /\ At(a, "send") /\ NetworkFails
  /\ Goto(a, "back")
  /\ UNCHANGED <<settleVars, txMode, queue, txs, bundleTxs, overlapped, unsure, stranded>>

\* The balance of the signer cannot be read (selectBeneficiary is before the
\* try), checkFatal rethrows, or the error's data is none of the entry point's
\* errors and parseFailedOpRevert throws: nobody gives the operations back.
Fatal(a) ==
  /\ At(a, "send") /\ NetworkFails
  /\ stranded' = stranded \cup Range(attempt[a].ops)
  /\ Finish(a)
  /\ UNCHANGED <<settleVars, txMode, txs, bundleTxs, overlapped, unsure>>

\* Seeded bug: the first operation only.
GiveBackOne(a) ==
  attempt' = [attempt EXCEPT ![a].ops = <<>>, ![a].found = FALSE]
GiveBack(a) ==
  attempt' = [attempt EXCEPT ![a].ops = Tail(@), ![a].found = FALSE]

\* updateEntryStatus(userOp, 'pending'): look up, await, write.
LookUpEntry(a) ==
  /\ At(a, "back") /\ attempt[a].ops # <<>> /\ ~attempt[a].found
  /\ IF pool[Head(attempt[a].ops)] = "absent" THEN GiveBack(a)
     ELSE attempt' = [attempt EXCEPT ![a].found = TRUE]
  /\ UNCHANGED <<settleVars, txMode, queue, txs, bundleTxs, failures,
                 overlapped, unsure, stranded>>

WriteEntry(a) ==
  /\ At(a, "back") /\ attempt[a].found
  /\ pool' = [pool EXCEPT ![Head(attempt[a].ops)] = "pending"]
  /\ GiveBack(a)
  /\ UNCHANGED <<Chain, txMode, queue, txs, bundleTxs, failures,
                 overlapped, unsure, stranded>>

AllBack(a) ==
  /\ At(a, "back") /\ attempt[a].ops = <<>>
  /\ Finish(a)
  /\ UNCHANGED <<settleVars, txMode, txs, bundleTxs, failures, overlapped, unsure, stranded>>

-----------------------------------------------------------------------------
(* external: the network *)

Ended(x, state) == txs' = [txs EXCEPT ![x].state = state]

Mine(x) ==
  /\ Live(x)
  /\ \E ok \in BOOLEAN : Land(Range(txs[x].ops), ok)
  /\ Ended(x, "mined")
  /\ UNCHANGED <<settled, pool, txMode, queue, attempt, bundleTxs, failures, overlapped, unsure, stranded>>

\* handleOps reverts when one of its operations is on chain already; whoever
\* handed the transaction to the relay does not look.
Revert(x) ==
  /\ Live(x)
  /\ Range(txs[x].ops) \cap landed # {}
  /\ Ended(x, "reverted")
  /\ stranded' = IF txs[x].private THEN stranded \cup Range(txs[x].ops) ELSE stranded
  /\ UNCHANGED <<settleVars, txMode, queue, attempt, bundleTxs, failures,
                 overlapped, unsure>>

\* The relay forgets a transaction that was not included in five blocks.
Drop(x) ==
  /\ Live(x) /\ txs[x].private /\ NetworkFails
  /\ Ended(x, "dropped")
  /\ stranded' = stranded \cup Range(txs[x].ops)
  /\ UNCHANGED <<settleVars, txMode, queue, attempt, bundleTxs, overlapped, unsure>>

-----------------------------------------------------------------------------

Setup ==
  /\ landed = {} /\ succeeded = {} /\ settled = {}
  /\ pool = [o \in Op |-> "pending"]    \* addUserOp was called before
  /\ txMode \in TxModes
  /\ queue = <<>>
  /\ attempt = [a \in Callers |-> IdleAttempt]
  /\ txs = <<>> /\ bundleTxs = {}
  /\ failures = 0
  /\ overlapped = FALSE /\ unsure = {} /\ stranded = {}

Settle(o) == SettleOp(o) /\ UNCHANGED attemptVars

AttemptStep(a) ==
  \/ EventsDone(a)
  \/ Take(a) \/ MarkBundling(a) \/ Build(a)
  \/ Send(a) \/ Receipt(a) \/ Record(a)
  \/ FailedOp(a) \/ NonFatal(a) \/ Fatal(a)
  \/ LookUpEntry(a) \/ WriteEntry(a) \/ AllBack(a)

Network == \E x \in Txs : Mine(x) \/ Revert(x) \/ Drop(x)

Step ==
  \/ \E a \in Ticks : Tick(a)
  \/ \E a \in Callers : Start(a) \/ AttemptStep(a)
  \/ \E o \in Op : Settle(o)
  \/ Network

\* Promises are settled and the queue of the mutex moves on; the chain
\* includes what was sent, and its events arrive.
Fairness ==
  /\ \A a \in Callers : WF_vars(AttemptStep(a))
  /\ \A a \in Ticks : WF_vars(Start(a))
  /\ \A o \in Op : WF_vars(o \notin settled /\ Settle(o))
  /\ WF_vars(Network)

LifecycleSpec == Setup /\ [][Step]_vars /\ Fairness

-----------------------------------------------------------------------------
(* Properties *)

\* The shape of the state; only ticks queue for the mutex, each of them once.
TypeOK ==
  /\ pool \in [Op -> Status]
  /\ settled \subseteq landed /\ succeeded \subseteq landed
  /\ Range(queue) = {a \in Ticks : ~At(a, "idle")}
  /\ IsInjective(queue)
  /\ \A a \in Callers : /\ attempt[a].taken \subseteq Op
                        /\ Range(attempt[a].ops) \subseteq Op
                        /\ attempt[a].tx \in 0 .. Len(txs)
  /\ bundleTxs \subseteq Txs

\* The network never holds two transactions with the same operation, unless
\* an attempt ran beside one of the debug API (bundle-manager.ts:71), or the
\* operation was given back while its transaction was on its way
\* (bundle-processor.ts:230).
SentOnce ==
  \A x, y \in {z \in Txs : Live(z)} : x # y =>
    \/ overlapped
    \/ Range(txs[x].ops) \cap Range(txs[y].ops) \subseteq unsure

\* An entry that is 'bundling' is in the hands of an attempt, in a transaction
\* whose events are still to come, or was stranded: by a builder that rejected,
\* returned early or met a conflict of tuples, by a FailedOp of another operation
\* of its bundle, a fatal error, a TypeError, a 7702 bundle that reverted, or the
\* relay.
BundlingAccounted ==
  \A o \in Bundling :
    \/ \E a \in Callers : o \in attempt[a].taken \cup Range(attempt[a].ops)
    \/ \E x \in Txs :
         /\ o \in Range(txs[x].ops)
         /\ \/ Live(x)
            \/ txs[x].state = "mined" /\ o \notin settled
    \/ o \in stranded

\* Every attempt ends and lets the next one have the mutex.
AttemptsEnd == \A a \in Callers : ~At(a, "idle") ~> At(a, "idle")

\* However its event, the return of its bundle and other attempts interleave,
\* an operation that is on chain does not stay 'bundling', unless one of the
\* stranding paths left it so.
LandedSettles ==
  \A o \in Op : o \in landed ~> pool[o] # "bundling" \/ o \in stranded
=============================================================================
