----------------------------- MODULE EventManager -----------------------------
(***************************************************************************)
(* The event manager (src/src/event/event-manager.ts): two consumers of    *)
(* the entry point's events, the listener of ethers and handlePastEvents,  *)
(* share the cursor lastBlock and the memory of the last aggregator, and   *)
(* take operations that are on chain out of the mempool.                   *)
(*                                                                         *)
(* A handler is one of them at work: a call of the listener, or of         *)
(* handlePastEvents.  handlePastEvents sends three queries, one per kind   *)
(* of event; each is answered with the chain of its own moment, and the    *)
(* events are then handled grouped by kind.  The chain is external: a      *)
(* sequence of events in the order of their blocks.  The listener is       *)
(* called for every UserOperationEvent in that order, any time later;      *)
(* nobody waits for what a call returns, so that calls overlap.            *)
(* Removing an entry is one step here; Mempool has the look-up apart.      *)
(***************************************************************************)
EXTENDS Integers, Sequences, SequencesExt, FiniteSets

CONSTANTS
  Op,
  Callers,         \* who calls handlePastEvents
  Listeners,       \* calls of the listener that may be at work at once (bound)
  Deploys,         \* operations whose transaction also deploys the account
  Aggregator,      \* Op -> the aggregator announced with it, or NoAggregator
  NoAggregator,
  LookBack,        \* LAST_1000_BLOCKS
  MaxBlock,        \* bound: the chain ends here
  MaxRuns          \* bound: calls of handlePastEvents

Handlers == Callers \cup Listeners
Kinds == <<"UserOperationEvent", "AccountDeployed", "SignatureAggregatorChanged">>

ASSUME EventAssumption ==
  /\ IsFiniteSet(Op)
  /\ Listeners \cap Callers = {}
  /\ Deploys \subseteq Op
  /\ DOMAIN Aggregator = Op
  /\ {LookBack, MaxBlock, MaxRuns} \subseteq Nat

VARIABLES
  log, head,       \* the entry point's events; the newest block
  landed,          \* operations executed on chain
  pool,            \* standardPool: the status of each entry
  lastBlock,       \* 0 for null
  aggregator,      \* eventAggregator and eventAggregatorTxHash
  heard,           \* events of the log the listener has passed
  handler,         \* each handler at work
  runs,            \* calls of handlePastEvents so far (bound)
  handled, credited    \* history: events handled; aggregators credited

vars == <<log, head, landed, pool, lastBlock, aggregator, heard, handler, runs,
          handled, credited>>

IdleHandler == [pc |-> "idle", from |-> 0, got |-> [k \in 1 .. 3 |-> <<>>],
                asked |-> {}, todo |-> <<>>, written |-> FALSE]

HandlerAt(h, pc) == handler[h].pc = pc
SetHandler(h, r) == handler' = [handler EXCEPT ![h] = r]

-----------------------------------------------------------------------------
(* external: the chain *)

\* The events of one transaction that executes ops, in the order of the code
\* of the entry point.
EventsOf(ops, block, tx, ok) ==
  LET event(kind, o) == [kind |-> kind, op |-> o, block |-> block, tx |-> tx, ok |-> ok]
      of(o) == (IF Aggregator[o] = NoAggregator THEN <<>> ELSE <<event(Kinds[3], o)>>)
               \o (IF o \in Deploys THEN <<event(Kinds[2], o)>> ELSE <<>>)
               \o <<event(Kinds[1], o)>>
  IN FlattenSeq([i \in DOMAIN ops |-> of(ops[i])])

\* A block with one transaction, which executes ops.
Execute(ops, ok) ==
  /\ head < MaxBlock
  /\ ops # <<>> /\ Range(ops) \cap landed = {}
  /\ head' = head + 1
  /\ log' = log \o EventsOf(ops, head', head', ok)
  /\ landed' = landed \cup Range(ops)
  /\ UNCHANGED <<pool, lastBlock, aggregator, heard, handler, runs, handled, credited>>

-----------------------------------------------------------------------------
(* handlePastEvents *)

\* Called; the first time, the block number is asked for before anything else.
Begin(c) ==
  /\ HandlerAt(c, "idle") /\ runs < MaxRuns
  /\ runs' = runs + 1
  /\ SetHandler(c, [IdleHandler EXCEPT
       !.pc = IF lastBlock = 0 THEN "blockNumber" ELSE "query",
       !.from = lastBlock])
  /\ UNCHANGED <<log, head, landed, pool, lastBlock, aggregator, heard, handled, credited>>

FirstBlock == IF head - LookBack > 1 THEN head - LookBack ELSE 1

ReadBlockNumber(c) ==
  /\ HandlerAt(c, "blockNumber")
  /\ lastBlock' = FirstBlock
  /\ SetHandler(c, [handler[c] EXCEPT !.pc = "query", !.from = FirstBlock])
  /\ UNCHANGED <<log, head, landed, pool, aggregator, heard, runs, handled, credited>>

\* The kinds of events these operations cause; the other queries find nothing.
Queries == {1} \cup {k \in {2} : Deploys # {}}
               \cup {k \in {3} : Range(Aggregator) # {NoAggregator}}

Found(c, k) ==
  LET found(e) == e.kind = Kinds[k] /\ e.block >= handler[c].from
  IN FlattenSeq([i \in DOMAIN log |-> IF found(log[i]) THEN <<log[i]>> ELSE <<>>])

\* One query is answered; after the last the events are flattened.
AnswerQuery(c, k) ==
  LET got == [handler[c].got EXCEPT ![k] = Found(c, k)] IN
  /\ HandlerAt(c, "query") /\ k \notin handler[c].asked
  /\ SetHandler(c, IF handler[c].asked \cup {k} # Queries
                   THEN [handler[c] EXCEPT !.got = got, !.asked = @ \cup {k}]
                   ELSE [IdleHandler EXCEPT !.pc = "handle",
                                            !.todo = FlattenSeq(got)])
  /\ UNCHANGED <<log, head, landed, pool, lastBlock, aggregator, heard,
                 runs, handled, credited>>

-----------------------------------------------------------------------------
(* handleEvent *)

\* Seeded bug: the memory survives the transaction it is about.
RememberedAggregator(ev) == aggregator

\* getEventAggregator: the memory is reset when the transaction changes.
GetEventAggregator(ev) ==
  IF ev.tx # aggregator.tx THEN [address |-> NoAggregator, tx |-> ev.tx]
  ELSE aggregator

\* includedAddress updates when the text is longer than 42 characters, and an
\* address has 42: the reputation never changes here.
IncludedAddress(ev, address) ==
  credited' = IF address = NoAggregator THEN credited
              ELSE credited \cup {[tx |-> ev.tx, address |-> address]}

\* Seeded bug: only entries in a bundle are looked at.
SettleBundling(ev) ==
  pool' = [pool EXCEPT ![ev.op] =
             IF @ # "bundling" THEN @ ELSE IF ev.ok THEN "absent" ELSE "failed"]

\* removeUserOp, or 'failed' for an operation that reverted.
Settle(ev) ==
  pool' = [pool EXCEPT ![ev.op] =
             IF @ = "absent" \/ ev.ok THEN "absent" ELSE "failed"]

\* handleUserOperationEvent up to its first await that matters.
HandleUserOperationEvent(h) ==
  LET ev == Head(handler[h].todo) IN
  /\ HandlerAt(h, "handle")
  /\ handler[h].todo # <<>> /\ ~handler[h].written
  /\ ev.kind = "UserOperationEvent"
  /\ Settle(ev)
  /\ handled' = handled \cup {ev}
  /\ SetHandler(h, [handler[h] EXCEPT !.written = TRUE])
  /\ UNCHANGED <<log, head, landed, lastBlock, aggregator, heard, runs, credited>>

\* The rest of handleEvent; its last line moves the cursor.
FinishEvent(h) ==
  LET ev == Head(handler[h].todo) IN
  /\ HandlerAt(h, "handle") /\ handler[h].todo # <<>>
  /\ \/ /\ ev.kind = "UserOperationEvent" /\ handler[h].written
        /\ aggregator' = GetEventAggregator(ev)
        /\ IncludedAddress(ev, aggregator'.address)
     \/ /\ ev.kind = "AccountDeployed"
        /\ UNCHANGED <<aggregator, credited>>
     \/ /\ ev.kind = "SignatureAggregatorChanged"
        /\ aggregator' = [address |-> Aggregator[ev.op], tx |-> ev.tx]
        /\ UNCHANGED credited
  /\ lastBlock' = ev.block + 1
  /\ SetHandler(h, [handler[h] EXCEPT !.todo = Tail(@), !.written = FALSE])
  /\ UNCHANGED <<log, head, landed, pool, heard, runs, handled>>

Return(h) ==
  /\ HandlerAt(h, "handle") /\ handler[h].todo = <<>>
  /\ SetHandler(h, IdleHandler)
  /\ UNCHANGED <<log, head, landed, pool, lastBlock, aggregator, heard, runs,
                 handled, credited>>

\* external: ethers calls the listener for the next UserOperationEvent and does
\* not wait for the call before.
Listen(l) ==
  LET next == {i \in DOMAIN log : i > heard /\ log[i].kind = "UserOperationEvent"}
      first == CHOOSE i \in next : \A j \in next : i <= j
  IN
  /\ HandlerAt(l, "idle") /\ next # {}
  /\ heard' = first
  /\ SetHandler(l, [IdleHandler EXCEPT !.pc = "handle", !.todo = <<log[first]>>])
  /\ UNCHANGED <<log, head, landed, pool, lastBlock, aggregator, runs, handled, credited>>

-----------------------------------------------------------------------------

Init ==
  /\ log = <<>> /\ head = 1
  /\ landed = {}
  /\ pool \in [Op -> {"pending", "bundling"}]
  /\ lastBlock = 0
  /\ aggregator = [address |-> NoAggregator, tx |-> 0]
  /\ heard = 0
  /\ handler = [h \in Handlers |-> IdleHandler]
  /\ runs = 0
  /\ handled = {} /\ credited = {}

Bundles == UNION {SetToSeqs(S) : S \in SUBSET Op}

HandleNext(h) ==
  \/ HandleUserOperationEvent(h)
  \/ FinishEvent(h)
  \/ Return(h)

PastEvents(c) ==
  \/ ReadBlockNumber(c)
  \/ \E k \in Queries : AnswerQuery(c, k)
  \/ HandleNext(c)

Next ==
  \/ \E ops \in Bundles, ok \in BOOLEAN : Execute(ops, ok)
  \/ \E c \in Callers : Begin(c) \/ PastEvents(c)
  \/ \E l \in Listeners : Listen(l) \/ HandleNext(l)

\* Queries are answered and promises settled; ethers keeps the listener fed.
\* Nobody has to call handlePastEvents.
Fairness ==
  /\ \A c \in Callers : WF_vars(PastEvents(c))
  /\ WF_vars(\E l \in Listeners : Listen(l))
  /\ \A l \in Listeners : WF_vars(HandleNext(l))

Spec == Init /\ [][Next]_vars /\ Fairness

-----------------------------------------------------------------------------
(* Properties *)

UserOperationEvents == {e \in Range(log) : e.kind = "UserOperationEvent"}

\* The shape of the state; nobody works with a cursor that is not set.
TypeOK ==
  /\ pool \in [Op -> {"absent", "pending", "bundling", "failed"}]
  /\ lastBlock \in 0 .. MaxBlock + 1
  /\ \A c \in Callers : HandlerAt(c, "query") => lastBlock > 0
  /\ heard \in 0 .. Len(log)
  /\ handled \subseteq UserOperationEvents
  /\ \A h \in Handlers :
       /\ Range(handler[h].todo) \subseteq Range(log)
       /\ handler[h].asked \subseteq Queries

\* A UserOperationEvent credits an aggregator only if that one was announced
\* in the same transaction, whatever the other handler remembered meanwhile
\* (src/src/event/event-manager.ts:86).
AggregatorOfTransaction ==
  \A c \in credited : \E e \in Range(log) :
    e.tx = c.tx /\ Aggregator[e.op] = c.address

\* The two consumers together settle the operations as Settlement says: one
\* that is on chain leaves the mempool or is marked 'failed', no other one is
\* touched, and each is settled sooner or later, whichever events a jump of
\* the cursor hides from handlePastEvents (:75).
Settled == INSTANCE Settlement WITH
  Op <- Op, landed <- landed, pool <- pool,
  succeeded <- {e.op : e \in {f \in UserOperationEvents : f.ok}},
  settled <- {e.op : e \in handled}
ImplementsSettlement == Settled!Spec

\* handlePastEvents processes all new events since its last run (:16): when a
\* call returns, no event below the cursor is left that nobody handles.
PastEventsComplete ==
  [][\A c \in Callers : Return(c) =>
       \A e \in UserOperationEvents : e.block < lastBlock =>
         e \in handled \/ \E h \in Handlers : e \in Range(handler[h].todo)]_vars
=============================================================================
