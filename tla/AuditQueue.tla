------------------------------ MODULE AuditQueue ------------------------------
(***************************************************************************)
(* The bounded audit buffer of src/src/logger/audit/audit-queue.ts, run by *)
(* the event loop it relies on.                                            *)
(*                                                                         *)
(* enqueue and the worker are chains of continuations.  A continuation     *)
(* whose promise has settled waits in `ready`, the microtask queue; a chain *)
(* that awaits through several promises goes to the back of the queue once *)
(* per promise (its hops).  A new macrotask (a request that logs events,   *)
(* the flush timer, a write that completes, the shutdown) starts only when *)
(* `ready` is empty.  That, not the mutex, is what keeps the worker from   *)
(* taking a slot that was reserved and not yet written.                    *)
(*                                                                         *)
(* emptySlots (a Semaphore) and bufferLock (a Mutex) hand over in arrival  *)
(* order: slotQueue holds the calls waiting for a slot, lockQueue the      *)
(* holder of the lock first, then the chains waiting for it.  The audit    *)
(* logger never awaits enqueue, so a call is known by its event.           *)
(* Specification and initial state have names of their own, QueueSpec and  *)
(* QueueInit, for a module that extends this one and another component.    *)
(***************************************************************************)
EXTENDS Integers, Sequences, SequencesExt

CONSTANTS
  Event,            \* the events, each logged at most once
  NoEvent,          \* null in the buffer
  Worker,           \* the background worker's chain
  BufferCapacity,
  LockHops          \* external: promises awaited inside Mutex.acquire

ASSUME QueueAssumption ==
  /\ NoEvent \notin Event
  /\ Worker \notin Event \cup {NoEvent}
  /\ BufferCapacity \in Nat \ {0}
  /\ LockHops \in Nat \ {0}

VARIABLES
  eventBuffer, eventBufferHead, eventBufferTail,
  emptySlots, slotQueue, lockQueue,
  running,
  call,             \* where each enqueue call is
  worker, final,    \* where the worker is, and whether in its final drain
  ready,            \* the microtask queue
  turn,             \* whose macrotask is being run
  logged, handed, owed     \* the audit trail, as in AuditTrail

buffer == <<eventBuffer, eventBufferHead, eventBufferTail>>
trail == <<logged, handed, owed>>
queueVars == <<eventBuffer, eventBufferHead, eventBufferTail, emptySlots, slotQueue,
               lockQueue, running, call, worker, final, ready, turn,
               logged, handed, owed>>

Index == 0 .. BufferCapacity - 1

NextIndex(i) == (i + 1) % BufferCapacity

Chain == Event \cup {Worker}

------------------------------------------------------------------------------
(* The event loop *)

Wake(chain, hops) == <<[chain |-> chain, hops |-> hops]>>

\* The chain at the front of the microtask queue runs its next continuation.
Runs(chain) == ready # <<>> /\ Head(ready) = [chain |-> chain, hops |-> 1]

\* One more promise to go: back to the end of the queue.
Hop ==
  /\ ready # <<>>
  /\ Head(ready).hops > 1
  /\ ready' = Append(Tail(ready), [Head(ready) EXCEPT !.hops = @ - 1])
  /\ UNCHANGED <<buffer, emptySlots, slotQueue, lockQueue, running, call,
                 worker, final, turn, trail>>

\* Whoever heads the lock's queue is woken with the lock.
Granted(queue) == IF queue = <<>> THEN <<>> ELSE Wake(Head(queue), LockHops)

\* bufferLock.acquire() by a chain, after the continuations in `base`.
AcquireLock(chain, queue, base) ==
  /\ lockQueue' = Append(queue, chain)
  /\ ready' = base \o (IF queue = <<>> THEN Wake(chain, LockHops) ELSE <<>>)

------------------------------------------------------------------------------
(* enqueue *)

\* logUserOpLifecycleEvent: emptySlots.acquire(), in a macrotask of a request.
Log(e) ==
  /\ call[e] = "new"
  /\ ready = <<>> \/ turn = "requests"
  /\ turn' = "requests"
  /\ call' = [call EXCEPT ![e] = "slot"]
  /\ IF emptySlots > 0
     THEN /\ emptySlots' = emptySlots - 1
          /\ ready' = ready \o Wake(e, 1)
          /\ UNCHANGED slotQueue
     ELSE /\ slotQueue' = Append(slotQueue, e)
          /\ UNCHANGED <<emptySlots, ready>>
  /\ logged' = Append(logged, e)
  /\ owed' = IF running THEN Len(logged') ELSE owed
  /\ UNCHANGED <<buffer, lockQueue, running, worker, final, handed>>

\* The call has its slot and asks for the lock.
EnterLock(e) ==
  /\ Runs(e)
  /\ call[e] = "slot"
  /\ call' = [call EXCEPT ![e] = "lock"]
  /\ AcquireLock(e, lockQueue, Tail(ready))
  /\ UNCHANGED <<buffer, emptySlots, slotQueue, running, worker, final, turn,
                 trail>>

\* The call has the lock: it writes the buffer and releases the lock.
Store(e) ==
  /\ Runs(e)
  /\ call[e] = "lock"
  /\ call' = [call EXCEPT ![e] = "stored"]
  /\ eventBuffer' = [eventBuffer EXCEPT ![eventBufferTail] = e]
  /\ eventBufferTail' = NextIndex(eventBufferTail)
  /\ lockQueue' = Tail(lockQueue)
  /\ ready' = Tail(ready) \o Granted(Tail(lockQueue))
  /\ UNCHANGED <<eventBufferHead, emptySlots, slotQueue, running, worker, final,
                 turn, trail>>

------------------------------------------------------------------------------
(* The worker *)

\* Seeded bug: a free slot is enough to stop draining.
StopAtFreeSlot(slots, locks, base) ==
  IF slots = 0
  THEN worker' = "lock" /\ AcquireLock(Worker, locks, base)
  ELSE /\ worker' = "drained"
       /\ lockQueue' = locks
       /\ ready' = base \o Wake(Worker, 1)

\* The test of drain's loop, and the end of drain when it fails.
DrainTest(slots, locks, base) ==
  IF slots < BufferCapacity
  THEN worker' = "lock" /\ AcquireLock(Worker, locks, base)
  ELSE /\ worker' = "drained"
       /\ lockQueue' = locks
       /\ ready' = base \o Wake(Worker, 1)

\* emptySlots.release(1), which serves the first waiting call, and the loop again.
ReleaseSlot(locks, base) ==
  IF slotQueue = <<>>
  THEN /\ emptySlots' = emptySlots + 1
       /\ UNCHANGED slotQueue
       /\ DrainTest(emptySlots + 1, locks, base)
  ELSE /\ slotQueue' = Tail(slotQueue)
       /\ UNCHANGED emptySlots
       /\ DrainTest(emptySlots, locks, base \o Wake(Head(slotQueue), 1))

\* The worker has the lock: it empties the slot at the head, releases the lock
\* and calls the writer.  A null is not written and its slot is released.
TakeEvent ==
  LET event == eventBuffer[eventBufferHead]
      locks == Tail(lockQueue)
      base == Tail(ready) \o Granted(locks)
  IN
  /\ Runs(Worker)
  /\ worker = "lock"
  /\ eventBuffer' = [eventBuffer EXCEPT ![eventBufferHead] = NoEvent]
  /\ eventBufferHead' = NextIndex(eventBufferHead)
  /\ \/ /\ event # NoEvent
        /\ handed' = Append(handed, event)
        /\ worker' = "write"
        /\ lockQueue' = locks
        /\ ready' = base
        /\ UNCHANGED <<emptySlots, slotQueue>>
     \/ /\ event # NoEvent
        /\ handed' = Append(handed, event)
        /\ worker' = "written"
        /\ lockQueue' = locks
        /\ ready' = base \o Wake(Worker, 1)
        /\ UNCHANGED <<emptySlots, slotQueue>>
     \/ /\ event = NoEvent
        /\ UNCHANGED handed
        /\ ReleaseSlot(locks, base)
  /\ UNCHANGED <<eventBufferTail, running, call, final, turn, logged, owed>>

\* A writer that does real I/O settles in a macrotask of its own.
WriteSettled ==
  /\ worker = "write"
  /\ ready = <<>>
  /\ worker' = "written"
  /\ ready' = Wake(Worker, 1)
  /\ turn' = "worker"
  /\ UNCHANGED <<buffer, emptySlots, slotQueue, lockQueue, running, call, final,
                 trail>>

\* The write has settled; an error is logged and the event is gone.
Written ==
  /\ Runs(Worker)
  /\ worker = "written"
  /\ ReleaseSlot(lockQueue, Tail(ready))
  /\ UNCHANGED <<buffer, running, call, final, turn, trail>>

\* drain() has returned: sleep, or the final drain, or the end.
Drained ==
  /\ Runs(Worker)
  /\ worker = "drained"
  /\ IF ~running /\ ~final
     THEN final' = TRUE /\ DrainTest(emptySlots, lockQueue, Tail(ready))
     ELSE /\ worker' = IF final THEN "done" ELSE "sleep"
          /\ ready' = Tail(ready)
          /\ UNCHANGED <<final, lockQueue>>
  /\ UNCHANGED <<buffer, emptySlots, slotQueue, running, call, turn, trail>>

\* The flush timer.
Flush ==
  /\ worker = "sleep"
  /\ ready = <<>>
  /\ turn' = "worker"
  /\ final' = ~running
  /\ DrainTest(emptySlots, lockQueue, <<>>)
  /\ UNCHANGED <<buffer, emptySlots, slotQueue, running, call, trail>>

\* shutdown(): the caller waits for the worker to be done.
Shutdown ==
  /\ running
  /\ ready = <<>>
  /\ running' = FALSE
  /\ turn' = "requests"
  /\ UNCHANGED <<buffer, emptySlots, slotQueue, lockQueue, call, worker, final,
                 ready, trail>>

------------------------------------------------------------------------------
\* The worker starts with the queue: its first drain finds nothing.
QueueInit ==
  /\ eventBuffer = [i \in Index |-> NoEvent]
  /\ eventBufferHead = 0
  /\ eventBufferTail = 0
  /\ emptySlots = BufferCapacity
  /\ slotQueue = <<>>
  /\ lockQueue = <<>>
  /\ running = TRUE
  /\ call = [e \in Event |-> "new"]
  /\ worker = "drained"
  /\ final = FALSE
  /\ ready = Wake(Worker, 1)
  /\ turn = "worker"
  /\ logged = <<>>
  /\ handed = <<>>
  /\ owed = 0

Microtask ==
  \/ Hop
  \/ \E e \in Event : EnterLock(e) \/ Store(e)
  \/ TakeEvent
  \/ Written
  \/ Drained

QueueNext ==
  \/ Microtask
  \/ \E e \in Event : Log(e)
  \/ Flush
  \/ WriteSettled
  \/ Shutdown

\* Node runs every microtask before the next macrotask, the timer fires, and a
\* write settles.  Nobody has to log or to shut down.
QueueFairness ==
  WF_queueVars(Microtask) /\ WF_queueVars(Flush) /\ WF_queueVars(WriteSettled)
QueueSpec == QueueInit /\ [][QueueNext]_queueVars /\ QueueFairness

------------------------------------------------------------------------------
(* Properties *)

\* The variables have their types.
QueueTypeOK ==
  /\ eventBuffer \in [Index -> Event \cup {NoEvent}]
  /\ eventBufferHead \in Index
  /\ eventBufferTail \in Index
  /\ emptySlots \in 0 .. BufferCapacity
  /\ slotQueue \in Seq(Event)
  /\ lockQueue \in Seq(Chain)
  /\ running \in BOOLEAN
  /\ call \in [Event -> {"new", "slot", "lock", "stored"}]
  /\ worker \in {"lock", "write", "written", "drained", "sleep", "done"}
  /\ final \in BOOLEAN
  /\ ready \in Seq([chain : Chain, hops : 1 .. LockHops])
  /\ turn \in {"requests", "worker"}
  /\ logged \in Seq(Event)
  /\ handed \in Seq(Event)
  /\ owed \in 0 .. Len(logged)

\* The queue implements the audit trail: events are handed to the writer in the
\* order of the calls, and every event logged before the shutdown is handed.
Trail == INSTANCE AuditTrail WITH
           Event <- Event, logged <- logged, handed <- handed, owed <- owed
ImplementsTrail == Trail!Spec

\* Whatever is logged is written in the end, also while the node shuts down.
EveryEventWritten ==
  \A e \in Event : call[e] # "new" ~> \E i \in DOMAIN handed : handed[i] = e
===============================================================================
