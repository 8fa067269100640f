------------------------------ MODULE AuditTrail ------------------------------
(***************************************************************************)
(* What docs/logger/audit-logger-queue.md promises of the audit log, as an *)
(* abstract specification: events reach the writer one by one in the order *)
(* in which they were logged, none is dropped, and every event logged      *)
(* before the shutdown gets there.  AuditQueue implements it.              *)
(***************************************************************************)
EXTENDS Naturals, Sequences

CONSTANT Event

VARIABLES logged,    \* the events passed to enqueue, in call order
          handed,    \* the events passed to the writer
          owed       \* how many of them were logged before the shutdown

trailVars == <<logged, handed, owed>>

Log(e) ==
  /\ logged' = Append(logged, e)
  /\ owed' \in {owed, Len(logged')}
  /\ UNCHANGED handed

Hand ==
  /\ Len(handed) < Len(logged)
  /\ handed' = Append(handed, logged[Len(handed) + 1])
  /\ UNCHANGED <<logged, owed>>

Init == logged = <<>> /\ handed = <<>> /\ owed = 0
Next == (\E e \in Event : Log(e)) \/ Hand

Spec == /\ Init /\ [][Next]_trailVars
        /\ WF_trailVars(Hand /\ Len(handed) < owed)
===============================================================================
