---------------------------- MODULE MempoolProofs ----------------------------
(***************************************************************************)
(* Theorems about Mempool, for every value of its constants: any set of    *)
(* operations, addresses and calls in flight.                              *)
(***************************************************************************)
EXTENDS Mempool, Sums, TLAPS

(* What the helpers return. *)

LEMMA IdleType == Idle \in Task
BY DEF Idle, Task, PCs, Status

LEMMA CallType ==
  ASSUME NEW pc \in PCs, NEW op \in Op \cup {NoOp}
  PROVE  Call(pc, op) \in Task
BY IdleType DEF Call, Task

LEMMA AtType ==
  ASSUME task \in [Tasks -> Task], NEW t \in Tasks, NEW pc \in PCs, NEW k \in 0..8
  PROVE  At(t, pc, k) \in Task
BY DEF At, Task

LEMMA ReplacingType ==
  ASSUME task \in [Tasks -> Task], NEW t \in Tasks, NEW o \in Op
  PROVE  Replacing(t, o) \in Task
BY DEF Replacing, Task, PCs

LEMMA BecomeType ==
  ASSUME task \in [Tasks -> Task], NEW t \in Tasks, NEW r \in Task, Become(t, r)
  PROVE  task' \in [Tasks -> Task]
BY DEF Become

LEMMA EntriesType ==
  ASSUME NEW e \in [Address -> ReputationEntry], NEW a, NEW action
  PROVE  /\ SeenUpdate(e, a, action) \in [Address -> ReputationEntry]
         /\ CrashUpdate(e, a) \in [Address -> ReputationEntry]
         /\ NoEntries \in [Address -> ReputationEntry]
<1>1. SeenUpdate(e, a, action) \in [Address -> ReputationEntry]
  <2> DEFINE f == SeenUpdate(e, a, action)
  <2>1. \A x \in Address : e[x].opsSeen \in Nat /\ e[x].opsIncluded \in Nat
    BY DEF ReputationEntry
  <2>2. \A x \in Address : x # Lower[a] => f[x] = e[x]
    BY DEF SeenUpdate
  <2>3. Lower[a] \in Address => f[Lower[a]] \in ReputationEntry
    BY <2>1 DEF SeenUpdate, ReputationEntry
  <2>4. f = [x \in Address |-> f[x]]
    BY DEF SeenUpdate
  <2> QED
    BY <2>2, <2>3, <2>4
<1>2. CrashUpdate(e, a) \in [Address -> ReputationEntry]
  <2> DEFINE f == CrashUpdate(e, a)
  <2>1. \A x \in Address : e[x].opsSeen \in Nat
    BY DEF ReputationEntry
  <2>2. \A x \in Address : x # Lower[a] => f[x] = e[x]
    BY DEF CrashUpdate
  <2>3. Lower[a] \in Address => f[Lower[a]] \in ReputationEntry
    BY <2>1, ReputationAssumption DEF CrashUpdate, ReputationEntry
  <2>4. f = [x \in Address |-> f[x]]
    BY DEF CrashUpdate
  <2> QED
    BY <2>2, <2>3, <2>4
<1>3. NoEntries \in [Address -> ReputationEntry]
  BY DEF NoEntries, ZeroEntry, ReputationEntry
<1> QED
  BY <1>1, <1>2, <1>3

\* Whatever object a reference is left with, it is a pool (or a count object).
LEMMA NewPoolType ==
  ASSUME poolRef \in [Tasks -> Pool \cup {NoRef, Current}],
         NEW p \in Pool, NEW q \in Pool, NewPool(p, q)
  PROVE  /\ standardPool' \in Pool
         /\ poolRef' \in [Tasks -> Pool \cup {NoRef, Current}]
BY DEF NewPool, Leave

LEMMA NewCountsType ==
  ASSUME countRef \in [Tasks -> Counts \cup {NoRef, Current}],
         mempoolEntryCount \in Counts, NEW c \in Counts, NewCounts(c)
  PROVE  /\ mempoolEntryCount' \in Counts
         /\ countRef' \in [Tasks -> Counts \cup {NoRef, Current}]
BY DEF NewCounts, Leave

LEMMA PoolType ==
  ASSUME NEW pool \in Pool, NEW S, NEW op, NEW s \in Status
  PROVE  /\ Without(pool, S) \in Pool
         /\ Mark(pool, S) \in Pool
         /\ [pool EXCEPT ![op] = s] \in Pool
         /\ EmptyPool \in Pool
BY DEF Pool, Without, Mark, Status, EmptyPool

LEMMA CountsType ==
  ASSUME NEW counts \in Counts, NEW op, NEW S
  PROVE  /\ CountEntry(counts, op) \in Counts
         /\ UncountSender(counts, op) \in Counts
         /\ DropKeys(counts, S) \in Counts
         /\ ZeroCounts \in Counts
<1>1. CountEntry(counts, op) \in Counts
  BY DEF Counts, CountEntry
<1>2. UncountSender(counts, op) \in Counts
  <2>1. ASSUME NEW x \in Address
        PROVE  UncountSender(counts, op)[x] \in Nat
    <3>1. counts[x] \in Nat
      BY DEF Counts
    <3> QED
      BY <3>1 DEF UncountSender, Counts
  <2> QED
    BY <2>1 DEF Counts, UncountSender
<1>3. DropKeys(counts, S) \in Counts /\ ZeroCounts \in Counts
  BY DEF Counts, DropKeys, ZeroCounts
<1> QED
  BY <1>1, <1>2, <1>3

------------------------------------------------------------------------------
\* TypeOK is inductive: no step of any call leaves the shapes it lists.
LEMMA TypeStep == TypeOK /\ [Next]_vars => TypeOK'
<1> SUFFICES ASSUME TypeOK, [Next]_vars
             PROVE  TypeOK'
  OBVIOUS
<1> USE DEF TypeOK
<1>1. ASSUME NEW t \in Tasks, CheckPaymasterDeposit(t) PROVE TypeOK'
  <2>1. PICK op \in Op : Become(t, Call("readPool", op))
    BY <1>1 DEF CheckPaymasterDeposit
  <2>2. Call("readPool", op) \in Task
    BY CallType DEF PCs
  <2> QED
    BY <1>1, <2>1, <2>2, BecomeType DEF CheckPaymasterDeposit
<1>2. ASSUME NEW t \in Tasks, ReadPool(t) PROVE TypeOK'
  <2>1. task' \in [Tasks -> Task]
    <3>1. /\ At(t, "role", 1) \in Task
          /\ \A o \in Op : Replacing(t, o) \in Task
      BY AtType, ReplacingType DEF PCs
    <3> QED
      BY <1>2, <3>1, IdleType, BecomeType DEF ReadPool, FindBySenderNonce, Present
  <2>2. /\ poolRef' \in [Tasks -> Pool \cup {NoRef, Current}]
        /\ countRef' \in [Tasks -> Counts \cup {NoRef, Current}]
    BY <1>2 DEF ReadPool
  <2> QED
    BY <1>2, <2>1, <2>2 DEF ReadPool
<1>3. ASSUME NEW t \in Tasks, CheckRole(t) PROVE TypeOK'
  <2>1. task' \in [Tasks -> Task]
    <3>1. /\ task[t].step < 4 => At(t, "role", task[t].step + 1) \in Task
          /\ At(t, "roles", 0) \in Task
      <4>1. task[t].step < 4 => task[t].step + 1 \in 0..8
        BY DEF Task
      <4> QED
        BY <4>1, AtType DEF PCs
    <3>2. \/ Become(t, Idle)
          \/ task[t].step < 4 /\ Become(t, At(t, "role", task[t].step + 1))
          \/ Become(t, At(t, "roles", 0))
      BY <1>3 DEF CheckRole
    <3> QED
      BY <3>1, <3>2, IdleType, BecomeType
  <2>2. /\ poolRef' \in [Tasks -> Pool \cup {NoRef, Current}]
        /\ countRef' \in [Tasks -> Counts \cup {NoRef, Current}]
    BY <1>3 DEF CheckRole, DropRefs
  <2> QED
    BY <1>3, <2>1, <2>2 DEF CheckRole
<1>4. ASSUME NEW t \in Tasks, CheckMultipleRoles(t) PROVE TypeOK'
  <2>1. task' \in [Tasks -> Task]
    <3>1. At(t, "write", 0) \in Task
      BY AtType DEF PCs
    <3> QED
      BY <1>4, <3>1, IdleType, BecomeType DEF CheckMultipleRoles
  <2> QED
    BY <1>4, <2>1 DEF CheckMultipleRoles, DropRefs
<1>5. ASSUME NEW t \in Tasks, DoUpdateMempoolState(t) PROVE TypeOK'
  <2> DEFINE op == task[t].op
             old == task[t].old
  <2>1. task' \in [Tasks -> Task]
    <3>1. At(t, "seen", 1) \in Task /\ At(t, "seen", 5) \in Task
      BY AtType DEF PCs
    <3> QED
      BY <1>5, <3>1, BecomeType DEF DoUpdateMempoolState
  <2>2. "pending" \in Status
    BY DEF Status
  <2>3. CASE old # NoOp
    <3>1. /\ Without(standardPool, {old}) \in Pool
          /\ [Without(standardPool, {old}) EXCEPT ![op] = "pending"] \in Pool
      BY <2>2, PoolType
    <3>2. /\ NewPool([Without(standardPool, {old}) EXCEPT ![op] = "pending"],
                     Without(standardPool, {old}))
          /\ UNCHANGED <<mempoolEntryCount, countRef, reputationEntries>>
      BY <1>5, <2>3 DEF DoUpdateMempoolState
    <3> QED
      BY <2>1, <3>1, <3>2, NewPoolType
  <2>4. CASE old = NoOp
    <3>1. /\ [standardPool EXCEPT ![op] = "pending"] \in Pool
          /\ CountEntry(mempoolEntryCount, op) \in Counts
      BY <2>2, PoolType, CountsType
    <3>2. /\ NewPool([standardPool EXCEPT ![op] = "pending"], standardPool)
          /\ NewCounts(CountEntry(mempoolEntryCount, op))
          /\ UNCHANGED reputationEntries
      BY <1>5, <2>4 DEF DoUpdateMempoolState
    <3> QED
      BY <2>1, <3>1, <3>2, NewPoolType, NewCountsType
  <2> QED
    BY <2>3, <2>4
<1>6. ASSUME NEW t \in Tasks, UpdateSeenStatus(t) PROVE TypeOK'
  <2>1. task' \in [Tasks -> Task]
    <3>1. task[t].step < 8 => At(t, "seen", task[t].step + 1) \in Task
      <4>1. task[t].step < 8 => task[t].step + 1 \in 0..8
        BY DEF Task
      <4> QED
        BY <4>1, AtType DEF PCs
    <3>2. \/ Become(t, Idle)
          \/ task[t].step # 8 /\ Become(t, At(t, "seen", task[t].step + 1))
      BY <1>6 DEF UpdateSeenStatus
    <3>3. task[t].step \in 0..8
      BY DEF Task
    <3> QED
      BY <3>1, <3>2, <3>3, IdleType, BecomeType
  <2>2. reputationEntries' \in [Address -> ReputationEntry]
    BY <1>6, EntriesType DEF UpdateSeenStatus
  <2> QED
    BY <1>6, <2>1, <2>2 DEF UpdateSeenStatus
<1>7. ASSUME NEW t \in Tasks, FindEntryToRemove(t) PROVE TypeOK'
  <2>1. \A o \in Op : Call("remove", o) \in Task
    BY CallType DEF PCs
  <2> QED
    BY <1>7, <2>1, BecomeType
    DEF FindEntryToRemove, LookUp, Present, FindBySenderNonce
<1>8. ASSUME NEW t \in Tasks, RemoveUserOp(t) PROVE TypeOK'
  BY <1>8, IdleType, BecomeType, PoolType, CountsType
  DEF RemoveUserOp, MutatePool, MutateCounts, Status
<1>9. ASSUME NEW t \in Tasks, FindEntryToUpdate(t) PROVE TypeOK'
  <2>1. \A o \in Op, s \in {"pending", "failed"} :
          [Idle EXCEPT !.pc = "setStatus", !.op = o, !.status = s] \in Task
    BY IdleType DEF Task, PCs, Status
  <2> QED
    BY <1>9, <2>1, BecomeType
    DEF FindEntryToUpdate, LookUp, Present, FindBySenderNonce
<1>10. ASSUME NEW t \in Tasks, UpdateEntryStatus(t) PROVE TypeOK'
  <2>1. [standardPool EXCEPT ![task[t].op] = task[t].status] \in Pool
    BY PoolType DEF Task
  <2> QED
    BY <1>10, <2>1, IdleType, BecomeType, NewPoolType DEF UpdateEntryStatus
<1>11. ASSUME NEW t \in Tasks, FindPending(t) PROVE TypeOK'
  <2>1. \A S \in SUBSET Op : [Idle EXCEPT !.pc = "take", !.hashes = S] \in Task
    BY IdleType DEF Task, PCs
  <2>2. PICK S \in SUBSET Op : Become(t, [Idle EXCEPT !.pc = "take", !.hashes = S])
    BY <1>11 DEF FindPending, Pending
  <2> QED
    BY <1>11, <2>1, <2>2, BecomeType DEF FindPending
<1>12. ASSUME NEW t \in Tasks, MarkBundling(t) PROVE TypeOK'
  BY <1>12, IdleType, BecomeType, PoolType
  DEF MarkBundling, MutatePool, Status
<1>13. ASSUME NEW t \in Tasks, FindOpsToBan(t) PROVE TypeOK'
  <2>1. \A a \in Address, S \in SUBSET Op :
          [Idle EXCEPT !.pc = "banRemove", !.addr = a, !.hashes = S] \in Task
    BY IdleType DEF Task, PCs
  <2> QED
    BY <1>13, <2>1, BecomeType DEF FindOpsToBan, Present
<1>14. ASSUME NEW t \in Tasks, RemoveUserOpsForBannedAddr(t) PROVE TypeOK'
  <2>1. [Idle EXCEPT !.pc = "banMark", !.addr = task[t].addr] \in Task
    BY IdleType DEF Task, PCs
  <2> QED
    BY <1>14, <2>1, BecomeType, PoolType, CountsType
    DEF RemoveUserOpsForBannedAddr, MutatePool, MutateCounts, Status
<1>15. ASSUME NEW t \in Tasks, CrashedHandleOps(t) PROVE TypeOK'
  BY <1>15, IdleType, BecomeType, EntriesType DEF CrashedHandleOps
<1>16. CASE ClearMempool
  BY <1>16, PoolType, CountsType, NewPoolType, NewCountsType
  DEF ClearMempool, Status
<1>17. CASE ClearReputation
  BY <1>17, EntriesType DEF ClearReputation
<1>18. CASE UNCHANGED vars
  BY <1>18 DEF vars
<1> QED
  BY <1>1, <1>2, <1>3, <1>4, <1>5, <1>6, <1>7, <1>8, <1>9, <1>10, <1>11,
     <1>12, <1>13, <1>14, <1>15, <1>16, <1>17, <1>18
  DEF Next, Begin, Continue

\* Every reachable state has the shape TypeOK gives it.
THEOREM TypeCorrect == Spec => []TypeOK
<1>1. Init => TypeOK
  <2>1. /\ EmptyPool \in Pool
        /\ ZeroCounts \in Counts
        /\ NoEntries \in [Address -> ReputationEntry]
    BY DEF EmptyPool, Pool, ZeroCounts, Counts, NoEntries, ZeroEntry,
           ReputationEntry
  <2> QED
    BY <2>1, IdleType DEF Init, TypeOK
<1> QED
  BY <1>1, TypeStep, PTL DEF Spec

------------------------------------------------------------------------------
(***************************************************************************)
(* What a call in flight knows about what it captured.  The facts are about *)
(* constants of the operations, so nothing another call does undoes them.  *)
(***************************************************************************)
PaysMore(n, o) == /\ Outbids(PriorityFee[n], PriorityFee[o])
                  /\ Outbids(MaxFee[n], MaxFee[o])

\* The comparison of doubles means more: were the new fee no larger, its double
\* would be no larger either, and a tenth more is more.  When the new fee is
\* exact the old one is, since a larger double would not have been outbid.
LEMMA FloatOutbids ==
  ASSUME NEW n \in Fees, NEW o \in Fees, n \in Nat, o \in Nat, Number(n) >= Raised(o)
  PROVE  Outbids(n, o)
<1>1. /\ MaxExact \in Nat
      /\ Number(n) \in Nat /\ Number(o) \in Nat /\ Raised(o) \in Nat
  BY FloatAssumption
<1>2. o > 0 => Raised(o) > Number(o)
  BY FloatAssumption
<1>3. ASSUME o > 0 PROVE n > o
  <2>1. n <= o => Number(n) <= Number(o)
    BY FloatAssumption
  <2> QED
    BY <1>1, <1>2, <1>3, <2>1
<1>4. ASSUME n <= MaxExact PROVE 10 * n >= 11 * o
  <2>1. CASE o = 0
    BY <2>1
  <2>2. CASE o > 0
    <3>1. o <= MaxExact
      BY <1>1, <1>3, <1>4, <2>2
    <3>2. 10 * Raised(o) >= 11 * o /\ Number(n) = n
      BY <1>4, <3>1, FloatAssumption
    <3> QED
      BY <1>1, <3>2
  <2> QED
    BY <2>1, <2>2
<1> QED
  BY <1>3, <1>4 DEF Outbids

LEMMA FeesOutbid ==
  ASSUME NEW n \in Op, NEW o \in Op, FeesReplace(n, o)
  PROVE  PaysMore(n, o)
<1>1. /\ {PriorityFee[n], PriorityFee[o], MaxFee[n], MaxFee[o]} \subseteq Fees
      /\ PriorityFee[n] \in Nat /\ PriorityFee[o] \in Nat
      /\ MaxFee[n] \in Nat /\ MaxFee[o] \in Nat
  BY OpAssumption DEF Fees
<1>2. Number(PriorityFee[n]) >= Raised(PriorityFee[o]) /\ Number(MaxFee[n]) >= Raised(MaxFee[o])
  BY DEF FeesReplace
<1> QED
  BY <1>1, <1>2, FloatOutbids DEF PaysMore

Captured(r) ==
  /\ r.pc = "readPool" => r.op \in Op
  /\ r.pc \in {"readPool", "role", "roles"} => r.old = NoOp
  /\ r.pc = "write" /\ r.old # NoOp => SameSlot(r.old, r.op) /\ PaysMore(r.op, r.old)
  /\ r.pc = "banRemove" => \A o \in r.hashes : UsesEntity(o, r.addr)

CapturedOK == \A t \in Tasks : Captured(task[t])

\* Only the call that moves can disturb CapturedOK, and only by what it becomes.
LEMMA CapturedBecome ==
  ASSUME TypeOK, CapturedOK, NEW t \in Tasks, NEW r, Captured(r), Become(t, r)
  PROVE  CapturedOK'
BY DEF TypeOK, CapturedOK, Become, Captured

LEMMA CapturedIdle == Captured(Idle)
BY DEF Captured, Idle

LEMMA CapturedCall ==
  ASSUME NEW pc \in {"readPool", "remove"}, NEW op \in Op PROVE Captured(Call(pc, op))
BY DEF Captured, Call, Idle

LEMMA CapturedStep == TypeOK /\ CapturedOK /\ [Next]_vars => CapturedOK'
<1> SUFFICES ASSUME TypeOK, CapturedOK, [Next]_vars
             PROVE  CapturedOK'
  OBVIOUS
<1>1. ASSUME NEW t \in Tasks, CheckPaymasterDeposit(t) PROVE CapturedOK'
  BY <1>1, CapturedCall, CapturedBecome DEF CheckPaymasterDeposit
<1>2. ASSUME NEW t \in Tasks, ReadPool(t) PROVE CapturedOK'
  <2> DEFINE op == task[t].op
  <2>1. /\ task[t] \in Task /\ task[t].pc = "readPool" /\ task[t].old = NoOp
        /\ task[t].op \in Op
    BY <1>2 DEF TypeOK, CapturedOK, Captured, ReadPool
  <2>2. CASE Become(t, At(t, "role", 1))
    <3>1. Captured(At(t, "role", 1))
      BY <2>1 DEF Captured, At, Task
    <3> QED
      BY <2>2, <3>1, CapturedBecome
  <2>3. CASE Become(t, Idle)
    BY <2>3, CapturedIdle, CapturedBecome
  <2>4. ASSUME NEW old \in FindBySenderNonce(standardPool, op),
               FeesReplace(op, old), Become(t, Replacing(t, old))
        PROVE  CapturedOK'
    <3>1. SameSlot(old, op) /\ PaysMore(op, old)
      <4>1. op \in Op /\ old \in Op
        BY <2>1, <2>4 DEF FindBySenderNonce, Present
      <4> QED
        BY <2>4, <4>1, FeesOutbid DEF SameSlot, FindBySenderNonce
    <3>2. Captured(Replacing(t, old))
      BY <2>1, <3>1 DEF Captured, Replacing, Task
    <3> QED
      BY <2>4, <3>2, CapturedBecome
  <2> QED
    BY <1>2, <2>2, <2>3, <2>4 DEF ReadPool
<1>3. ASSUME NEW t \in Tasks, CheckRole(t) PROVE CapturedOK'
  <2>1. task[t] \in Task /\ task[t].pc = "role" /\ task[t].old = NoOp
    BY <1>3 DEF TypeOK, CapturedOK, Captured, CheckRole
  <2>2. \A k : Captured(At(t, "role", k)) /\ Captured(At(t, "roles", k))
    BY <2>1 DEF Captured, At, Task
  <2>3. \E k : \/ Become(t, Idle)
               \/ Become(t, At(t, "role", k))
               \/ Become(t, At(t, "roles", k))
    BY <1>3 DEF CheckRole
  <2> QED
    BY <2>2, <2>3, CapturedIdle, CapturedBecome
<1>4. ASSUME NEW t \in Tasks, CheckMultipleRoles(t) PROVE CapturedOK'
  <2>1. task[t] \in Task /\ task[t].pc = "roles" /\ task[t].old = NoOp
    BY <1>4 DEF TypeOK, CapturedOK, Captured, CheckMultipleRoles
  <2>2. Captured(At(t, "write", 0))
    BY <2>1 DEF Captured, At, Task
  <2> QED
    BY <1>4, <2>2, CapturedIdle, CapturedBecome DEF CheckMultipleRoles
<1>5. ASSUME NEW t \in Tasks, DoUpdateMempoolState(t) \/ UpdateSeenStatus(t)
      PROVE  CapturedOK'
  <2>1. \A k : Captured(At(t, "seen", k))
    BY DEF TypeOK, Captured, At, Task
  <2>2. \E k : Become(t, Idle) \/ Become(t, At(t, "seen", k))
    BY <1>5 DEF DoUpdateMempoolState, UpdateSeenStatus
  <2> QED
    BY <2>1, <2>2, CapturedIdle, CapturedBecome
<1>6. ASSUME NEW t \in Tasks,
             \/ RemoveUserOp(t) \/ UpdateEntryStatus(t)
             \/ MarkBundling(t) \/ CrashedHandleOps(t)
      PROVE  CapturedOK'
  BY <1>6, CapturedIdle, CapturedBecome
  DEF RemoveUserOp, UpdateEntryStatus, MarkBundling, CrashedHandleOps
<1>7. ASSUME NEW t \in Tasks, FindEntryToRemove(t) PROVE CapturedOK'
  <2>1. PICK o \in Op : Become(t, Call("remove", o))
    BY <1>7 DEF FindEntryToRemove, LookUp, Present, FindBySenderNonce
  <2> QED
    BY <2>1, CapturedCall, CapturedBecome
<1>8. ASSUME NEW t \in Tasks, FindEntryToUpdate(t) PROVE CapturedOK'
  <2>1. \A o, s : Captured([Idle EXCEPT !.pc = "setStatus", !.op = o, !.status = s])
    BY DEF Captured, Idle
  <2> QED
    BY <1>8, <2>1, CapturedBecome DEF FindEntryToUpdate
<1>9. ASSUME NEW t \in Tasks, FindPending(t) PROVE CapturedOK'
  <2>1. \A S : Captured([Idle EXCEPT !.pc = "take", !.hashes = S])
    BY DEF Captured, Idle
  <2>2. \E S : Become(t, [Idle EXCEPT !.pc = "take", !.hashes = S])
    BY <1>9 DEF FindPending
  <2> QED
    BY <2>1, <2>2, CapturedBecome
<1>10. ASSUME NEW t \in Tasks, FindOpsToBan(t) PROVE CapturedOK'
  <2>1. \A a : Captured([Idle EXCEPT !.pc = "banRemove", !.addr = a,
                           !.hashes = {o \in Present(standardPool) :
                                         UsesEntity(o, a)}])
    BY DEF Captured, Idle
  <2> QED
    BY <1>10, <2>1, CapturedBecome DEF FindOpsToBan
<1>11. ASSUME NEW t \in Tasks, RemoveUserOpsForBannedAddr(t) PROVE CapturedOK'
  <2>1. Captured([Idle EXCEPT !.pc = "banMark", !.addr = task[t].addr])
    BY DEF Captured, Idle
  <2> QED
    BY <1>11, <2>1, CapturedBecome DEF RemoveUserOpsForBannedAddr
<1>12. CASE ClearMempool \/ ClearReputation \/ UNCHANGED vars
  BY <1>12 DEF ClearMempool, ClearReputation, vars, CapturedOK
<1> QED
  BY <1>1, <1>2, <1>3, <1>4, <1>5, <1>6, <1>7, <1>8, <1>9, <1>10, <1>11, <1>12
  DEF Next, Begin, Continue

\* Every call acts on what it captured: CapturedOK holds throughout.
THEOREM CapturedCorrect == Spec => []CapturedOK
<1>1. Init => CapturedOK
  BY CapturedIdle DEF Init, CapturedOK
<1> QED
  BY <1>1, CapturedStep, TypeCorrect, PTL DEF Spec

------------------------------------------------------------------------------
(* How entries move *)

\* A step takes an entry out only for a reason, and when it puts one in as
\* well, that is the write of an addUserOp that captured the one it takes out.
LEMMA PoolMoves ==
  ASSUME TypeOK, CapturedOK, [Next]_vars
  PROVE  /\ \A o \in Op : Leaves(o) => LeavesForAReason(o)
         /\ \A o, n \in Op : Leaves(o) /\ Enters(n) =>
              \E t \in Tasks : /\ task[t].pc = "write"
                               /\ task[t].old = o
                               /\ task[t].op = n
<1> DEFINE Moves == /\ \A o \in Op : Leaves(o) => LeavesForAReason(o)
                    /\ \A o, n \in Op : Leaves(o) /\ Enters(n) =>
                         \E t \in Tasks : /\ task[t].pc = "write"
                                          /\ task[t].old = o
                                          /\ task[t].op = n
<1>0. standardPool \in [Op -> Status \cup {"absent"}]
  BY DEF TypeOK, Pool
<1>1. CASE UNCHANGED standardPool
  BY <1>1 DEF Leaves, Enters
<1>2. ASSUME NEW t \in Tasks, DoUpdateMempoolState(t) PROVE Moves
  <2> DEFINE op == task[t].op
             old == task[t].old
  <2>1. CASE old # NoOp
    <3>1. standardPool' = [Without(standardPool, {old}) EXCEPT ![op] = "pending"]
      BY <1>2, <2>1 DEF DoUpdateMempoolState, NewPool
    <3>2. \A o \in Op : Leaves(o) => o = old
      BY <1>0, <3>1 DEF Leaves, Without
    <3>3. \A o \in Op : Enters(o) => o = op
      BY <1>0, <3>1 DEF Enters, Without
    <3>4. task[t].pc = "write"
      BY <1>2 DEF DoUpdateMempoolState
    <3> QED
      BY <3>2, <3>3, <3>4 DEF LeavesForAReason
  <2>2. CASE old = NoOp
    <3>1. standardPool' = [standardPool EXCEPT ![op] = "pending"]
      BY <1>2, <2>2, OpAssumption DEF DoUpdateMempoolState, NewPool
    <3>2. \A o \in Op : ~Leaves(o)
      BY <1>0, <3>1 DEF Leaves
    <3> QED
      BY <3>2
  <2> QED
    BY <2>1, <2>2
<1>3. ASSUME NEW t \in Tasks, RemoveUserOp(t) PROVE Moves
  <2>1. standardPool' = Without(standardPool, {task[t].op}) /\ task[t].pc = "remove"
    BY <1>3 DEF RemoveUserOp, MutatePool
  <2>2. \A o \in Op : (Leaves(o) => o = task[t].op) /\ ~Enters(o)
    BY <1>0, <2>1 DEF Leaves, Enters, Without
  <2> QED
    BY <2>1, <2>2 DEF LeavesForAReason
<1>4. ASSUME NEW t \in Tasks, RemoveUserOpsForBannedAddr(t) PROVE Moves
  <2>1. /\ standardPool' = Without(standardPool, task[t].hashes)
        /\ task[t].pc = "banRemove"
    BY <1>4 DEF RemoveUserOpsForBannedAddr, MutatePool
  <2>2. \A o \in Op : (Leaves(o) => o \in task[t].hashes) /\ ~Enters(o)
    BY <1>0, <2>1 DEF Leaves, Enters, Without
  <2>3. \A o \in task[t].hashes : UsesEntity(o, task[t].addr)
    BY <2>1 DEF CapturedOK, Captured
  <2> QED
    BY <2>1, <2>2, <2>3 DEF LeavesForAReason
<1>5. ASSUME NEW t \in Tasks, UpdateEntryStatus(t) PROVE Moves
  <2>1. /\ standardPool' = [standardPool EXCEPT ![task[t].op] = task[t].status]
        /\ task[t].status \in Status
    BY <1>5 DEF UpdateEntryStatus, NewPool, TypeOK, Task
  <2>2. \A o \in Op : ~Leaves(o)
    BY <1>0, <2>1 DEF Leaves, Status
  <2> QED
    BY <2>2
<1>6. ASSUME NEW t \in Tasks, MarkBundling(t) PROVE Moves
  <2>1. \E S : standardPool' = Mark(standardPool, S)
    BY <1>6 DEF MarkBundling, MutatePool
  <2>2. \A o \in Op : ~Leaves(o)
    BY <1>0, <2>1 DEF Leaves, Mark
  <2> QED
    BY <2>2
<1>7. CASE ClearMempool
  <2>1. standardPool' = EmptyPool /\ mempoolEntryCount' = ZeroCounts
    BY <1>7 DEF ClearMempool, NewPool, NewCounts
  <2>2. \A o \in Op : ~Enters(o)
    BY <2>1 DEF Enters, EmptyPool
  <2> QED
    BY <2>1, <2>2 DEF LeavesForAReason
<1>8. ASSUME NEW t \in Tasks, Begin(t) PROVE UNCHANGED standardPool
  BY <1>8 DEF Begin, CheckPaymasterDeposit, FindEntryToRemove,
              FindEntryToUpdate, FindPending, FindOpsToBan
<1>9. ASSUME NEW t \in Tasks,
             \/ ReadPool(t) \/ CheckRole(t) \/ CheckMultipleRoles(t)
             \/ UpdateSeenStatus(t) \/ CrashedHandleOps(t)
      PROVE  UNCHANGED standardPool
  BY <1>9 DEF ReadPool, CheckRole, CheckMultipleRoles, UpdateSeenStatus,
              CrashedHandleOps
<1>10. CASE ClearReputation \/ UNCHANGED vars
  BY <1>1, <1>10 DEF ClearReputation, vars
<1> QED
  BY <1>1, <1>2, <1>3, <1>4, <1>5, <1>6, <1>7, <1>8, <1>9, <1>10
  DEF Next, Continue

\* No call ever loses an entry another call added: the theorem behind the
\* property of the same name, for any number of calls in flight.
THEOREM NothingLost == Spec => NoLostEntry
<1>1. TypeOK /\ CapturedOK /\ [Next]_vars
        => [\A o \in Op : Leaves(o) => LeavesForAReason(o)]_vars
  BY PoolMoves
<1> QED
  BY <1>1, TypeCorrect, CapturedCorrect, PTL DEF Spec, NoLostEntry

\* A replacement pays more, by a tenth while the fees are exact, whatever races
\* for the slot.
THEOREM ReplacementRaisesFees == Spec => ReplacementPaysMore
<1> DEFINE Replaces(o, n) ==
      Leaves(o) /\ Enters(n) =>
         /\ SameSlot(o, n)
         /\ Outbids(PriorityFee[n], PriorityFee[o])
         /\ Outbids(MaxFee[n], MaxFee[o])
<1>1. TypeOK /\ CapturedOK /\ [Next]_vars
        => [\A o, n \in Op : Replaces(o, n)]_vars
  BY PoolMoves, OpAssumption DEF CapturedOK, Captured, PaysMore
<1> QED
  BY <1>1, TypeCorrect, CapturedCorrect, PTL DEF Spec, ReplacementPaysMore

------------------------------------------------------------------------------
(***************************************************************************)
(* One call at a time.  With a single task the look-up of addUserOp is     *)
(* still true when it writes, and the pool keeps one entry per sender and  *)
(* nonce.  SlotFree says what the call in flight knows of its slot; with   *)
(* two tasks it is not invariant, and neither is the conclusion: README.md, *)
(* section 4, has the instance.                                            *)
(***************************************************************************)
Alone == \E t : Tasks = {t}

SlotHolds(pool, op, S) == \A o \in Present(pool) : SameSlot(o, op) => o \in S

SlotFree(r, pool) ==
  /\ \/ r.pc \in {"role", "roles"}
     \/ r.pc = "write" /\ r.old = NoOp
     => SlotHolds(pool, r.op, {})
  /\ r.pc = "write" => SlotHolds(pool, r.op, {r.old})
  /\ r.pc = "setStatus" => SlotHolds(pool, r.op, {r.op})

SlotInv == /\ OneEntryPerSenderNonce
           /\ \A t \in Tasks : SlotFree(task[t], standardPool)

LEMMA SlotIdle == \A pool : SlotFree(Idle, pool)
BY DEF SlotFree, Idle

\* An entry may be written where its slot is free, or holds only what goes.
LEMMA SlotWrite ==
  ASSUME TypeOK, OneEntryPerSenderNonce, NEW op \in Op, NEW S, NEW s \in Status,
         SlotHolds(standardPool, op, S \cup {op}),
         standardPool' = [Without(standardPool, S) EXCEPT ![op] = s]
  PROVE  OneEntryPerSenderNonce'
<1>1. standardPool \in [Op -> Status \cup {"absent"}]
  BY DEF TypeOK, Pool
<1>2. \A o \in Present(standardPool') : o = op \/ (o \in Present(standardPool) /\ o \notin S)
  BY <1>1 DEF Present, Without
<1>3. \A o \in Present(standardPool') : SameSlot(o, op) => o = op
  BY <1>2 DEF SlotHolds
<1>4. \A o, p \in Op : SameSlot(o, p) => SameSlot(p, o)
  BY DEF SameSlot
<1>5. Present(standardPool') \subseteq Op
  BY DEF Present
<1>6. ASSUME NEW o \in Present(standardPool'), NEW p \in Present(standardPool'),
             SameSlot(o, p)
      PROVE  o = p
  <2>1. CASE o = op \/ p = op
    BY <1>3, <1>4, <1>5, <1>6, <2>1
  <2>2. CASE o # op /\ p # op
    BY <1>2, <1>6, <2>2 DEF OneEntryPerSenderNonce
  <2> QED
    BY <2>1, <2>2
<1> QED
  BY <1>6 DEF OneEntryPerSenderNonce

\* Taking entries out keeps slots free and unique.
LEMMA SlotShrink ==
  ASSUME SlotInv, Present(standardPool') \subseteq Present(standardPool)
  PROVE  /\ OneEntryPerSenderNonce'
         /\ \A t \in Tasks : SlotFree(task[t], standardPool')
BY DEF SlotInv, OneEntryPerSenderNonce, SlotFree, SlotHolds

LEMMA SlotStep ==
  ASSUME Alone, TypeOK, CapturedOK, SlotInv, [Next]_vars
  PROVE  SlotInv'
<1>0. standardPool \in [Op -> Status \cup {"absent"}]
  BY DEF TypeOK, Pool
\* The only call becomes r; the others are none.
<1>1. ASSUME NEW t \in Tasks, NEW r, Become(t, r),
             OneEntryPerSenderNonce', SlotFree(r, standardPool')
      PROVE  SlotInv'
  BY <1>1 DEF SlotInv, Alone, Become, TypeOK
<1>2. ASSUME NEW t \in Tasks, CheckPaymasterDeposit(t) PROVE SlotInv'
  <2>1. \A op : SlotFree(Call("readPool", op), standardPool')
    BY DEF SlotFree, Call, Idle
  <2> QED
    BY <1>1, <1>2, <2>1 DEF CheckPaymasterDeposit, SlotInv, OneEntryPerSenderNonce
<1>3. ASSUME NEW t \in Tasks, ReadPool(t) PROVE SlotInv'
  <2> DEFINE op == task[t].op
             matches == FindBySenderNonce(standardPool, op)
  <2>1. /\ task[t] \in Task /\ task[t].old = NoOp
        /\ standardPool' = standardPool /\ OneEntryPerSenderNonce'
    BY <1>3 DEF TypeOK, CapturedOK, Captured, ReadPool, SlotInv,
                OneEntryPerSenderNonce
  <2>2. CASE matches = {} /\ Become(t, At(t, "role", 1))
    <3>1. SlotHolds(standardPool, op, {})
      BY <2>2 DEF SlotHolds, FindBySenderNonce, SameSlot
    <3>2. /\ At(t, "role", 1).pc = "role"
          /\ At(t, "role", 1).op = op
      BY <2>1 DEF At, Task
    <3> QED
      BY <1>1, <2>1, <2>2, <3>1, <3>2 DEF SlotFree
  <2>3. ASSUME NEW old \in matches, Become(t, Replacing(t, old))
        PROVE  SlotInv'
    <3>1. SlotHolds(standardPool, op, {old})
      BY <2>1, <2>3 DEF SlotHolds, FindBySenderNonce, SameSlot, SlotInv,
                        OneEntryPerSenderNonce
    <3>2. /\ Replacing(t, old).pc = "write"
          /\ Replacing(t, old).op = op
          /\ Replacing(t, old).old = old
      BY <2>1 DEF Replacing, Task
    <3>3. old # NoOp
      BY <2>3, OpAssumption DEF FindBySenderNonce, Present
    <3> QED
      BY <1>1, <2>1, <2>3, <3>1, <3>2, <3>3 DEF SlotFree
  <2>4. CASE Become(t, Idle)
    BY <1>1, <2>1, <2>4, SlotIdle
  <2> QED
    BY <1>3, <2>2, <2>3, <2>4 DEF ReadPool
<1>4. ASSUME NEW t \in Tasks, CheckRole(t) \/ CheckMultipleRoles(t) PROVE SlotInv'
  <2>1. /\ task[t] \in Task /\ task[t].old = NoOp
        /\ task[t].pc \in {"role", "roles"}
        /\ standardPool' = standardPool /\ OneEntryPerSenderNonce'
    BY <1>4 DEF TypeOK, CapturedOK, Captured, CheckRole, CheckMultipleRoles,
                SlotInv, OneEntryPerSenderNonce
  <2>2. SlotHolds(standardPool, task[t].op, {})
    BY <2>1 DEF SlotInv, SlotFree
  <2>3. \/ Become(t, Idle)
        \/ \E p, k : /\ p \in {"role", "roles", "write"}
                    /\ Become(t, At(t, p, k))
    BY <1>4 DEF CheckRole, CheckMultipleRoles
  <2>4. \A p, k : /\ At(t, p, k).pc = p
                  /\ At(t, p, k).op = task[t].op
                  /\ At(t, p, k).old = NoOp
    BY <2>1 DEF At, Task
  <2>5. \A p, k : p \in {"role", "roles", "write"} => SlotFree(At(t, p, k), standardPool')
    BY <2>1, <2>2, <2>4 DEF SlotFree, SlotHolds
  <2> QED
    BY <1>1, <2>1, <2>3, <2>5, SlotIdle
<1>5. ASSUME NEW t \in Tasks, DoUpdateMempoolState(t) PROVE SlotInv'
  <2> DEFINE op == task[t].op
             old == task[t].old
  <2>1. task[t] \in Task /\ task[t].pc = "write" /\ "pending" \in Status
    BY <1>5 DEF TypeOK, DoUpdateMempoolState, Status
  <2>2. SlotHolds(standardPool, op, {old})
    BY <2>1 DEF SlotInv, SlotFree
  <2>3. standardPool' = [Without(standardPool, {old}) EXCEPT ![op] = "pending"]
    <3>1. old = NoOp => Without(standardPool, {old}) = standardPool
      BY <1>0, OpAssumption DEF Without
    <3> QED
      BY <1>5, <3>1 DEF DoUpdateMempoolState, NewPool
  <2>4. OneEntryPerSenderNonce'
    <3>1. CASE op \in Op
      BY <2>1, <2>2, <2>3, <3>1, SlotWrite DEF SlotInv, SlotHolds
    <3>2. CASE op \notin Op
      <4>1. Present(standardPool') \subseteq Present(standardPool)
        BY <1>0, <2>3, <3>2 DEF Present, Without
      <4> QED
        BY <4>1, SlotShrink
    <3> QED
      BY <3>1, <3>2
  <2>5. \A k : SlotFree(At(t, "seen", k), standardPool')
    BY <2>1 DEF SlotFree, At, Task
  <2>6. \E k : Become(t, At(t, "seen", k))
    BY <1>5 DEF DoUpdateMempoolState
  <2> QED
    BY <1>1, <2>4, <2>5, <2>6
<1>6. ASSUME NEW t \in Tasks, UpdateSeenStatus(t) PROVE SlotInv'
  <2>1. task[t] \in Task /\ standardPool' = standardPool /\ OneEntryPerSenderNonce'
    BY <1>6 DEF TypeOK, UpdateSeenStatus, SlotInv, OneEntryPerSenderNonce
  <2>2. \A k : SlotFree(At(t, "seen", k), standardPool')
    BY <2>1 DEF SlotFree, At, Task
  <2>3. \E k : Become(t, Idle) \/ Become(t, At(t, "seen", k))
    BY <1>6 DEF UpdateSeenStatus
  <2> QED
    BY <1>1, <2>1, <2>2, <2>3, SlotIdle
<1>7. ASSUME NEW t \in Tasks,
             RemoveUserOp(t) \/ RemoveUserOpsForBannedAddr(t) \/ MarkBundling(t)
      PROVE  SlotInv'
  <2>1. Present(standardPool') \subseteq Present(standardPool)
    <3>1. CASE MarkBundling(t)
      <4>1. PICK S \in SUBSET Present(standardPool) :
              standardPool' = Mark(standardPool, S)
        BY <3>1 DEF MarkBundling, MutatePool
      <4> QED
        BY <4>1 DEF Present, Mark
    <3>2. CASE RemoveUserOp(t) \/ RemoveUserOpsForBannedAddr(t)
      BY <3>2 DEF RemoveUserOp, RemoveUserOpsForBannedAddr, MutatePool,
                  Present, Without
    <3> QED
      BY <1>7, <3>1, <3>2
  <2>2. SlotFree([Idle EXCEPT !.pc = "banMark", !.addr = task[t].addr], standardPool')
    BY DEF SlotFree, Idle
  <2>3. \/ Become(t, Idle)
        \/ Become(t, [Idle EXCEPT !.pc = "banMark", !.addr = task[t].addr])
    BY <1>7 DEF RemoveUserOp, RemoveUserOpsForBannedAddr, MarkBundling
  <2> QED
    BY <1>1, <2>1, <2>2, <2>3, SlotIdle, SlotShrink
<1>8. ASSUME NEW t \in Tasks, UpdateEntryStatus(t) PROVE SlotInv'
  <2>1. /\ task[t] \in Task /\ task[t].pc = "setStatus"
        /\ standardPool' = [standardPool EXCEPT ![task[t].op] = task[t].status]
        /\ Become(t, Idle)
    BY <1>8 DEF TypeOK, UpdateEntryStatus, NewPool
  <2>2. OneEntryPerSenderNonce'
    <3>1. CASE task[t].op \in Op
      <4>1. Without(standardPool, {}) = standardPool
        BY <1>0 DEF Without
      <4>2. SlotHolds(standardPool, task[t].op, {} \cup {task[t].op})
        BY <2>1 DEF SlotInv, SlotFree
      <4>3. task[t].status \in Status
        BY <2>1 DEF Task
      <4>4. standardPool' =
              [Without(standardPool, {}) EXCEPT ![task[t].op] = task[t].status]
        BY <2>1, <4>1
      <4> QED
        BY <3>1, <4>2, <4>3, <4>4, SlotWrite DEF SlotInv
    <3>2. CASE task[t].op \notin Op
      BY <1>0, <2>1, <3>2 DEF SlotInv, OneEntryPerSenderNonce, Present
    <3> QED
      BY <3>1, <3>2
  <2> QED
    BY <1>1, <2>1, <2>2, SlotIdle
<1>9. ASSUME NEW t \in Tasks, FindEntryToUpdate(t) PROVE SlotInv'
  <2>1. PICK o \in LookUp(standardPool), s \in {"pending", "failed"} :
          Become(t, [Idle EXCEPT !.pc = "setStatus", !.op = o, !.status = s])
    BY <1>9 DEF FindEntryToUpdate
  <2>2. o \in Present(standardPool)
    BY <2>1 DEF LookUp, FindBySenderNonce
  <2>3. standardPool' = standardPool /\ OneEntryPerSenderNonce'
    BY <1>9 DEF FindEntryToUpdate, SlotInv, OneEntryPerSenderNonce
  <2>4. SlotHolds(standardPool, o, {o})
    BY <2>2 DEF SlotHolds, SlotInv, OneEntryPerSenderNonce
  <2>5. SlotFree([Idle EXCEPT !.pc = "setStatus", !.op = o, !.status = s],
                 standardPool')
    BY <2>3, <2>4 DEF SlotFree, Idle
  <2> QED
    BY <1>1, <2>1, <2>3, <2>5
<1>10. ASSUME NEW t \in Tasks,
              \/ FindEntryToRemove(t) \/ FindPending(t)
              \/ FindOpsToBan(t) \/ CrashedHandleOps(t)
       PROVE  SlotInv'
  <2>1. standardPool' = standardPool /\ OneEntryPerSenderNonce'
    BY <1>10 DEF FindEntryToRemove, FindPending, FindOpsToBan, CrashedHandleOps,
                 SlotInv, OneEntryPerSenderNonce
  <2>2. /\ \A o : SlotFree(Call("remove", o), standardPool')
        /\ \A S : SlotFree([Idle EXCEPT !.pc = "take", !.hashes = S], standardPool')
        /\ \A a, S : SlotFree([Idle EXCEPT !.pc = "banRemove", !.addr = a,
                                           !.hashes = S], standardPool')
    BY DEF SlotFree, Call, Idle
  <2>3. \/ Become(t, Idle)
        \/ \E o : Become(t, Call("remove", o))
        \/ \E S : Become(t, [Idle EXCEPT !.pc = "take", !.hashes = S])
        \/ \E a, S : Become(t, [Idle EXCEPT !.pc = "banRemove", !.addr = a,
                                            !.hashes = S])
    BY <1>10 DEF FindEntryToRemove, FindPending, FindOpsToBan, CrashedHandleOps
  <2> QED
    BY <1>1, <2>1, <2>2, <2>3, SlotIdle
<1>11. CASE ClearMempool
  <2>1. Present(standardPool') \subseteq Present(standardPool) /\ task' = task
    BY <1>11 DEF ClearMempool, NewPool, EmptyPool, Present
  <2> QED
    BY <2>1, SlotShrink DEF SlotInv
<1>12. CASE ClearReputation \/ UNCHANGED vars
  BY <1>12 DEF ClearReputation, vars, SlotInv, OneEntryPerSenderNonce
<1> QED
  BY <1>2, <1>3, <1>4, <1>5, <1>6, <1>7, <1>8, <1>9, <1>10, <1>11, <1>12
  DEF Next, Begin, Continue

\* When calls do not overlap, addUserOp replaces and never doubles: one entry
\* per sender and nonce, with any operations, bans, removals and clears.
THEOREM OneEntryWhenAlone ==
  ASSUME Alone
  PROVE  Spec => []OneEntryPerSenderNonce
<1>1. Init => SlotInv
  BY SlotIdle DEF Init, SlotInv, OneEntryPerSenderNonce, Present, EmptyPool
<1>2. TypeOK /\ CapturedOK /\ SlotInv /\ [Next]_vars => SlotInv'
  BY SlotStep
<1>3. SlotInv => OneEntryPerSenderNonce
  BY DEF SlotInv
<1> QED
  BY <1>1, <1>2, <1>3, TypeCorrect, CapturedCorrect, PTL DEF Spec
------------------------------------------------------------------------------
(***************************************************************************)
(* One call at a time, and no clears.  What a call looked up is then still *)
(* in the pool when it acts on it (FoundInv).  Without bans, each step     *)
(* leaves the pool alone or adds, exchanges or removes one entry, with the *)
(* counts it should (PoolStep), which the theorems about counts and the    *)
(* cap rest on.                                                            *)
(***************************************************************************)
Sequential == Alone /\ "ban" \notin Calls /\ "clear" \notin Calls

FoundOK(r, pool) ==
  /\ r.pc \in {"readPool", "role", "roles", "write", "seen"} => r.op \in Op
  /\ r.pc = "write" => r.old = NoOp \/ r.old \in Present(pool)
  /\ r.pc \in {"remove", "setStatus"} => r.op \in Present(pool)

FoundInv == \A t \in Tasks : FoundOK(task[t], standardPool)

\* No call of the bundle processor is under way that bans.
NoBan == \A t \in Tasks : task[t].pc \notin {"banRemove", "banMark"}

Unmoved == /\ Present(standardPool') = Present(standardPool)
           /\ mempoolEntryCount' = mempoolEntryCount
Added(op) ==
  /\ op \in Op
  /\ op \notin Present(standardPool)
  /\ Present(standardPool') = Present(standardPool) \cup {op}
  /\ mempoolEntryCount' = CountEntry(mempoolEntryCount, op)
Exchanged(old, op) ==
  /\ old \in Present(standardPool)
  /\ op \in Op
  /\ SameSlot(old, op)
  /\ op = old \/ op \notin Present(standardPool)
  /\ Present(standardPool') = (Present(standardPool) \ {old}) \cup {op}
  /\ mempoolEntryCount' = mempoolEntryCount
Removed(op) ==
  /\ op \in Present(standardPool)
  /\ Present(standardPool') = Present(standardPool) \ {op}
  /\ mempoolEntryCount' = UncountSender(mempoolEntryCount, op)

PoolStep ==
  \/ Unmoved
  \/ \E t \in Tasks :
       /\ task[t].pc = "write"
       /\ \/ task[t].old = NoOp /\ Added(task[t].op)
          \/ Exchanged(task[t].old, task[t].op)
  \/ \E t \in Tasks : Removed(task[t].op)

LEMMA FoundIdle == \A pool : FoundOK(Idle, pool)
BY DEF FoundOK, Idle

\* What was found is still there, bans included: a ban is a call of its own.
LEMMA FoundStep ==
  ASSUME Alone, "clear" \notin Calls, TypeOK, CapturedOK, SlotInv, FoundInv, [Next]_vars
  PROVE  FoundInv' /\ (NoBan /\ "ban" \notin Calls => PoolStep)
<1>0. standardPool \in [Op -> Status \cup {"absent"}]
  BY DEF TypeOK, Pool
\* The only call becomes r; the others are none.
<1>1. ASSUME NEW t \in Tasks, NEW r, Become(t, r), FoundOK(r, standardPool')
      PROVE  FoundInv'
  BY <1>1 DEF FoundInv, Alone, Become, TypeOK
<1>2. ASSUME UNCHANGED <<standardPool, mempoolEntryCount>> PROVE PoolStep
  BY <1>2 DEF PoolStep, Unmoved
<1>3. ASSUME NEW t \in Tasks, CheckPaymasterDeposit(t) PROVE FoundInv' /\ PoolStep
  <2>1. \A op \in Op : FoundOK(Call("readPool", op), standardPool')
    BY DEF FoundOK, Call, Idle
  <2> QED
    BY <1>1, <1>2, <1>3, <2>1 DEF CheckPaymasterDeposit
<1>4. ASSUME NEW t \in Tasks, ReadPool(t) PROVE FoundInv' /\ PoolStep
  <2>1. task[t] \in Task /\ task[t].op \in Op /\ standardPool' = standardPool
    BY <1>4 DEF TypeOK, ReadPool, FoundInv, FoundOK
  <2>2. FoundOK(At(t, "role", 1), standardPool')
    BY <2>1 DEF FoundOK, At, Task
  <2>3. \A old \in Present(standardPool) : FoundOK(Replacing(t, old), standardPool')
    BY <2>1 DEF FoundOK, Replacing, Task
  <2>4. \/ Become(t, At(t, "role", 1))
        \/ Become(t, Idle)
        \/ \E old \in Present(standardPool) : Become(t, Replacing(t, old))
    BY <1>4 DEF ReadPool, FindBySenderNonce
  <2> QED
    BY <1>1, <1>2, <1>4, <2>2, <2>3, <2>4, FoundIdle DEF ReadPool
<1>5. ASSUME NEW t \in Tasks, CheckRole(t) \/ CheckMultipleRoles(t)
      PROVE  FoundInv' /\ PoolStep
  <2>1. /\ task[t] \in Task /\ task[t].op \in Op /\ task[t].old = NoOp
    BY <1>5 DEF TypeOK, CheckRole, CheckMultipleRoles, FoundInv, FoundOK,
                CapturedOK, Captured
  <2>2. \A p, k : p \in {"role", "roles", "write"} => FoundOK(At(t, p, k), standardPool')
    BY <2>1 DEF FoundOK, At, Task
  <2>3. \/ Become(t, Idle)
        \/ \E p, k : p \in {"role", "roles", "write"} /\ Become(t, At(t, p, k))
    BY <1>5 DEF CheckRole, CheckMultipleRoles
  <2> QED
    BY <1>1, <1>2, <1>5, <2>2, <2>3, FoundIdle DEF CheckRole, CheckMultipleRoles
<1>6. ASSUME NEW t \in Tasks, DoUpdateMempoolState(t) PROVE FoundInv' /\ PoolStep
  <2> DEFINE op == task[t].op
             old == task[t].old
  <2>1. /\ task[t] \in Task /\ task[t].pc = "write" /\ op \in Op
        /\ old = NoOp \/ old \in Present(standardPool)
    BY <1>6 DEF TypeOK, DoUpdateMempoolState, FoundInv, FoundOK
  <2>2. FoundInv'
    <3>1. \A k : FoundOK(At(t, "seen", k), standardPool')
      BY <2>1 DEF FoundOK, At, Task
    <3>2. \E k : Become(t, At(t, "seen", k))
      BY <1>6 DEF DoUpdateMempoolState
    <3> QED
      BY <1>1, <3>1, <3>2
  <2>3. CASE old # NoOp
    <3>1. /\ standardPool' = [Without(standardPool, {old}) EXCEPT ![op] = "pending"]
          /\ mempoolEntryCount' = mempoolEntryCount
      BY <1>6, <2>3 DEF DoUpdateMempoolState, NewPool
    <3>2. Present(standardPool') = (Present(standardPool) \ {old}) \cup {op}
      BY <1>0, <2>1, <3>1 DEF Present, Without
    <3>3. SameSlot(old, op)
      BY <2>1, <2>3 DEF CapturedOK, Captured
    <3>4. op = old \/ op \notin Present(standardPool)
      <4>1. SlotHolds(standardPool, op, {old})
        BY <2>1 DEF SlotInv, SlotFree
      <4> QED
        BY <4>1 DEF SlotHolds, SameSlot
    <3>5. Exchanged(old, op)
      BY <2>1, <2>3, <3>1, <3>2, <3>3, <3>4 DEF Exchanged
    <3> QED
      BY <2>1, <2>2, <3>5 DEF PoolStep
  <2>4. CASE old = NoOp
    <3>1. /\ standardPool' = [standardPool EXCEPT ![op] = "pending"]
          /\ mempoolEntryCount' = CountEntry(mempoolEntryCount, op)
      BY <1>6, <2>4 DEF DoUpdateMempoolState, NewPool, NewCounts
    <3>2. Present(standardPool') = Present(standardPool) \cup {op}
      BY <1>0, <2>1, <3>1 DEF Present
    <3>3. op \notin Present(standardPool)
      <4>1. SlotHolds(standardPool, op, {})
        BY <2>1, <2>4 DEF SlotInv, SlotFree
      <4> QED
        BY <4>1 DEF SlotHolds, SameSlot
    <3>4. Added(op)
      BY <2>1, <3>1, <3>2, <3>3 DEF Added
    <3> QED
      BY <2>1, <2>2, <2>4, <3>4 DEF PoolStep
  <2> QED
    BY <2>3, <2>4
<1>7. ASSUME NEW t \in Tasks, UpdateSeenStatus(t) PROVE FoundInv' /\ PoolStep
  <2>1. task[t] \in Task /\ task[t].op \in Op
    BY <1>7 DEF TypeOK, UpdateSeenStatus, FoundInv, FoundOK
  <2>2. \A k : FoundOK(At(t, "seen", k), standardPool')
    BY <2>1 DEF FoundOK, At, Task
  <2>3. \E k : Become(t, Idle) \/ Become(t, At(t, "seen", k))
    BY <1>7 DEF UpdateSeenStatus
  <2> QED
    BY <1>1, <1>2, <1>7, <2>2, <2>3, FoundIdle DEF UpdateSeenStatus
<1>8. ASSUME NEW t \in Tasks, FindEntryToRemove(t) PROVE FoundInv' /\ PoolStep
  <2>1. PICK o \in Present(standardPool) : Become(t, Call("remove", o))
    BY <1>8 DEF FindEntryToRemove, LookUp, FindBySenderNonce
  <2>2. standardPool' = standardPool
    BY <1>8 DEF FindEntryToRemove
  <2>3. FoundOK(Call("remove", o), standardPool')
    BY <2>1, <2>2 DEF FoundOK, Call, Idle
  <2> QED
    BY <1>1, <1>2, <1>8, <2>1, <2>3 DEF FindEntryToRemove
<1>9. ASSUME NEW t \in Tasks, FindEntryToUpdate(t) PROVE FoundInv' /\ PoolStep
  <2>1. PICK o \in Present(standardPool), s \in {"pending", "failed"} :
          Become(t, [Idle EXCEPT !.pc = "setStatus", !.op = o, !.status = s])
    BY <1>9 DEF FindEntryToUpdate, LookUp, FindBySenderNonce
  <2>2. standardPool' = standardPool
    BY <1>9 DEF FindEntryToUpdate
  <2>3. FoundOK([Idle EXCEPT !.pc = "setStatus", !.op = o, !.status = s], standardPool')
    BY <2>1, <2>2 DEF FoundOK, Idle
  <2> QED
    BY <1>1, <1>2, <1>9, <2>1, <2>3 DEF FindEntryToUpdate
<1>10. ASSUME NEW t \in Tasks, FindPending(t) PROVE FoundInv' /\ PoolStep
  <2>1. \A S : FoundOK([Idle EXCEPT !.pc = "take", !.hashes = S], standardPool')
    BY DEF FoundOK, Idle
  <2>2. \E S : Become(t, [Idle EXCEPT !.pc = "take", !.hashes = S])
    BY <1>10 DEF FindPending
  <2> QED
    BY <1>1, <1>2, <1>10, <2>1, <2>2 DEF FindPending
<1>11. ASSUME NEW t \in Tasks, RemoveUserOp(t) PROVE FoundInv' /\ PoolStep
  <2>1. /\ task[t].op \in Present(standardPool)
        /\ standardPool' = Without(standardPool, {task[t].op})
        /\ mempoolEntryCount' = UncountSender(mempoolEntryCount, task[t].op)
        /\ Become(t, Idle)
    BY <1>11 DEF RemoveUserOp, MutatePool, MutateCounts, FoundInv, FoundOK
  <2>2. Present(standardPool') = Present(standardPool) \ {task[t].op}
    BY <1>0, <2>1 DEF Present, Without
  <2>3. Removed(task[t].op)
    BY <2>1, <2>2 DEF Removed
  <2> QED
    BY <1>1, <2>1, <2>3, FoundIdle DEF PoolStep
<1>12. ASSUME NEW t \in Tasks, UpdateEntryStatus(t) PROVE FoundInv' /\ PoolStep
  <2>1. /\ task[t].op \in Present(standardPool)
        /\ standardPool' = [standardPool EXCEPT ![task[t].op] = task[t].status]
        /\ mempoolEntryCount' = mempoolEntryCount
        /\ Become(t, Idle)
        /\ task[t].status \in Status
    BY <1>12 DEF UpdateEntryStatus, NewPool, FoundInv, FoundOK, TypeOK, Task
  <2>2. Present(standardPool') = Present(standardPool)
    BY <1>0, <2>1 DEF Present, Status
  <2> QED
    BY <1>1, <2>1, <2>2, FoundIdle DEF PoolStep, Unmoved
<1>13. ASSUME NEW t \in Tasks, MarkBundling(t) PROVE FoundInv' /\ PoolStep
  <2>1. PICK S \in SUBSET Present(standardPool) :
          /\ standardPool' = Mark(standardPool, S)
          /\ mempoolEntryCount' = mempoolEntryCount
          /\ Become(t, Idle)
    BY <1>13 DEF MarkBundling, MutatePool
  <2>2. Present(standardPool') = Present(standardPool)
    BY <1>0, <2>1 DEF Present, Mark
  <2> QED
    BY <1>1, <2>1, <2>2, FoundIdle DEF PoolStep, Unmoved
<1>14. ASSUME NEW t \in Tasks,
              \/ FindOpsToBan(t) \/ RemoveUserOpsForBannedAddr(t)
              \/ CrashedHandleOps(t)
       PROVE  FoundInv' /\ ~ (NoBan /\ "ban" \notin Calls)
  <2>1. /\ \A a, S, pool :
             FoundOK([Idle EXCEPT !.pc = "banRemove", !.addr = a, !.hashes = S], pool)
        /\ \A a, pool : FoundOK([Idle EXCEPT !.pc = "banMark", !.addr = a], pool)
    BY DEF FoundOK, Idle
  <2>2. \/ Become(t, Idle)
        \/ \E a, S : Become(t, [Idle EXCEPT !.pc = "banRemove", !.addr = a, !.hashes = S])
        \/ \E a : Become(t, [Idle EXCEPT !.pc = "banMark", !.addr = a])
    BY <1>14 DEF FindOpsToBan, RemoveUserOpsForBannedAddr, CrashedHandleOps
  <2>3. ~ (NoBan /\ "ban" \notin Calls)
    BY <1>14 DEF FindOpsToBan, RemoveUserOpsForBannedAddr, CrashedHandleOps, NoBan
  <2> QED
    BY <1>1, <2>1, <2>2, <2>3, FoundIdle
<1>15. ClearMempool \/ ClearReputation => FALSE
  BY DEF ClearMempool, ClearReputation
<1>16. CASE UNCHANGED vars
  BY <1>2, <1>16 DEF vars, FoundInv
<1> QED
  BY <1>3, <1>4, <1>5, <1>6, <1>7, <1>8, <1>9, <1>10, <1>11, <1>12, <1>13,
     <1>14, <1>15, <1>16
  DEF Next, Begin, Continue

\* What PoolStep says, with the operations as constants.
LEMMA PoolCases ==
  ASSUME PoolStep
  PROVE  \/ Unmoved
         \/ \E op : Added(op) /\ \E t \in Tasks : /\ task[t].pc = "write"
                                                 /\ task[t].old = NoOp
                                                 /\ task[t].op = op
         \/ \E old, op : Exchanged(old, op) /\ \E t \in Tasks : /\ task[t].pc = "write"
                                                               /\ task[t].op = op
         \/ \E op : Removed(op)
BY DEF PoolStep

PoolFinite == IsFiniteSet(Present(standardPool))

\* How the entries of one sender move, and how many there are.
LEMMA EntriesMove ==
  ASSUME PoolFinite, NEW a
  PROVE  /\ IsFiniteSet(EntriesOf(a)) /\ Cardinality(EntriesOf(a)) \in Nat
         /\ Unmoved => EntriesOf(a)' = EntriesOf(a)
         /\ \A op : Added(op) =>
              Cardinality(EntriesOf(a)') = IF Lower[Sender[op]] = a
                                           THEN Cardinality(EntriesOf(a)) + 1
                                           ELSE Cardinality(EntriesOf(a))
         /\ \A old, op : Exchanged(old, op) =>
              Cardinality(EntriesOf(a)') = Cardinality(EntriesOf(a))
         /\ \A op : Removed(op) =>
              Cardinality(EntriesOf(a)') = IF Lower[Sender[op]] = a
                                           THEN Cardinality(EntriesOf(a)) - 1
                                           ELSE Cardinality(EntriesOf(a))
<1> DEFINE entries == EntriesOf(a)
<1>1. IsFiniteSet(entries) /\ Cardinality(entries) \in Nat
  BY FS_Subset, FS_CardinalityType DEF PoolFinite, EntriesOf
<1>2. Unmoved => EntriesOf(a)' = EntriesOf(a)
  BY DEF Unmoved, EntriesOf
<1>3. ASSUME NEW op, Added(op)
      PROVE  Cardinality(EntriesOf(a)') = IF Lower[Sender[op]] = a
                                          THEN Cardinality(EntriesOf(a)) + 1
                                          ELSE Cardinality(EntriesOf(a))
  <2>1. op \notin entries
    BY <1>3 DEF Added, EntriesOf
  <2>2. EntriesOf(a)' = IF Lower[Sender[op]] = a THEN entries \cup {op} ELSE entries
    BY <1>3 DEF Added, EntriesOf
  <2>3. Cardinality(entries \cup {op}) = Cardinality(entries) + 1
    BY <1>1, <2>1, FS_AddElement
  <2> QED
    BY <2>2, <2>3
<1>4. ASSUME NEW old, NEW op, Exchanged(old, op)
      PROVE  Cardinality(EntriesOf(a)') = Cardinality(EntriesOf(a))
  <2>1. Lower[Sender[old]] = Lower[Sender[op]]
    BY <1>4 DEF Exchanged, SameSlot
  <2>2. CASE Lower[Sender[op]] = a
    <3>1. EntriesOf(a)' = (entries \ {old}) \cup {op}
      BY <1>4, <2>1, <2>2 DEF Exchanged, EntriesOf
    <3>2. old \in entries /\ op \notin entries \ {old}
      BY <1>4, <2>1, <2>2 DEF Exchanged, EntriesOf
    <3>3. /\ IsFiniteSet(entries \ {old})
          /\ Cardinality(entries \ {old}) = Cardinality(entries) - 1
      BY <1>1, <3>2, FS_RemoveElement
    <3>4. Cardinality((entries \ {old}) \cup {op}) = Cardinality(entries \ {old}) + 1
      BY <3>2, <3>3, FS_AddElement
    <3> QED
      BY <1>1, <3>1, <3>3, <3>4
  <2>3. CASE Lower[Sender[op]] # a
    BY <1>4, <2>1, <2>3 DEF Exchanged, EntriesOf
  <2> QED
    BY <2>2, <2>3
<1>5. ASSUME NEW op, Removed(op)
      PROVE  Cardinality(EntriesOf(a)') = IF Lower[Sender[op]] = a
                                          THEN Cardinality(EntriesOf(a)) - 1
                                          ELSE Cardinality(EntriesOf(a))
  <2>1. EntriesOf(a)' = IF Lower[Sender[op]] = a THEN entries \ {op} ELSE entries
    BY <1>5 DEF Removed, EntriesOf
  <2>2. Lower[Sender[op]] = a => op \in entries
    BY <1>5 DEF Removed, EntriesOf
  <2>3. op \in entries => Cardinality(entries \ {op}) = Cardinality(entries) - 1
    BY <1>1, FS_RemoveElement
  <2> QED
    BY <2>1, <2>2, <2>3
<1> QED
  BY <1>1, <1>2, <1>3, <1>4, <1>5

LEMMA FiniteStep == PoolFinite /\ PoolStep => PoolFinite'
<1> SUFFICES ASSUME PoolFinite, PoolStep PROVE PoolFinite'
  OBVIOUS
<1>1. PICK x : Present(standardPool') \subseteq Present(standardPool) \cup {x}
  BY PoolCases DEF Unmoved, Added, Exchanged, Removed
<1>2. IsFiniteSet(Present(standardPool) \cup {x})
  BY FS_AddElement DEF PoolFinite
<1> QED
  BY <1>1, <1>2, FS_Subset DEF PoolFinite

\* The counts of every sender cover its entries.  removeUserOp takes one from
\* the sender as spelled, which is a key only if it is spelled in lower case.
LEMMA CountStep ==
  ASSUME TypeOK, PoolFinite, CountCoversPool, PoolStep
  PROVE  CountCoversPool'
<1> SUFFICES ASSUME NEW a \in Address
             PROVE  Cardinality(EntriesOf(a)') <= mempoolEntryCount'[a]
  BY DEF CountCoversPool
<1>1. /\ mempoolEntryCount \in [Address -> Nat]
      /\ Cardinality(EntriesOf(a)) <= mempoolEntryCount[a]
      /\ Cardinality(EntriesOf(a)) \in Nat
  BY EntriesMove DEF TypeOK, Counts, CountCoversPool
<1>2. CASE Unmoved
  BY <1>1, <1>2, EntriesMove DEF Unmoved
<1>3. ASSUME NEW op, Added(op)
      PROVE  Cardinality(EntriesOf(a)') <= mempoolEntryCount'[a]
  <2>1. op \in Op /\ Sender[op] \in Address /\ Sender[op] # NoAddress
    BY <1>3, OpAssumption, AddressAssumption DEF Added
  <2>2. Lower[Sender[op]] \in CountedKeys(op)
    BY <2>1 DEF CountedKeys, LowerAll
  <2>3. mempoolEntryCount'[a] = IF a \in CountedKeys(op) THEN mempoolEntryCount[a] + 1
                                ELSE mempoolEntryCount[a]
    BY <1>3 DEF Added, CountEntry
  <2>4. Cardinality(EntriesOf(a)') = IF Lower[Sender[op]] = a
                                     THEN Cardinality(EntriesOf(a)) + 1
                                     ELSE Cardinality(EntriesOf(a))
    BY <1>3, EntriesMove
  <2>5. mempoolEntryCount[a] \in Nat
    BY <1>1
  <2> QED
    BY <1>1, <2>2, <2>3, <2>4, <2>5
<1>4. ASSUME NEW old, NEW op, Exchanged(old, op)
      PROVE  Cardinality(EntriesOf(a)') <= mempoolEntryCount'[a]
  BY <1>1, <1>4, EntriesMove DEF Exchanged
<1>5. ASSUME NEW op, Removed(op)
      PROVE  Cardinality(EntriesOf(a)') <= mempoolEntryCount'[a]
  <2>1. op \in Op /\ Sender[op] \in Address /\ Lower[Lower[Sender[op]]] = Lower[Sender[op]]
    BY <1>5, OpAssumption, AddressAssumption DEF Removed, Present
  <2>2. Cardinality(EntriesOf(a)') = IF Lower[Sender[op]] = a
                                     THEN Cardinality(EntriesOf(a)) - 1
                                     ELSE Cardinality(EntriesOf(a))
    BY <1>5, EntriesMove
  <2>3. mempoolEntryCount' = UncountSender(mempoolEntryCount, op)
    BY <1>5 DEF Removed
  <2>4. mempoolEntryCount[a] \in Nat
    BY <1>1
  <2>5. CASE a # Sender[op]
    <3>1. mempoolEntryCount'[a] = mempoolEntryCount[a]
      BY <1>1, <2>3, <2>5 DEF UncountSender
    <3> QED
      BY <1>1, <2>2, <2>4, <3>1
  <2>6. CASE a = Sender[op] /\ Lower[a] = a
    <3>1. mempoolEntryCount'[a] = IF mempoolEntryCount[a] <= 1 THEN 0
                                  ELSE mempoolEntryCount[a] - 1
      BY <1>1, <2>3, <2>6 DEF UncountSender
    <3> QED
      BY <1>1, <2>2, <2>4, <2>6, <3>1
  <2>7. CASE a = Sender[op] /\ Lower[a] # a
    <3>1. EntriesOf(a) = {}
      BY <2>7, OpAssumption, AddressAssumption DEF EntriesOf, Present
    <3>2. Cardinality(EntriesOf(a)) = 0
      BY <3>1, FS_EmptySet
    <3>3. mempoolEntryCount'[a] \in Nat
      BY <1>1, <2>3, CountsType DEF Counts
    <3> QED
      BY <2>2, <2>7, <3>2, <3>3
  <2> QED
    BY <2>5, <2>6, <2>7
<1> QED
  BY <1>2, <1>3, <1>4, <1>5, PoolCases

\* All that holds of the pool between the steps of calls one at a time.
SeqInv == SlotInv /\ FoundInv /\ NoBan /\ PoolFinite /\ CountCoversPool

\* Only FindOpsToBan begins a ban.
LEMMA NoBanStep ==
  ASSUME "ban" \notin Calls, TypeOK, NoBan, [Next]_vars
  PROVE  NoBan'
<1>1. ASSUME NEW t \in Tasks, NEW r, Become(t, r), r.pc \notin {"banRemove", "banMark"}
      PROVE  NoBan'
  BY <1>1 DEF NoBan, Become, TypeOK
<1>2. ASSUME NEW t \in Tasks, Begin(t) \/ Continue(t) PROVE NoBan'
  <2>1. /\ Idle.pc = "idle"
        /\ \A k : At(t, "role", k).pc = "role" /\ At(t, "roles", k).pc = "roles"
        /\ \A k : At(t, "write", k).pc = "write" /\ At(t, "seen", k).pc = "seen"
        /\ \A old : Replacing(t, old).pc = "write"
        /\ \A op : Call("readPool", op).pc = "readPool" /\ Call("remove", op).pc = "remove"
        /\ \A op, st : [Idle EXCEPT !.pc = "setStatus", !.op = op, !.status = st].pc
                         = "setStatus"
        /\ \A S : [Idle EXCEPT !.pc = "take", !.hashes = S].pc = "take"
    BY DEF TypeOK, Idle, At, Task, Call, Replacing
  <2>2. CASE Begin(t)
    <3>1. \/ \E op : Become(t, Call("readPool", op)) \/ Become(t, Call("remove", op))
          \/ \E op, st : Become(t, [Idle EXCEPT !.pc = "setStatus", !.op = op, !.status = st])
          \/ \E S : Become(t, [Idle EXCEPT !.pc = "take", !.hashes = S])
      BY <2>2 DEF Begin, CheckPaymasterDeposit, FindEntryToRemove, FindEntryToUpdate,
                  FindPending, FindOpsToBan
    <3> QED
      BY <1>1, <2>1, <3>1
  <2>3. CASE Continue(t)
    <3>1. \/ Become(t, Idle)
          \/ \E k : Become(t, At(t, "role", k)) \/ Become(t, At(t, "roles", k))
          \/ \E k : Become(t, At(t, "write", k)) \/ Become(t, At(t, "seen", k))
          \/ \E old : Become(t, Replacing(t, old))
      BY <2>3 DEF Continue, ReadPool, CheckRole, CheckMultipleRoles, DoUpdateMempoolState,
                  UpdateSeenStatus, RemoveUserOp, UpdateEntryStatus, MarkBundling,
                  RemoveUserOpsForBannedAddr, CrashedHandleOps, NoBan
    <3> QED
      BY <1>1, <2>1, <3>1
  <2> QED
    BY <1>2, <2>2, <2>3
<1>3. CASE ClearMempool \/ ClearReputation \/ UNCHANGED vars
  BY <1>3 DEF ClearMempool, ClearReputation, vars, NoBan
<1> QED
  BY <1>2, <1>3 DEF Next

LEMMA SeqInit == Init => SeqInv
<1> SUFFICES ASSUME Init PROVE SeqInv
  OBVIOUS
<1>1. Present(standardPool) = {} /\ \A t \in Tasks : task[t] = Idle
  BY DEF Init, Present, EmptyPool
<1>2. \A a : EntriesOf(a) = {}
  BY <1>1 DEF EntriesOf
<1>3. \A a \in Address : mempoolEntryCount[a] = 0
  BY DEF Init, ZeroCounts
<1>4. NoBan
  BY <1>1 DEF NoBan, Idle
<1> QED
  BY <1>1, <1>2, <1>3, <1>4, SlotIdle, FoundIdle, FS_EmptySet
  DEF SeqInv, SlotInv, OneEntryPerSenderNonce, FoundInv, PoolFinite,
      CountCoversPool

LEMMA SeqStep ==
  ASSUME Sequential
  PROVE  TypeOK /\ CapturedOK /\ SeqInv /\ [Next]_vars => SeqInv' /\ PoolStep
<1> SUFFICES ASSUME TypeOK, CapturedOK, SeqInv, [Next]_vars PROVE SeqInv' /\ PoolStep
  OBVIOUS
<1>1. Alone /\ "ban" \notin Calls /\ "clear" \notin Calls
  BY DEF Sequential
<1>2. SlotInv /\ FoundInv /\ NoBan /\ PoolFinite /\ CountCoversPool
  BY DEF SeqInv
<1>3. SlotInv'
  BY <1>1, <1>2, SlotStep
<1>4. FoundInv' /\ PoolStep
  BY <1>1, <1>2, FoundStep
<1>5. NoBan' /\ PoolFinite' /\ CountCoversPool'
  BY <1>1, <1>2, <1>4, NoBanStep, FiniteStep, CountStep
<1> QED
  BY <1>3, <1>4, <1>5 DEF SeqInv

\* With calls one at a time, no bans and no clears, a sender's count covers its
\* entries, however they and the calls spell its address.
THEOREM CountsCover ==
  ASSUME Sequential
  PROVE  Spec => []CountCoversPool
<1>1. SeqInv => CountCoversPool
  BY DEF SeqInv
<1> QED
  BY <1>1, SeqInit, SeqStep, TypeCorrect, CapturedCorrect, PTL DEF Spec

------------------------------------------------------------------------------
(* The cap of an unstaked sender *)

\* A call past the test of the sender's count has seen it below the cap, and it
\* is below it until the call adds its entry.
Passed(r) == \/ r.pc = "role" /\ r.step >= 2
             \/ r.pc = "roles"
             \/ r.pc = "write" /\ r.old = NoOp

BelowCap(op) ==
  Unstaked(Lower[Sender[op]]) =>
    Cardinality(EntriesOf(Lower[Sender[op]])) < MaxMempoolUserOpsPerSender

PassedInv ==
  \A t \in Tasks :
    /\ task[t].pc \in {"role", "roles"} => countRef[t] = Current
    /\ Passed(task[t]) => BelowCap(task[t].op)

LEMMA PassedStep ==
  ASSUME Sequential, TypeOK, CapturedOK, SeqInv, PassedInv, [Next]_vars
  PROVE  PassedInv'
<1> USE DEF Sequential
\* The only call becomes r.  Unless it then is past the test, nothing to show.
<1>1. ASSUME NEW t \in Tasks, NEW r, Become(t, r),
             r.pc \in {"role", "roles"} => countRef'[t] = Current,
             Passed(r) => /\ BelowCap(r.op)
                          /\ UNCHANGED standardPool
      PROVE  PassedInv'
  <2>1. Tasks = {t} /\ task'[t] = r
    BY <1>1 DEF Alone, Become, TypeOK
  <2>2. UNCHANGED standardPool => \A op : BelowCap(op) => BelowCap(op)'
    BY DEF BelowCap, EntriesOf, Unstaked
  <2>3. Passed(r) => BelowCap(r.op)'
    BY <1>1, <2>2
  <2> QED
    BY <1>1, <2>1, <2>3 DEF PassedInv
<1>2. ASSUME NEW t \in Tasks, NEW r, Become(t, r),
             r.pc \notin {"role", "roles", "write"}
      PROVE  PassedInv'
  BY <1>1, <1>2 DEF Passed
<1>3. ASSUME NEW t \in Tasks, ReadPool(t) PROVE PassedInv'
  <2>1. task[t] \in Task /\ countRef \in [Tasks -> Counts \cup {NoRef, Current}]
    BY DEF TypeOK
  <2>2. CASE Become(t, At(t, "role", 1))
    <3>1. At(t, "role", 1).pc = "role" /\ ~ Passed(At(t, "role", 1))
      BY <2>1 DEF At, Task, Passed
    <3>2. countRef'[t] = Current
      <4>1. ReadPool(t) /\ ~ \E old : Become(t, Replacing(t, old)) \/ Become(t, Idle)
        <5>1. \A old : Replacing(t, old).pc = "write" /\ Idle.pc = "idle"
          BY <2>1 DEF Replacing, Task, Idle
        <5> QED
          BY <1>3, <2>2, <3>1, <5>1 DEF Become, TypeOK
      <4> QED
        BY <2>1, <4>1 DEF ReadPool
    <3> QED
      BY <1>1, <2>2, <3>1, <3>2
  <2>3. ASSUME NEW old \in Op, Become(t, Replacing(t, old)) PROVE PassedInv'
    <3>1. Replacing(t, old).pc = "write" /\ Replacing(t, old).old # NoOp
      BY <2>1, OpAssumption DEF Replacing, Task
    <3> QED
      BY <1>1, <2>3, <3>1 DEF Passed
  <2>4. CASE Become(t, Idle)
    BY <1>2, <2>4 DEF Idle
  <2> QED
    BY <1>3, <2>2, <2>3, <2>4 DEF ReadPool, FindBySenderNonce, Present
<1>4. ASSUME NEW t \in Tasks, CheckRole(t) PROVE PassedInv'
  <2> DEFINE op == task[t].op
             k == task[t].step
             a == Lower[Sender[op]]
  <2>1. /\ task[t] \in Task /\ task[t].pc = "role" /\ op \in Op /\ k \in 0..8
        /\ countRef[t] = Current
        /\ Sender[op] \in Address /\ Sender[op] # NoAddress /\ a \in Address
    BY <1>4, OpAssumption, AddressAssumption
    DEF TypeOK, Task, CheckRole, SeqInv, FoundInv, FoundOK, PassedInv
  <2>2. CASE Become(t, Idle)
    BY <1>2, <2>2 DEF Idle
  <2>3. ASSUME ~ Become(t, Idle) PROVE PassedInv'
    <3>1. /\ countRef'[t] = Current
          /\ UNCHANGED standardPool
      BY <1>4, <2>1, <2>3 DEF CheckRole
    <3>2. k >= 1 => BelowCap(op)
      <4>1. CASE k >= 2
        BY <2>1, <4>1 DEF PassedInv, Passed
      <4>2. CASE k = 1
        <5>1. CheckReputationStatus(reputationEntries, CountsSeenBy(t), "account", Sender[op])
          BY <1>4, <2>1, <2>3, <4>2 DEF CheckRole, Roles, RoleAddress
        <5>2. CountsSeenBy(t) = mempoolEntryCount
          BY <2>1 DEF CountsSeenBy
        <5>3. ~ mempoolEntryCount[a] >= MaxMempoolUserOpsPerSender \/ Sender[op] \in Staked
          BY <5>1, <5>2 DEF CheckReputationStatus, PassesStake
        <5>4. Cardinality(EntriesOf(a)) <= mempoolEntryCount[a]
          BY <2>1 DEF SeqInv, CountCoversPool
        <5>5. mempoolEntryCount[a] \in Nat /\ Cardinality(EntriesOf(a)) \in Nat
          BY <2>1, EntriesMove DEF TypeOK, Counts, SeqInv
        <5>6. CASE Sender[op] \in Staked
          BY <5>6 DEF BelowCap, Unstaked
        <5>7. CASE ~ mempoolEntryCount[a] >= MaxMempoolUserOpsPerSender
          BY <5>4, <5>5, <5>7, LimitAssumption DEF BelowCap
        <5> QED
          BY <5>3, <5>6, <5>7
      <4> QED
        BY <2>1, <4>1, <4>2
    <3>3. \/ k < 4 /\ Become(t, At(t, "role", k + 1))
          \/ k >= 4 /\ Become(t, At(t, "roles", 0))
      BY <1>4, <2>1, <2>3 DEF CheckRole
    <3>4. /\ At(t, "role", k + 1).op = op
          /\ At(t, "role", k + 1).step = k + 1
          /\ At(t, "role", k + 1).pc = "role"
          /\ At(t, "roles", 0).op = op
      BY <2>1 DEF At, Task
    <3>5. CASE k < 4 /\ Become(t, At(t, "role", k + 1))
      <4>1. Passed(At(t, "role", k + 1)) => k >= 1
        BY <2>1, <3>4 DEF Passed
      <4> QED
        BY <1>1, <3>1, <3>2, <3>4, <3>5, <4>1
    <3>6. CASE k >= 4 /\ Become(t, At(t, "roles", 0))
      <4>1. BelowCap(op)
        BY <2>1, <3>2, <3>6
      <4> QED
        BY <1>1, <3>1, <3>4, <3>6, <4>1
    <3> QED
      BY <3>3, <3>5, <3>6
  <2> QED
    BY <2>2, <2>3
<1>5. ASSUME NEW t \in Tasks, CheckMultipleRoles(t) PROVE PassedInv'
  <2>1. task[t] \in Task /\ task[t].pc = "roles" /\ UNCHANGED standardPool
    BY <1>5 DEF TypeOK, CheckMultipleRoles
  <2>2. BelowCap(task[t].op)
    BY <2>1 DEF PassedInv, Passed
  <2>3. At(t, "write", 0).pc = "write" /\ At(t, "write", 0).op = task[t].op
    BY <2>1 DEF At, Task
  <2>4. Become(t, Idle) \/ Become(t, At(t, "write", 0))
    BY <1>5 DEF CheckMultipleRoles
  <2>5. Idle.pc = "idle"
    BY DEF Idle
  <2> QED
    BY <1>1, <1>2, <2>1, <2>2, <2>3, <2>4, <2>5
<1>6. ASSUME NEW t \in Tasks, DoUpdateMempoolState(t) \/ UpdateSeenStatus(t)
      PROVE  PassedInv'
  <2>1. \A k : At(t, "seen", k).pc = "seen" /\ Idle.pc = "idle"
    BY DEF TypeOK, At, Task, Idle
  <2>2. \E k : Become(t, Idle) \/ Become(t, At(t, "seen", k))
    BY <1>6 DEF DoUpdateMempoolState, UpdateSeenStatus
  <2> QED
    BY <1>2, <2>1, <2>2
<1>7. ASSUME NEW t \in Tasks, Begin(t) PROVE PassedInv'
  <2>1. /\ \A op : Call("readPool", op).pc = "readPool" /\ Call("remove", op).pc = "remove"
        /\ \A op, s : [Idle EXCEPT !.pc = "setStatus", !.op = op, !.status = s].pc = "setStatus"
        /\ \A S : [Idle EXCEPT !.pc = "take", !.hashes = S].pc = "take"
        /\ \A a, S : [Idle EXCEPT !.pc = "banRemove", !.addr = a, !.hashes = S].pc = "banRemove"
    BY DEF Call, Idle
  <2>2. \/ \E op : Become(t, Call("readPool", op)) \/ Become(t, Call("remove", op))
        \/ \E op, s : Become(t, [Idle EXCEPT !.pc = "setStatus", !.op = op, !.status = s])
        \/ \E S : Become(t, [Idle EXCEPT !.pc = "take", !.hashes = S])
        \/ \E a, S : Become(t, [Idle EXCEPT !.pc = "banRemove", !.addr = a, !.hashes = S])
    BY <1>7 DEF Begin, CheckPaymasterDeposit, FindEntryToRemove, FindEntryToUpdate,
                FindPending, FindOpsToBan
  <2>3. PICK r : Become(t, r) /\ r.pc \notin {"role", "roles", "write"}
    <3> HIDE DEF Become
    <3> QED
      BY <2>1, <2>2
  <2> QED
    BY <1>2, <2>3
<1>8. ASSUME NEW t \in Tasks,
             \/ RemoveUserOp(t) \/ UpdateEntryStatus(t) \/ MarkBundling(t)
             \/ RemoveUserOpsForBannedAddr(t) \/ CrashedHandleOps(t)
      PROVE  PassedInv'
  <2>1. \E a : \/ Become(t, Idle)
               \/ Become(t, [Idle EXCEPT !.pc = "banMark", !.addr = a])
    BY <1>8 DEF RemoveUserOp, UpdateEntryStatus, MarkBundling,
                RemoveUserOpsForBannedAddr, CrashedHandleOps
  <2>2. \A a : Idle.pc = "idle" /\ [Idle EXCEPT !.pc = "banMark", !.addr = a].pc = "banMark"
    BY DEF Idle
  <2> QED
    BY <1>2, <2>1, <2>2
<1>9. ClearMempool \/ ClearReputation => FALSE
  BY DEF ClearMempool, ClearReputation
<1>10. CASE UNCHANGED vars
  BY <1>10 DEF vars, PassedInv, BelowCap, EntriesOf, Unstaked
<1> QED
  BY <1>3, <1>4, <1>5, <1>6, <1>7, <1>8, <1>9, <1>10 DEF Next, Continue

\* Only an addUserOp past the test adds an entry; replacing keeps their number.
LEMMA CapStep ==
  ASSUME TypeOK, SeqInv, PassedInv, UnstakedSenderCap, PoolStep
  PROVE  UnstakedSenderCap'
<1> SUFFICES ASSUME NEW a \in Address, Unstaked(a)
             PROVE  Cardinality(EntriesOf(a)') <= MaxMempoolUserOpsPerSender
  BY DEF UnstakedSenderCap, Unstaked
<1>1. /\ Cardinality(EntriesOf(a)) <= MaxMempoolUserOpsPerSender
      /\ Cardinality(EntriesOf(a)) \in Nat /\ MaxMempoolUserOpsPerSender \in Nat
  BY EntriesMove, LimitAssumption DEF UnstakedSenderCap, SeqInv
<1>2. PoolFinite
  BY DEF SeqInv
<1>3. ASSUME NEW op, Added(op), NEW t \in Tasks,
             task[t].pc = "write", task[t].old = NoOp, task[t].op = op
      PROVE  Cardinality(EntriesOf(a)') <= MaxMempoolUserOpsPerSender
  <2>1. BelowCap(op)
    BY <1>3 DEF PassedInv, Passed
  <2>2. Lower[Sender[op]] = a =>
          Cardinality(EntriesOf(a)) < MaxMempoolUserOpsPerSender
    BY <2>1 DEF BelowCap
  <2>3. Cardinality(EntriesOf(a)') = IF Lower[Sender[op]] = a
                                     THEN Cardinality(EntriesOf(a)) + 1
                                     ELSE Cardinality(EntriesOf(a))
    BY <1>2, <1>3, EntriesMove
  <2> QED
    BY <1>1, <2>2, <2>3
<1>4. ASSUME NEW op, Removed(op)
      PROVE  Cardinality(EntriesOf(a)') <= MaxMempoolUserOpsPerSender
  <2>1. Cardinality(EntriesOf(a)') = IF Lower[Sender[op]] = a
                                     THEN Cardinality(EntriesOf(a)) - 1
                                     ELSE Cardinality(EntriesOf(a))
    BY <1>2, <1>4, EntriesMove
  <2> QED
    BY <1>1, <2>1
<1> QED
  BY <1>1, <1>2, <1>3, <1>4, PoolCases, EntriesMove

\* With calls one at a time, no bans and no clears, an unstaked sender has at most
\* MaxMempoolUserOpsPerSender entries: the count it is judged by covers them.
THEOREM SenderCapped ==
  ASSUME Sequential
  PROVE  Spec => []UnstakedSenderCap
<1>1. Init => PassedInv /\ UnstakedSenderCap
  <2> SUFFICES ASSUME Init PROVE PassedInv /\ UnstakedSenderCap
    OBVIOUS
  <2>1. \A t \in Tasks : task[t].pc = "idle"
    BY DEF Init, Idle
  <2>2. \A a : EntriesOf(a) = {}
    BY DEF Init, EntriesOf, Present, EmptyPool
  <2> QED
    BY <2>1, <2>2, FS_EmptySet, LimitAssumption DEF PassedInv, Passed, UnstakedSenderCap
<1>2. TypeOK /\ CapturedOK /\ SeqInv /\ PassedInv /\ UnstakedSenderCap /\ [Next]_vars
        => SeqInv' /\ PassedInv' /\ UnstakedSenderCap'
  BY SeqStep, PassedStep, CapStep
<1> QED
  BY <1>1, <1>2, SeqInit, TypeCorrect, CapturedCorrect, PTL DEF Spec

------------------------------------------------------------------------------
(***************************************************************************)
(* The deposits of paymasters, with one call at a time and any calls.      *)
(* checkPaymasterDeposit charges the new operation's own cost for every    *)
(* entry of the same paymaster.  That bounds the total only when they cost *)
(* the same; what it bounds in any case is, for each entry, its cost times *)
(* the entries that are as dear: a cheaper one does not count there, and a *)
(* dearer one was checked against more.                                    *)
(***************************************************************************)
\* The deposit would cover op with the others of its paymaster.
Others(pool, op) == {o \in Present(pool) : Paymaster[o] = Paymaster[op]} \ {op}
DepositRoom(pool, op) ==
  Paymaster[op] # NoAddress =>
    MaxCost[op] * (1 + Cardinality(Others(pool, op))) <= Deposit[Paymaster[op]]

\* A call that may write an operation, or write one back after a clear.
Writing == {"readPool", "role", "roles", "write", "setStatus"}
DepositInv ==
  \A t \in Tasks : task[t].pc \in Writing =>
    /\ task[t].op \in Op
    /\ task[t].op \in Present(standardPool) \/ DepositRoom(standardPool, task[t].op)

SolventInv == PoolFinite /\ DepositInv /\ DepositCoversDearer

LEMMA TimesLess ==
  ASSUME NEW c \in Nat, NEW m \in Nat, NEW n \in Nat, m <= n
  PROVE  c * m <= c * n
BY n - m \in Nat, n = m + (n - m), c * n = c * m + c * (n - m)

LEMMA CostLess ==
  ASSUME NEW k \in Nat, NEW m \in Nat, NEW n \in Nat, NEW d \in Nat, m <= n, k * n <= d
  PROVE  k * m <= d
<1>1. k * m <= k * n
  BY TimesLess
<1>2. k * m \in Nat /\ k * n \in Nat
  OBVIOUS
<1> QED
  BY <1>1, <1>2

\* Less in the pool leaves more room.
LEMMA DepositRoomShrinks ==
  ASSUME NEW pool, NEW next, NEW op \in Op, IsFiniteSet(Present(pool)),
         Present(next) \subseteq Present(pool), DepositRoom(pool, op)
  PROVE  DepositRoom(next, op)
<1> SUFFICES ASSUME Paymaster[op] # NoAddress
             PROVE  MaxCost[op] * (1 + Cardinality(Others(next, op)))
                      <= Deposit[Paymaster[op]]
  BY DEF DepositRoom
<1>1. MaxCost[op] \in Nat /\ Deposit[Paymaster[op]] \in Nat
  BY OpAssumption
<1>2. IsFiniteSet(Others(pool, op)) /\ Others(next, op) \subseteq Others(pool, op)
  BY FS_Subset DEF Others
<1>3. /\ Cardinality(Others(pool, op)) \in Nat /\ Cardinality(Others(next, op)) \in Nat
      /\ Cardinality(Others(next, op)) <= Cardinality(Others(pool, op))
  BY <1>2, FS_Subset, FS_CardinalityType
<1>4. MaxCost[op] * (1 + Cardinality(Others(pool, op))) <= Deposit[Paymaster[op]]
  BY DEF DepositRoom
<1>5. /\ 1 + Cardinality(Others(pool, op)) \in Nat /\ 1 + Cardinality(Others(next, op)) \in Nat
      /\ 1 + Cardinality(Others(next, op)) <= 1 + Cardinality(Others(pool, op))
  BY <1>3
<1> QED
  BY <1>1, <1>4, <1>5, CostLess

\* The check of addUserOp makes room.
LEMMA DepositRoomFound ==
  ASSUME PoolFinite, NEW op \in Op, DepositCovers(standardPool, op)
  PROVE  DepositRoom(standardPool, op)
<1> SUFFICES ASSUME Paymaster[op] # NoAddress
             PROVE  MaxCost[op] * (1 + Cardinality(Others(standardPool, op)))
                      <= Deposit[Paymaster[op]]
  BY DEF DepositRoom
<1> DEFINE all == {o \in Present(standardPool) : Paymaster[o] = Paymaster[op]}
           others == Others(standardPool, op)
<1>1. MaxCost[op] \in Nat /\ Deposit[Paymaster[op]] \in Nat
  BY OpAssumption
<1>2. IsFiniteSet(all) /\ others \subseteq all
  BY FS_Subset DEF PoolFinite, Others
<1>3. /\ Cardinality(all) \in Nat /\ Cardinality(others) \in Nat
      /\ Cardinality(others) <= Cardinality(all)
  BY <1>2, FS_Subset, FS_CardinalityType
<1>4. MaxCost[op] * (1 + Cardinality(all)) <= Deposit[Paymaster[op]]
  BY DEF DepositCovers
<1>5. /\ 1 + Cardinality(all) \in Nat /\ 1 + Cardinality(others) \in Nat
      /\ 1 + Cardinality(others) <= 1 + Cardinality(all)
  BY <1>3
<1> QED
  BY <1>1, <1>4, <1>5, CostLess

\* So does an entry, when the pool is cleared and the call that holds it goes on.
LEMMA RoomInEmptyPool ==
  ASSUME SolventInv, NEW op \in Present(standardPool), NEW pool, Present(pool) = {}
  PROVE  DepositRoom(pool, op)
<1> SUFFICES ASSUME Paymaster[op] # NoAddress
             PROVE  MaxCost[op] * (1 + Cardinality(Others(pool, op)))
                      <= Deposit[Paymaster[op]]
  BY DEF DepositRoom
<1>1. op \in Op /\ MaxCost[op] \in Nat /\ Deposit[Paymaster[op]] \in Nat
  BY OpAssumption DEF Present
<1>2. IsFiniteSet(AsDear(op)) /\ op \in AsDear(op)
  BY <1>1, FS_Subset DEF SolventInv, PoolFinite, AsDear, SpelledAlike
<1>3. Cardinality(AsDear(op)) \in Nat /\ 1 <= Cardinality(AsDear(op))
  <2>1. Cardinality({op}) = 1 /\ {op} \subseteq AsDear(op)
    BY <1>2, FS_Singleton
  <2> QED
    BY <1>2, <2>1, FS_Subset, FS_CardinalityType
<1>4. MaxCost[op] * Cardinality(AsDear(op)) <= Deposit[Paymaster[op]]
  BY DEF SolventInv, DepositCoversDearer
<1>5. Cardinality(Others(pool, op)) = 0
  BY FS_EmptySet DEF Others
<1>6. MaxCost[op] * 1 <= Deposit[Paymaster[op]]
  BY <1>1, <1>3, <1>4, CostLess
<1> QED
  BY <1>5, <1>6

\* The pool gains at most what a call writes, whatever else it loses.
Gains ==
  \/ Present(standardPool') \subseteq Present(standardPool)
  \/ \E t \in Tasks :
       /\ task[t].pc \in Writing
       /\ Present(standardPool') \subseteq Present(standardPool) \cup {task[t].op}

LEMMA PoolGains ==
  ASSUME TypeOK, [Next]_vars
  PROVE  Gains
<1> USE DEF Present
<1>1. ASSUME standardPool' = standardPool PROVE Gains
  BY <1>1 DEF Gains
<1>2. ASSUME NEW S, standardPool' = Without(standardPool, S) PROVE Gains
  BY <1>2 DEF Gains, Without
<1>3. ASSUME NEW t \in Tasks, DoUpdateMempoolState(t) PROVE Gains
  <2>1. task[t].pc \in Writing
    BY <1>3 DEF DoUpdateMempoolState, Writing
  <2>2. \/ standardPool' = [Without(standardPool, {task[t].old}) EXCEPT ![task[t].op] = "pending"]
        \/ standardPool' = [standardPool EXCEPT ![task[t].op] = "pending"]
    BY <1>3 DEF DoUpdateMempoolState, NewPool
  <2>3. Present(standardPool') \subseteq Present(standardPool) \cup {task[t].op}
    BY <2>2 DEF Without, TypeOK, Pool
  <2> QED
    BY <2>1, <2>3 DEF Gains
<1>4. ASSUME NEW t \in Tasks, UpdateEntryStatus(t) PROVE Gains
  <2>1. task[t].pc \in Writing
        /\ standardPool' = [standardPool EXCEPT ![task[t].op] = task[t].status]
    BY <1>4 DEF UpdateEntryStatus, NewPool, Writing
  <2>2. Present(standardPool') \subseteq Present(standardPool) \cup {task[t].op}
    BY <2>1 DEF TypeOK, Pool
  <2> QED
    BY <2>1, <2>2 DEF Gains
<1>5. ASSUME NEW t \in Tasks, MarkBundling(t) PROVE Gains
  <2>1. PICK S \in SUBSET Present(standardPool) : standardPool' = Mark(standardPool, S)
    BY <1>5 DEF MarkBundling, MutatePool
  <2>2. Present(standardPool') \subseteq Present(standardPool)
    BY <2>1 DEF Mark
  <2> QED
    BY <2>2 DEF Gains
<1>6. ASSUME NEW t \in Tasks, RemoveUserOp(t) \/ RemoveUserOpsForBannedAddr(t) PROVE Gains
  BY <1>2, <1>6 DEF RemoveUserOp, RemoveUserOpsForBannedAddr, MutatePool
<1>7. CASE ClearMempool
  <2>1. Present(standardPool') = {}
    BY <1>7 DEF ClearMempool, NewPool, EmptyPool
  <2> QED
    BY <2>1 DEF Gains
<1>8. ASSUME NEW t \in Tasks,
             \/ CheckPaymasterDeposit(t) \/ ReadPool(t) \/ CheckRole(t)
             \/ CheckMultipleRoles(t) \/ UpdateSeenStatus(t) \/ FindEntryToRemove(t)
             \/ FindEntryToUpdate(t) \/ FindPending(t) \/ FindOpsToBan(t)
             \/ CrashedHandleOps(t)
      PROVE  Gains
  BY <1>1, <1>8 DEF CheckPaymasterDeposit, ReadPool, CheckRole, CheckMultipleRoles,
     UpdateSeenStatus, FindEntryToRemove, FindEntryToUpdate, FindPending, FindOpsToBan,
     CrashedHandleOps
<1>9. CASE ClearReputation \/ UNCHANGED vars
  BY <1>1, <1>9 DEF ClearReputation, vars
<1> QED
  BY <1>3, <1>4, <1>5, <1>6, <1>7, <1>8, <1>9 DEF Next, Begin, Continue

LEMMA DepositStep ==
  ASSUME Alone, TypeOK, SolventInv, [Next]_vars
  PROVE  DepositInv'
\* The only call becomes r.
<1>1. ASSUME NEW t \in Tasks, NEW r, Become(t, r),
             r.pc \in Writing =>
               /\ r.op \in Op
               /\ r.op \in Present(standardPool') \/ DepositRoom(standardPool', r.op)
      PROVE  DepositInv'
  BY <1>1 DEF DepositInv, Alone, Become, TypeOK
<1>2. ASSUME NEW t \in Tasks, NEW r, Become(t, r), r.pc \notin Writing
      PROVE  DepositInv'
  BY <1>1, <1>2
<1>3. ASSUME NEW t \in Tasks, CheckPaymasterDeposit(t) PROVE DepositInv'
  <2>1. PICK op \in Op : DepositCovers(standardPool, op) /\ Become(t, Call("readPool", op))
    BY <1>3 DEF CheckPaymasterDeposit
  <2>2. Call("readPool", op).op = op /\ standardPool' = standardPool
    BY <1>3 DEF Call, Idle, CheckPaymasterDeposit
  <2>3. DepositRoom(standardPool, op)
    BY <2>1, DepositRoomFound DEF SolventInv
  <2> QED
    BY <1>1, <2>1, <2>2, <2>3
<1>4. ASSUME NEW t \in Tasks, ReadPool(t) \/ CheckRole(t) \/ CheckMultipleRoles(t)
      PROVE  DepositInv'
  <2>1. /\ task[t] \in Task /\ standardPool' = standardPool
        /\ task[t].op \in Op
        /\ task[t].op \in Present(standardPool) \/ DepositRoom(standardPool, task[t].op)
    BY <1>4 DEF TypeOK, SolventInv, DepositInv, Writing, ReadPool, CheckRole,
                CheckMultipleRoles
  <2>2. \/ Become(t, Idle)
        \/ \E pc, k : Become(t, At(t, pc, k))
        \/ \E old : Become(t, Replacing(t, old))
    BY <1>4 DEF ReadPool, CheckRole, CheckMultipleRoles
  <2>3. /\ \A pc, k : At(t, pc, k).op = task[t].op
        /\ \A old : Replacing(t, old).op = task[t].op
        /\ Idle.pc \notin Writing
    BY <2>1 DEF At, Replacing, Idle, Task, Writing
  <2> QED
    BY <1>1, <1>2, <2>1, <2>2, <2>3
<1>5. ASSUME NEW t \in Tasks, FindEntryToUpdate(t) PROVE DepositInv'
  <2>1. PICK o \in Present(standardPool), s \in {"pending", "failed"} :
          Become(t, [Idle EXCEPT !.pc = "setStatus", !.op = o, !.status = s])
    BY <1>5 DEF FindEntryToUpdate, LookUp, FindBySenderNonce
  <2>2. /\ [Idle EXCEPT !.pc = "setStatus", !.op = o, !.status = s].op = o
        /\ standardPool' = standardPool /\ o \in Op
    BY <1>5, <2>1 DEF Idle, FindEntryToUpdate, Present
  <2> QED
    BY <1>1, <2>1, <2>2
<1>6. ASSUME NEW t \in Tasks, DoUpdateMempoolState(t) \/ UpdateSeenStatus(t)
      PROVE  DepositInv'
  <2>1. \A k : At(t, "seen", k).pc \notin Writing /\ Idle.pc \notin Writing
    BY DEF TypeOK, At, Task, Idle, Writing
  <2>2. \E k : Become(t, Idle) \/ Become(t, At(t, "seen", k))
    BY <1>6 DEF DoUpdateMempoolState, UpdateSeenStatus
  <2> QED
    BY <1>2, <2>1, <2>2
<1>7. ASSUME NEW t \in Tasks, FindEntryToRemove(t) \/ FindPending(t) \/ FindOpsToBan(t)
      PROVE  DepositInv'
  <2>1. /\ \A op : Call("remove", op).pc \notin Writing
        /\ \A S : [Idle EXCEPT !.pc = "take", !.hashes = S].pc \notin Writing
        /\ \A a, S : [Idle EXCEPT !.pc = "banRemove", !.addr = a, !.hashes = S].pc \notin Writing
    BY DEF Call, Idle, Writing
  <2>2. \/ \E op : Become(t, Call("remove", op))
        \/ \E S : Become(t, [Idle EXCEPT !.pc = "take", !.hashes = S])
        \/ \E a, S : Become(t, [Idle EXCEPT !.pc = "banRemove", !.addr = a, !.hashes = S])
    BY <1>7 DEF FindEntryToRemove, FindPending, FindOpsToBan
  <2> QED
    BY <1>2, <2>1, <2>2
<1>8. ASSUME NEW t \in Tasks,
             \/ RemoveUserOp(t) \/ UpdateEntryStatus(t) \/ MarkBundling(t)
             \/ RemoveUserOpsForBannedAddr(t) \/ CrashedHandleOps(t)
      PROVE  DepositInv'
  <2>1. \E a : \/ Become(t, Idle)
               \/ Become(t, [Idle EXCEPT !.pc = "banMark", !.addr = a])
    BY <1>8 DEF RemoveUserOp, UpdateEntryStatus, MarkBundling,
                RemoveUserOpsForBannedAddr, CrashedHandleOps
  <2>2. \A a : /\ Idle.pc \notin Writing
               /\ [Idle EXCEPT !.pc = "banMark", !.addr = a].pc \notin Writing
    BY DEF Idle, Writing
  <2> QED
    BY <1>2, <2>1, <2>2
<1>9. CASE ClearMempool
  <2>1. Present(standardPool') = {} /\ task' = task
    BY <1>9 DEF ClearMempool, NewPool, EmptyPool, Present
  <2>2. ASSUME NEW t \in Tasks, task'[t].pc \in Writing
        PROVE  task'[t].op \in Op /\ DepositRoom(standardPool', task'[t].op)
    <3>1. PICK op \in Op : /\ op = task[t].op
                           /\ op \in Present(standardPool) \/ DepositRoom(standardPool, op)
      BY <2>1, <2>2 DEF SolventInv, DepositInv
    <3>2. CASE op \in Present(standardPool)
      <4>1. DepositRoom(standardPool', op)
        BY <2>1, <3>2, RoomInEmptyPool
      <4> QED
        BY <2>1, <3>1, <4>1
    <3>3. CASE DepositRoom(standardPool, op)
      <4>1. DepositRoom(standardPool', op)
        BY <2>1, <3>3, DepositRoomShrinks DEF SolventInv, PoolFinite
      <4> QED
        BY <2>1, <3>1, <4>1
    <3> QED
      BY <3>1, <3>2, <3>3
  <2> QED
    BY <2>2 DEF DepositInv
<1>10. CASE ClearReputation \/ UNCHANGED vars
  BY <1>10 DEF ClearReputation, vars, SolventInv, DepositInv
<1> QED
  BY <1>3, <1>4, <1>5, <1>6, <1>7, <1>8, <1>9, <1>10 DEF Next, Begin, Continue

LEMMA StaysFinite ==
  ASSUME PoolFinite, Gains
  PROVE  PoolFinite'
<1>1. PICK x : Present(standardPool') \subseteq Present(standardPool) \cup {x}
  BY DEF Gains
<1>2. IsFiniteSet(Present(standardPool) \cup {x})
  BY FS_AddElement DEF PoolFinite
<1> QED
  BY <1>1, <1>2, FS_Subset DEF PoolFinite

\* An entry that was there gains the new operation among those as dear only if
\* it costs no more itself, and then the new one's check covers it.
LEMMA DearerStep ==
  ASSUME SolventInv, Gains
  PROVE  DepositCoversDearer'
<1> SUFFICES ASSUME NEW e \in Present(standardPool'), Paymaster[e] # NoAddress
             PROVE  MaxCost[e] * Cardinality(AsDear(e)') <= Deposit[Paymaster[e]]
  BY DEF DepositCoversDearer, AsDear, SpelledAlike
<1> DEFINE next == AsDear(e)'
           D == Deposit[Paymaster[e]]
<1>1. e \in Op /\ Paymaster[e] \in Address /\ MaxCost[e] \in Nat /\ D \in Nat
  BY OpAssumption DEF Present
<1>2. next = {o \in Present(standardPool') : /\ Paymaster[o] = Paymaster[e]
                                             /\ MaxCost[o] >= MaxCost[e]}
  BY DEF AsDear, SpelledAlike
<1>3. IsFiniteSet(AsDear(e)) /\ Cardinality(AsDear(e)) \in Nat
  BY FS_Subset, FS_CardinalityType DEF SolventInv, PoolFinite, AsDear, SpelledAlike
<1>4. ASSUME e \in Present(standardPool), next \subseteq AsDear(e)
      PROVE  MaxCost[e] * Cardinality(next) <= D
  <2>1. Cardinality(next) <= Cardinality(AsDear(e)) /\ Cardinality(next) \in Nat
    <3> HIDE DEF next
    <3> QED
      BY <1>3, <1>4, FS_Subset, FS_CardinalityType
  <2>2. MaxCost[e] * Cardinality(AsDear(e)) <= D
    BY <1>4 DEF SolventInv, DepositCoversDearer
  <2> QED
    BY <1>1, <1>3, <2>1, <2>2, CostLess
<1>5. ASSUME Present(standardPool') \subseteq Present(standardPool)
      PROVE  MaxCost[e] * Cardinality(next) <= D
  BY <1>2, <1>4, <1>5 DEF AsDear, SpelledAlike
<1>6. ASSUME NEW op \in Op, DepositRoom(standardPool, op),
             Present(standardPool') \subseteq Present(standardPool) \cup {op}
      PROVE  MaxCost[e] * Cardinality(next) <= D
  <2>1. MaxCost[op] \in Nat
    BY OpAssumption
  <2>2. CASE op \notin next
    <3>1. e \in next
      BY <1>1, <1>2
    <3>2. e \in Present(standardPool) /\ next \subseteq AsDear(e)
      BY <1>2, <1>6, <2>2, <3>1 DEF AsDear, SpelledAlike
    <3> QED
      BY <1>4, <3>2
  <2>3. CASE op \in next
    <3> DEFINE others == Others(standardPool, op)
    <3>1. Paymaster[op] = Paymaster[e] /\ MaxCost[e] <= MaxCost[op]
      BY <1>1, <1>2, <2>1, <2>3
    <3>2. next \subseteq others \cup {op}
      BY <1>2, <1>6, <3>1 DEF Others
    <3>3. IsFiniteSet(others) /\ op \notin others
      BY FS_Subset DEF SolventInv, PoolFinite, Others
    <3>4. /\ Cardinality(next) \in Nat /\ Cardinality(others) \in Nat
          /\ Cardinality(next) <= 1 + Cardinality(others)
      <4> HIDE DEF next, others
      <4>1. /\ IsFiniteSet(others \cup {op}) /\ Cardinality(others) \in Nat
            /\ Cardinality(others \cup {op}) = Cardinality(others) + 1
        BY <3>3, FS_AddElement, FS_CardinalityType
      <4>2. Cardinality(next) \in Nat /\ Cardinality(next) <= Cardinality(others \cup {op})
        BY <3>2, <4>1, FS_Subset, FS_CardinalityType
      <4> QED
        BY <4>1, <4>2
    <3>5. MaxCost[op] * (1 + Cardinality(others)) <= D
      BY <1>1, <1>6, <3>1, AddressAssumption DEF DepositRoom
    <3>6. MaxCost[op] * Cardinality(next) <= D
      <4>1. 1 + Cardinality(others) \in Nat
        BY <3>4
      <4> QED
        BY <1>1, <2>1, <3>4, <3>5, <4>1, CostLess
    <3>7. Cardinality(next) * MaxCost[op] <= D
      <4> HIDE DEF next
      <4> QED
        BY <2>1, <3>4, <3>6
    <3>8. Cardinality(next) * MaxCost[e] <= D
      BY <1>1, <2>1, <3>1, <3>4, <3>7, CostLess
    <3> QED
      <4> HIDE DEF next
      <4> QED
        BY <1>1, <3>4, <3>8
  <2> QED
    BY <2>2, <2>3
<1>7. ASSUME NEW t \in Tasks, task[t].pc \in Writing,
             Present(standardPool') \subseteq Present(standardPool) \cup {task[t].op}
      PROVE  MaxCost[e] * Cardinality(next) <= D
  <2>1. PICK op \in Op : /\ op = task[t].op
                         /\ op \in Present(standardPool) \/ DepositRoom(standardPool, op)
    BY <1>7 DEF SolventInv, DepositInv
  <2>2. CASE op \in Present(standardPool)
    BY <1>5, <1>7, <2>1, <2>2
  <2>3. CASE DepositRoom(standardPool, op)
    BY <1>6, <1>7, <2>1, <2>3
  <2> QED
    BY <2>1, <2>2, <2>3
<1> HIDE DEF next, D
<1>8. MaxCost[e] * Cardinality(next) <= D
  BY <1>5, <1>7 DEF Gains
<1> QED
  BY <1>8 DEF next, D

\* With calls one at a time, bans and clears included, and whatever the
\* operations cost: the deposit of a paymaster pays for each entry as often as
\* there are entries of it as dear.
THEOREM DepositsCoverDearer ==
  ASSUME Alone
  PROVE  Spec => []DepositCoversDearer
<1>1. Init => SolventInv
  <2> SUFFICES ASSUME Init PROVE SolventInv
    OBVIOUS
  <2>1. Present(standardPool) = {} /\ \A t \in Tasks : task[t] = Idle
    BY DEF Init, Present, EmptyPool
  <2> QED
    BY <2>1, FS_EmptySet DEF SolventInv, PoolFinite, DepositInv, DepositCoversDearer,
       Idle, Writing
<1>2. TypeOK /\ SolventInv /\ [Next]_vars => SolventInv'
  <2> SUFFICES ASSUME TypeOK, SolventInv, [Next]_vars PROVE SolventInv'
    OBVIOUS
  <2>1. Gains /\ DepositInv'
    BY PoolGains, DepositStep
  <2>2. PoolFinite' /\ DepositCoversDearer'
    BY <2>1, StaysFinite, DearerStep DEF SolventInv
  <2> QED
    BY <2>1, <2>2 DEF SolventInv
<1>3. SolventInv => DepositCoversDearer
  BY DEF SolventInv
<1> QED
  BY <1>1, <1>2, <1>3, TypeCorrect, PTL DEF Spec

------------------------------------------------------------------------------
(***************************************************************************)
(* The roles of addresses, with one call at a time and any calls.  A       *)
(* replacement skips checkMultipleRolesViolation, so it must bring no new   *)
(* entity (README.md, section 4, has the instance where it does).          *)
(***************************************************************************)
ReplacementsKeepEntities ==
  \A o, n \in Op : SameSlot(o, n) /\ FeesReplace(n, o) =>
    LowerAll({Paymaster[n], Factory[n]}) \subseteq LowerAll({Paymaster[o], Factory[o]})

Clash(o, p) == Lower[Sender[o]] \in LowerAll({Paymaster[p], Factory[p]})
Apart(o, S) == \A p \in S : p # o => ~ Clash(o, p) /\ ~ Clash(p, o)

\* The check was made on a pool that held every entry there still is, and what a
\* call is about to write is apart from all that stays.
Fits(r, pool) ==
  /\ r.pc = "readPool" => r.op \in Op
  /\ r.pc = "write" => Apart(r.op, Present(pool) \ {r.old})
  /\ r.pc = "setStatus" => Apart(r.op, Present(pool))
RefCovers(t) ==
  task[t].pc \in {"role", "roles"} =>
    Present(standardPool) \subseteq Present(PoolSeenBy(t))

RolesInv == /\ RolesDisjoint
            /\ \A t \in Tasks : Fits(task[t], standardPool) /\ RefCovers(t)

LEMMA NoViolation ==
  ASSUME NEW pool, NEW op, ~ MultipleRolesViolation(pool, op)
  PROVE  Apart(op, Present(pool))
<1> SUFFICES ASSUME NEW p \in Present(pool) PROVE ~ Clash(op, p) /\ ~ Clash(p, op)
  BY DEF Apart
<1>1. LowerAll({Paymaster[p], Factory[p]}) \subseteq GetKnownEntities(pool)
  BY DEF LowerAll, GetKnownEntities
<1>2. Lower[Sender[p]] \in GetKnownSenders(pool)
  BY DEF GetKnownSenders
<1> QED
  BY <1>1, <1>2 DEF MultipleRolesViolation, Clash

\* An entry may be written that is apart from those that stay.
LEMMA RolesWrite ==
  ASSUME RolesDisjoint, NEW op, NEW S, Apart(op, Present(standardPool) \ S),
         Present(standardPool') \subseteq (Present(standardPool) \ S) \cup {op}
  PROVE  RolesDisjoint'
<1> SUFFICES ASSUME NEW o \in Present(standardPool'), NEW p \in Present(standardPool'),
                    o # p
             PROVE  ~ Clash(o, p)
  BY DEF RolesDisjoint, Clash
<1>1. CASE o = op \/ p = op
  BY <1>1 DEF Apart
<1>2. CASE o # op /\ p # op
  BY <1>2 DEF RolesDisjoint, Clash
<1> QED
  BY <1>1, <1>2

LEMMA RolesStep ==
  ASSUME Alone, ReplacementsKeepEntities, TypeOK, CapturedOK, RolesInv, [Next]_vars
  PROVE  RolesInv'
<1>0. standardPool \in [Op -> Status \cup {"absent"}]
  BY DEF TypeOK, Pool
\* The only call becomes r; the others are none.
<1>1. ASSUME NEW t \in Tasks, NEW r, Become(t, r), RolesDisjoint',
             Fits(r, standardPool'),
             r.pc \in {"role", "roles"} =>
               Present(standardPool') \subseteq Present(PoolSeenBy(t)')
      PROVE  RolesInv'
  <2>1. Tasks = {t} /\ task'[t] = r
    BY <1>1 DEF Alone, Become, TypeOK
  <2> QED
    BY <1>1, <2>1 DEF RolesInv, RefCovers
<1>2. ASSUME NEW t \in Tasks, NEW r, Become(t, r), RolesDisjoint',
             r.pc \notin {"readPool", "role", "roles", "write", "setStatus"}
      PROVE  RolesInv'
  BY <1>1, <1>2 DEF Fits
<1>3. Present(standardPool') \subseteq Present(standardPool) => RolesDisjoint'
  BY DEF RolesInv, RolesDisjoint
<1>4. ASSUME NEW t \in Tasks, ReadPool(t) PROVE RolesInv'
  <2> DEFINE op == task[t].op
             matches == FindBySenderNonce(standardPool, op)
  <2>1. /\ task[t] \in Task /\ poolRef \in [Tasks -> Pool \cup {NoRef, Current}]
        /\ standardPool' = standardPool /\ RolesDisjoint'
    BY <1>3, <1>4 DEF TypeOK, ReadPool
  <2>2. CASE Become(t, At(t, "role", 1)) /\ poolRef' = [poolRef EXCEPT ![t] = Current]
    <3>1. At(t, "role", 1).pc = "role" /\ PoolSeenBy(t)' = standardPool'
      BY <2>1, <2>2 DEF At, Task, PoolSeenBy
    <3> QED
      BY <1>1, <2>1, <2>2, <3>1 DEF Fits
  <2>3. ASSUME NEW old \in matches, FeesReplace(op, old), Become(t, Replacing(t, old))
        PROVE  RolesInv'
    <3>1. /\ Replacing(t, old).pc = "write"
          /\ Replacing(t, old).op = op
          /\ Replacing(t, old).old = old
      BY <2>1 DEF Replacing, Task
    <3>2. Apart(op, Present(standardPool) \ {old})
      <4>1. op \in Op
        BY <1>4 DEF ReadPool, RolesInv, Fits
      <4>2. /\ old \in Present(standardPool) /\ SameSlot(old, op) /\ old \in Op
            /\ Lower[Sender[old]] = Lower[Sender[op]]
        BY <2>3 DEF FindBySenderNonce, SameSlot, Present
      <4>3. LowerAll({Paymaster[op], Factory[op]})
              \subseteq LowerAll({Paymaster[old], Factory[old]})
        BY <2>3, <4>1, <4>2 DEF ReplacementsKeepEntities
      <4>4. \A p \in Present(standardPool) \ {old} : ~ Clash(old, p) /\ ~ Clash(p, old)
        BY <4>2 DEF RolesInv, RolesDisjoint, Clash
      <4> QED
        BY <4>2, <4>3, <4>4 DEF Apart, Clash
    <3> QED
      BY <1>1, <2>1, <2>3, <3>1, <3>2 DEF Fits
  <2>4. CASE Become(t, Idle)
    BY <1>2, <2>1, <2>4 DEF Idle
  <2> QED
    BY <1>4, <2>2, <2>3, <2>4 DEF ReadPool
<1>5. ASSUME NEW t \in Tasks, CheckRole(t) PROVE RolesInv'
  <2>1. /\ task[t] \in Task /\ task[t].pc = "role"
        /\ standardPool' = standardPool /\ RolesDisjoint'
    BY <1>3, <1>5 DEF TypeOK, CheckRole
  <2>2. CASE Become(t, Idle)
    BY <1>2, <2>1, <2>2 DEF Idle
  <2>3. ASSUME NEW pc \in {"role", "roles"}, NEW k, Become(t, At(t, pc, k)),
               UNCHANGED poolRef
        PROVE  RolesInv'
    <3>1. At(t, pc, k).pc = pc
      BY <2>1 DEF At, Task
    <3>2. PoolSeenBy(t)' = PoolSeenBy(t)
      BY <2>1, <2>3 DEF PoolSeenBy
    <3>3. Present(standardPool) \subseteq Present(PoolSeenBy(t))
      BY <2>1 DEF RolesInv, RefCovers
    <3> QED
      BY <1>1, <2>1, <2>3, <3>1, <3>2, <3>3 DEF Fits
  <2>4. \/ Become(t, Idle)
        \/ UNCHANGED poolRef /\ \E k : \E pc \in {"role", "roles"} : Become(t, At(t, pc, k))
    BY <1>5 DEF CheckRole
  <2> QED
    BY <2>2, <2>3, <2>4
<1>6. ASSUME NEW t \in Tasks, CheckMultipleRoles(t) PROVE RolesInv'
  <2> DEFINE op == task[t].op
  <2>1. /\ task[t] \in Task /\ task[t].pc = "roles"
        /\ standardPool' = standardPool /\ RolesDisjoint'
    BY <1>3, <1>6 DEF TypeOK, CheckMultipleRoles
  <2>2. CASE Become(t, Idle)
    BY <1>2, <2>1, <2>2 DEF Idle
  <2>3. CASE ~ MultipleRolesViolation(PoolSeenBy(t), op) /\ Become(t, At(t, "write", 0))
    <3>1. Apart(op, Present(PoolSeenBy(t)))
      BY <2>3, NoViolation
    <3>2. Present(standardPool) \subseteq Present(PoolSeenBy(t))
      BY <2>1 DEF RolesInv, RefCovers
    <3>3. /\ At(t, "write", 0).pc = "write"
          /\ At(t, "write", 0).op = op
      BY <2>1 DEF At, Task
    <3>4. Fits(At(t, "write", 0), standardPool')
      BY <2>1, <3>1, <3>2, <3>3 DEF Fits, Apart
    <3> QED
      BY <1>1, <2>1, <2>3, <3>3, <3>4
  <2> QED
    BY <1>6, <2>2, <2>3 DEF CheckMultipleRoles
<1>7. ASSUME NEW t \in Tasks, DoUpdateMempoolState(t) PROVE RolesInv'
  <2> DEFINE op == task[t].op
             old == task[t].old
  <2>1. task[t] \in Task /\ task[t].pc = "write"
    BY <1>7 DEF TypeOK, DoUpdateMempoolState
  <2>2. Apart(op, Present(standardPool) \ {old})
    BY <2>1 DEF RolesInv, Fits
  <2>3. standardPool' = [Without(standardPool, {old}) EXCEPT ![op] = "pending"]
    <3>1. old = NoOp => Without(standardPool, {old}) = standardPool
      BY <1>0, OpAssumption DEF Without
    <3> QED
      BY <1>7, <3>1 DEF DoUpdateMempoolState, NewPool
  <2>4. Present(standardPool') \subseteq (Present(standardPool) \ {old}) \cup {op}
    BY <1>0, <2>3 DEF Present, Without
  <2>5. RolesDisjoint'
    BY <2>2, <2>4, RolesWrite DEF RolesInv
  <2>6. \A k : At(t, "seen", k).pc = "seen"
    BY <2>1 DEF At, Task
  <2>7. \E k : Become(t, At(t, "seen", k))
    BY <1>7 DEF DoUpdateMempoolState
  <2> QED
    BY <1>2, <2>5, <2>6, <2>7
<1>8. ASSUME NEW t \in Tasks, UpdateEntryStatus(t) PROVE RolesInv'
  <2>1. /\ task[t].pc = "setStatus" /\ Become(t, Idle)
        /\ standardPool' = [standardPool EXCEPT ![task[t].op] = task[t].status]
    BY <1>8 DEF UpdateEntryStatus, NewPool
  <2>2. Apart(task[t].op, Present(standardPool) \ {})
    BY <2>1 DEF RolesInv, Fits
  <2>3. Present(standardPool') \subseteq (Present(standardPool) \ {}) \cup {task[t].op}
    BY <1>0, <2>1 DEF Present
  <2>4. RolesDisjoint'
    BY <2>2, <2>3, RolesWrite DEF RolesInv
  <2>5. Idle.pc = "idle"
    BY DEF Idle
  <2> QED
    BY <1>2, <2>1, <2>4, <2>5
<1>9. ASSUME NEW t \in Tasks, FindEntryToUpdate(t) PROVE RolesInv'
  <2>1. PICK o \in Present(standardPool), s \in {"pending", "failed"} :
          Become(t, [Idle EXCEPT !.pc = "setStatus", !.op = o, !.status = s])
    BY <1>9 DEF FindEntryToUpdate, LookUp, FindBySenderNonce
  <2>2. standardPool' = standardPool /\ RolesDisjoint'
    BY <1>3, <1>9 DEF FindEntryToUpdate
  <2> DEFINE r == [Idle EXCEPT !.pc = "setStatus", !.op = o, !.status = s]
  <2>3. r.pc = "setStatus" /\ r.op = o
    BY DEF Idle
  <2>4. Apart(o, Present(standardPool))
    BY <2>1 DEF RolesInv, RolesDisjoint, Apart, Clash
  <2> HIDE DEF r
  <2>5. Fits(r, standardPool')
    BY <2>2, <2>3, <2>4 DEF Fits, Apart
  <2> QED
    BY <1>1, <2>1, <2>2, <2>3, <2>5 DEF r
<1>10. ASSUME NEW t \in Tasks,
              \/ FindEntryToRemove(t) \/ FindPending(t)
              \/ FindOpsToBan(t) \/ UpdateSeenStatus(t) \/ CrashedHandleOps(t)
              \/ RemoveUserOp(t) \/ MarkBundling(t) \/ RemoveUserOpsForBannedAddr(t)
       PROVE  RolesInv'
  <2> DEFINE others == {"idle", "seen", "remove", "take", "banRemove", "banMark"}
  <2>1. PICK r : Become(t, r) /\ r.pc \in others
    <3>1. /\ Idle.pc \in others
          /\ \A k : At(t, "seen", k).pc \in others
          /\ \A op : Call("remove", op).pc \in others
          /\ \A S : [Idle EXCEPT !.pc = "take", !.hashes = S].pc \in others
          /\ \A a, S : [Idle EXCEPT !.pc = "banRemove", !.addr = a, !.hashes = S].pc \in others
          /\ \A a : [Idle EXCEPT !.pc = "banMark", !.addr = a].pc \in others
      BY DEF TypeOK, Idle, At, Task, Call
    <3>2. \/ Become(t, Idle)
          \/ \E k : Become(t, At(t, "seen", k))
          \/ \E op : Become(t, Call("remove", op))
          \/ \E S : Become(t, [Idle EXCEPT !.pc = "take", !.hashes = S])
          \/ \E a, S : Become(t, [Idle EXCEPT !.pc = "banRemove", !.addr = a, !.hashes = S])
          \/ \E a : Become(t, [Idle EXCEPT !.pc = "banMark", !.addr = a])
      BY <1>10 DEF FindEntryToRemove, FindPending, FindOpsToBan,
                   UpdateSeenStatus, CrashedHandleOps, RemoveUserOp, MarkBundling,
                   RemoveUserOpsForBannedAddr
    <3> HIDE DEF others
    <3> QED
      BY <3>1, <3>2
  <2>2. Present(standardPool') \subseteq Present(standardPool)
    <3>1. CASE MarkBundling(t)
      <4>1. PICK S \in SUBSET Present(standardPool) : standardPool' = Mark(standardPool, S)
        BY <3>1 DEF MarkBundling, MutatePool
      <4> QED
        BY <4>1 DEF Present, Mark
    <3>2. CASE RemoveUserOp(t) \/ RemoveUserOpsForBannedAddr(t)
      BY <3>2 DEF RemoveUserOp, RemoveUserOpsForBannedAddr, MutatePool, Present, Without
    <3>3. CASE \/ FindEntryToRemove(t) \/ FindPending(t)
               \/ FindOpsToBan(t) \/ UpdateSeenStatus(t) \/ CrashedHandleOps(t)
      BY <3>3 DEF FindEntryToRemove, FindPending, FindOpsToBan,
                  UpdateSeenStatus, CrashedHandleOps
    <3> QED
      BY <1>10, <3>1, <3>2, <3>3
  <2> QED
    BY <1>2, <1>3, <2>1, <2>2
<1>11. ASSUME NEW t \in Tasks, CheckPaymasterDeposit(t) PROVE RolesInv'
  <2>1. PICK op \in Op : Become(t, Call("readPool", op))
    BY <1>11 DEF CheckPaymasterDeposit
  <2>2. Call("readPool", op).pc = "readPool" /\ Call("readPool", op).op = op
    BY DEF Call, Idle
  <2>3. RolesDisjoint'
    BY <1>3, <1>11 DEF CheckPaymasterDeposit
  <2> QED
    BY <1>1, <2>1, <2>2, <2>3 DEF Fits
<1>12. CASE ClearMempool
  <2>1. Present(standardPool') = {} /\ task' = task
    BY <1>12 DEF ClearMempool, NewPool, EmptyPool, Present
  <2> QED
    BY <1>3, <2>1 DEF RolesInv, Fits, Apart, RefCovers
<1>13. CASE ClearReputation \/ UNCHANGED vars
  BY <1>13 DEF ClearReputation, vars, RolesInv, RolesDisjoint, Fits, RefCovers, PoolSeenBy
<1> QED
  BY <1>4, <1>5, <1>6, <1>7, <1>8, <1>9, <1>10, <1>11, <1>12, <1>13
  DEF Next, Begin, Continue

\* With calls one at a time, bans and clears included, and replacements that bring
\* no new entity, no address is the sender of one entry and an entity of another.
THEOREM RolesApart ==
  ASSUME Alone, ReplacementsKeepEntities
  PROVE  Spec => []RolesDisjoint
<1>1. Init => RolesInv
  BY DEF Init, Idle, RolesInv, RolesDisjoint, Fits, RefCovers, Present, EmptyPool
<1>2. TypeOK /\ CapturedOK /\ RolesInv /\ [Next]_vars => RolesInv'
  BY RolesStep
<1>3. RolesInv => RolesDisjoint
  BY DEF RolesInv
<1> QED
  BY <1>1, <1>2, <1>3, TypeCorrect, CapturedCorrect, PTL DEF Spec

------------------------------------------------------------------------------
(***************************************************************************)
(* What addresses were seen, with calls one at a time and no clears.  An   *)
(* entry of the pool has been seen once for each role but the sender: a    *)
(* mark <<o, j>> for its aggregator, paymaster and factory, j from 2 to 4  *)
(* as in updateSeenStatus.  While that goes on, the call in flight has not *)
(* yet given the marks of its own operation and still has to take back     *)
(* those of the one it replaced.                                           *)
(***************************************************************************)
SeenAs(o, j) == <<Sender[o], Aggregator[o], Paymaster[o], Factory[o]>>[j]

NotYet(r) == IF r.pc = "seen" THEN {r.op} \X {j \in 2..4 : j + 4 >= r.step} ELSE {}
Still(r) == IF r.pc = "seen" /\ r.step <= 4
            THEN {r.old} \X {j \in 2..4 : j >= r.step} ELSE {}
Marks(r, pool) == ((Present(pool) \X (2..4)) \ NotYet(r)) \cup Still(r)
MarksOf(r, pool, a) ==
  {x \in Marks(r, pool) : /\ SeenAs(x[1], x[2]) # NoAddress
                          /\ Lower[SeenAs(x[1], x[2])] = a}

\* A call in updateSeenStatus: what it replaced is gone, or is what it wrote.
SeenOK(r, pool) ==
  r.pc = "seen" => /\ r.step \in 1..8
                   /\ r.op \in Op
                   /\ r.step <= 4 => /\ r.old \in Op
                                     /\ r.old = r.op \/ r.old \notin Present(pool)

SeenInv ==
  \A t \in Tasks :
    /\ SeenOK(task[t], standardPool)
    /\ \A a \in Address :
         Cardinality(MarksOf(task[t], standardPool, a)) <= reputationEntries[a].opsSeen

\* What the steps keep, bans included, that the marks rest on.
SightInv == SlotInv /\ FoundInv /\ PoolFinite

LEMMA MarksFinite ==
  ASSUME NEW r, NEW pool, NEW a, IsFiniteSet(Present(pool))
  PROVE  IsFiniteSet(MarksOf(r, pool, a)) /\ Cardinality(MarksOf(r, pool, a)) \in Nat
<1> DEFINE all == (Present(pool) \cup {r.old}) \X (2..4)
<1>1. IsFiniteSet(Present(pool) \cup {r.old}) /\ IsFiniteSet(2..4)
  <2>1. 2 \in Int /\ 4 \in Int
    OBVIOUS
  <2> QED
    BY <2>1, FS_AddElement, FS_Interval
<1>2. IsFiniteSet(all)
  BY <1>1, FS_Product
<1>3. MarksOf(r, pool, a) \subseteq all
  BY DEF MarksOf, Marks, NotYet, Still
<1> QED
  BY <1>2, <1>3, FS_Subset, FS_CardinalityType

\* One await of updateSeenStatus gives or takes back exactly the mark it is at.
LEMMA SeenUpdateMarks ==
  ASSUME TypeOK, SightInv, SeenInv, NEW t \in Tasks, UpdateSeenStatus(t),
         NEW r, SeenOK(r, standardPool),
         \/ /\ task[t].step = 8
            /\ r.pc # "seen"
         \/ /\ task[t].step < 8
            /\ r.pc = "seen" /\ r.op = task[t].op /\ r.old = task[t].old
            /\ r.step = task[t].step + 1,
         NEW a \in Address
  PROVE  Cardinality(MarksOf(r, standardPool, a)) <= reputationEntries'[a].opsSeen
<1> DEFINE now == task[t]
           k == now.step
           pool == standardPool
           old == MarksOf(now, pool, a)
           new == MarksOf(r, pool, a)
           seen == reputationEntries[a].opsSeen
           j == ((k - 1) % 4) + 1
           subject == IF k <= 4 THEN now.old ELSE now.op
           addr == SeenAs(subject, j)
           x == <<subject, j>>
           after == reputationEntries'[a].opsSeen
<1> SUFFICES Cardinality(new) <= after
  OBVIOUS
<1>1. /\ now.pc = "seen" /\ k \in 1..8 /\ now.op \in Op
      /\ k <= 4 => now.old \in Op /\ (now.old = now.op \/ now.old \notin Present(pool))
  BY DEF UpdateSeenStatus, SeenInv, SeenOK
<1>2. /\ IsFiniteSet(old) /\ Cardinality(old) \in Nat
      /\ IsFiniteSet(new) /\ Cardinality(new) \in Nat
  BY MarksFinite DEF SightInv, PoolFinite
<1>3. /\ seen \in Nat /\ Cardinality(old) <= seen
      /\ reputationEntries \in [Address -> ReputationEntry]
  BY DEF TypeOK, SeenInv, ReputationEntry
<1>4. subject \in Op /\ j \in 1..4
  <2>1. subject \in Op
    BY <1>1
  <2>2. k \in {1, 2, 3, 4, 5, 6, 7, 8}
    BY <1>1
  <2> HIDE DEF k
  <2>3. j \in 1..4
    BY ONLY <2>2
  <2> QED
    BY <2>1, <2>3
<1>5. addr \in Address \cup {NoAddress} /\ (addr \in Address => addr # NoAddress)
  <2>1. {Sender[subject], Aggregator[subject], Paymaster[subject], Factory[subject]}
          \subseteq Address \cup {NoAddress}
    BY <1>4, OpAssumption
  <2>2. j \in {1, 2, 3, 4}
    BY <1>4
  <2> HIDE DEF subject, j
  <2> QED
    BY <2>1, <2>2, AddressAssumption DEF SeenAs
<1>6. addr \in Address => Lower[addr] \in Address
  BY AddressAssumption
<1>7. \/ reputationEntries' = reputationEntries /\ (k \in {1, 5} \/ addr = NoAddress)
      \/ /\ reputationEntries' = SeenUpdate(reputationEntries, addr, SeenAction(k))
         /\ k \in {1, 5} \/ addr # NoAddress
  BY <1>1 DEF UpdateSeenStatus, SeenAs
<1>8. ASSUME new \subseteq old, after \in Nat, seen <= after
      PROVE  Cardinality(new) <= after
  <2>1. Cardinality(new) <= Cardinality(old)
    BY <1>2, <1>8, FS_Subset
  <2> HIDE DEF new, old, seen, after
  <2> QED
    BY <1>2, <1>3, <1>8, <2>1
\* What is seen afterwards.
<1>9. ASSUME addr \in Address, NEW act,
             reputationEntries' = SeenUpdate(reputationEntries, addr, act)
      PROVE  after =
               IF a # Lower[addr] THEN seen
               ELSE IF act = "increment" THEN seen + 1
               ELSE IF seen = 0 THEN 0 ELSE seen - 1
  BY <1>3, <1>6, <1>9 DEF SeenUpdate
<1>10. CASE k \in {1, 5}
  <2>1. new \subseteq old
    BY <1>1, <1>10 DEF MarksOf, Marks, NotYet, Still
  <2>2. SeenAction(k) = "increment"
    BY <1>10 DEF SeenAction
  <2>3. addr \in Address
    BY <1>4, <1>10, OpAssumption DEF SeenAs
  <2>4. after = seen \/ after = seen + 1
    <3> HIDE DEF addr
    <3> QED
      BY <1>7, <1>9, <2>2, <2>3
  <2> HIDE DEF seen, new, old, after
  <2> QED
    BY <1>3, <1>8, <2>1, <2>4
<1>11. CASE k \in 2..4
  <2>1. SeenAction(k) # "increment" /\ j = k /\ subject = now.old
    BY <1>11 DEF SeenAction
  <2>2. /\ new = old \ {x}
        /\ x \in old <=> addr # NoAddress /\ Lower[addr] = a
    <3>1. x \in Marks(now, pool)
      BY <1>1, <1>11, <2>1 DEF Marks, Still
    <3>2. Marks(r, pool) = Marks(now, pool) \ {x}
      <4>1. NotYet(r) = {now.op} \X (2..4) /\ NotYet(now) = {now.op} \X (2..4)
        BY <1>1, <1>11 DEF NotYet
      <4>2. Still(now) = {now.old} \X {i \in 2..4 : i >= k}
        BY <1>1, <1>11 DEF Still
      <4>3. Still(r) = {now.old} \X {i \in 2..4 : i >= k + 1}
        <5>1. r.pc = "seen" /\ r.old = now.old /\ r.step = k + 1
          BY <1>11
        <5>2. CASE k + 1 <= 4
          BY <5>1, <5>2 DEF Still
        <5>3. CASE k = 4
          BY <5>1, <5>3 DEF Still
        <5> QED
          BY <1>11, <5>2, <5>3
      <4>4. Still(r) = Still(now) \ {x}
        BY <1>11, <2>1, <4>2, <4>3
      <4>5. x \notin (Present(pool) \X (2..4)) \ NotYet(now)
        BY <1>1, <1>11, <2>1, <4>1
      <4> QED
        BY <4>1, <4>4, <4>5 DEF Marks
    <3> QED
      BY <3>1, <3>2 DEF MarksOf
  <2>3. CASE addr = NoAddress
    <3>1. after = seen
      BY <1>7, <1>11, <2>3
    <3>2. new \subseteq old
      BY <2>2
    <3> HIDE DEF new, old, seen, after
    <3> QED
      BY <1>3, <1>8, <3>1, <3>2
  <2>4. CASE addr # NoAddress /\ a # Lower[addr]
    <3>1. after = seen
      BY <1>5, <1>7, <1>9, <1>11, <2>4
    <3>2. new \subseteq old
      BY <2>2
    <3> HIDE DEF new, old, seen, after
    <3> QED
      BY <1>3, <1>8, <3>1, <3>2
  <2>5. CASE addr # NoAddress /\ a = Lower[addr]
    <3>1. after = IF seen = 0 THEN 0 ELSE seen - 1
      <4>1. addr \in Address
        BY <1>5, <2>5
      <4>2. reputationEntries' = SeenUpdate(reputationEntries, addr, SeenAction(k))
        <5> HIDE DEF addr
        <5> QED
          BY <1>7, <1>11, <2>5
      <4> HIDE DEF addr, after, seen
      <4> QED
        BY <1>9, <2>1, <2>5, <4>1, <4>2
    <3>2. Cardinality(new) = Cardinality(old) - 1
      <4>1. x \in old
        BY <2>2, <2>5
      <4> HIDE DEF new, old, x
      <4> QED
        BY <1>2, <2>2, <4>1, FS_RemoveElement
    <3> HIDE DEF new, old, seen, after
    <3> QED
      BY <1>2, <1>3, <3>1, <3>2
  <2> QED
    BY <2>3, <2>4, <2>5
<1>12. CASE k \in 6..8
  <2>1. SeenAction(k) = "increment" /\ j = k - 4 /\ subject = now.op
    BY <1>12 DEF SeenAction
  <2>2. Marks(r, pool) \subseteq Marks(now, pool) \cup {x}
    <3>1. Still(now) = {} /\ Still(r) = {}
      BY <1>1, <1>12 DEF Still
    <3>2. NotYet(now) \subseteq NotYet(r) \cup {x}
      <4>1. NotYet(now) = {now.op} \X {i \in 2..4 : i >= j}
        BY <1>1, <1>12, <2>1 DEF NotYet
      <4>2. CASE k = 8
        BY <2>1, <4>1, <4>2
      <4>3. CASE k # 8
        <5>1. NotYet(r) = {now.op} \X {i \in 2..4 : i >= j + 1}
          BY <1>1, <1>12, <2>1, <4>3 DEF NotYet
        <5> QED
          BY <1>12, <2>1, <4>1, <5>1
      <4> QED
        BY <4>2, <4>3
    <3> QED
      BY <3>1, <3>2 DEF Marks
  <2>3. CASE addr = NoAddress \/ a # Lower[addr]
    <3>1. new \subseteq old
      BY <2>2, <2>3 DEF MarksOf
    <3>2. after = seen
      BY <1>5, <1>7, <1>9, <1>12, <2>3
    <3> HIDE DEF new, old, seen, after
    <3> QED
      BY <1>3, <1>8, <3>1, <3>2
  <2>4. CASE addr # NoAddress /\ a = Lower[addr]
    <3>1. new \subseteq old \cup {x}
      BY <2>2 DEF MarksOf
    <3>2. after = seen + 1
      <4>1. addr \in Address
        BY <1>5, <2>4
      <4>2. reputationEntries' = SeenUpdate(reputationEntries, addr, SeenAction(k))
        <5> HIDE DEF addr
        <5> QED
          BY <1>7, <1>12, <2>4
      <4> HIDE DEF addr, after, seen
      <4> QED
        BY <1>9, <2>1, <2>4, <4>1, <4>2
    <3> HIDE DEF new, old, seen, after, x
    <3>3. /\ IsFiniteSet(old \cup {x})
          /\ Cardinality(old \cup {x}) = IF x \in old THEN Cardinality(old)
                                        ELSE Cardinality(old) + 1
      BY <1>2, FS_AddElement
    <3>4. Cardinality(new) <= Cardinality(old \cup {x})
      BY <3>1, <3>3, FS_Subset
    <3> QED
      BY <1>2, <1>3, <3>2, <3>3, <3>4
  <2> QED
    BY <2>3, <2>4
<1> QED
  BY <1>1, <1>10, <1>11, <1>12

LEMMA SightStep ==
  ASSUME Alone, "clear" \notin Calls, TypeOK, CapturedOK, SightInv, [Next]_vars
  PROVE  SightInv'
<1>1. SlotInv' /\ FoundInv'
  BY SlotStep, FoundStep DEF SightInv
<1>2. PoolFinite'
  BY PoolGains, StaysFinite DEF SightInv
<1> QED
  BY <1>1, <1>2 DEF SightInv

LEMMA SeenStep ==
  ASSUME Alone, "clear" \notin Calls, TypeOK, CapturedOK, SightInv, SeenInv, [Next]_vars
  PROVE  SeenInv'
<1>0. standardPool \in [Op -> Status \cup {"absent"}]
  BY DEF TypeOK, Pool
\* The only call becomes r; the others are none.
<1>1. ASSUME NEW t \in Tasks, NEW r, Become(t, r), SeenOK(r, standardPool'),
             \A a \in Address :
               Cardinality(MarksOf(r, standardPool', a)) <= reputationEntries'[a].opsSeen
      PROVE  SeenInv'
  <2>1. Tasks = {t} /\ task'[t] = r
    BY <1>1 DEF Alone, Become, TypeOK
  <2> QED
    BY <1>1, <2>1 DEF SeenInv
\* It is enough that no marks are added while the reputations stay.
<1>2. ASSUME NEW t \in Tasks, NEW r, Become(t, r), SeenOK(r, standardPool'),
             Marks(r, standardPool') \subseteq Marks(task[t], standardPool),
             UNCHANGED reputationEntries
      PROVE  SeenInv'
  <2>1. ASSUME NEW a \in Address
        PROVE  Cardinality(MarksOf(r, standardPool', a)) <= reputationEntries'[a].opsSeen
    <3> DEFINE old == MarksOf(task[t], standardPool, a)
               new == MarksOf(r, standardPool', a)
               seen == reputationEntries[a].opsSeen
    <3>1. IsFiniteSet(old) /\ Cardinality(old) \in Nat
      BY MarksFinite DEF SightInv, PoolFinite
    <3>2. new \subseteq old
      BY <1>2 DEF MarksOf
    <3>3. seen \in Nat /\ Cardinality(old) <= seen /\ reputationEntries'[a].opsSeen = seen
      BY <1>2 DEF TypeOK, SeenInv, ReputationEntry
    <3>4. Cardinality(new) <= Cardinality(old) /\ Cardinality(new) \in Nat
      BY <3>1, <3>2, FS_Subset, FS_CardinalityType
    <3>5. Cardinality(new) <= seen
      <4> HIDE DEF new, old, seen
      <4> QED
        BY <3>1, <3>3, <3>4
    <3> QED
      BY <3>3, <3>5
  <2> QED
    BY <1>1, <1>2, <2>1
\* Outside updateSeenStatus, that no entry is added.
<1>3. ASSUME NEW t \in Tasks, NEW r, Become(t, r), r.pc # "seen", task[t].pc # "seen",
             Present(standardPool') \subseteq Present(standardPool),
             UNCHANGED reputationEntries
      PROVE  SeenInv'
  BY <1>2, <1>3 DEF SeenOK, Marks, NotYet, Still
<1>4. ASSUME NEW t \in Tasks, DoUpdateMempoolState(t) PROVE SeenInv'
  <2> DEFINE op == task[t].op
             old == task[t].old
             all == Present(standardPool) \X (2..4)
  <2>1. /\ task[t] \in Task /\ task[t].pc = "write" /\ op \in Op
        /\ UNCHANGED reputationEntries
    BY <1>4 DEF TypeOK, DoUpdateMempoolState, SightInv, FoundInv, FoundOK
  <2>2. Marks(task[t], standardPool) = all
    BY <2>1 DEF Marks, NotYet, Still
  <2>3. CASE old # NoOp
    <3> DEFINE r == At(t, "seen", 1)
    <3>1. /\ old \in Present(standardPool) /\ old \in Op
          /\ SlotHolds(standardPool, op, {old})
      BY <2>1, <2>3 DEF SightInv, FoundInv, FoundOK, SlotInv, SlotFree, Present
    <3>2. standardPool' = [Without(standardPool, {old}) EXCEPT ![op] = "pending"]
      BY <1>4, <2>3 DEF DoUpdateMempoolState, NewPool
    <3>3. Present(standardPool') = (Present(standardPool) \ {old}) \cup {op}
      BY <1>0, <2>1, <3>2 DEF Present, Without
    <3>4. /\ r.pc = "seen" /\ r.op = op /\ r.old = old /\ r.step = 1
      BY <2>1 DEF At, Task
    <3>5. Become(t, r)
      BY <1>4, <2>3 DEF DoUpdateMempoolState
    <3> HIDE DEF r
    <3>6. SeenOK(r, standardPool')
      BY <2>1, <3>1, <3>3, <3>4 DEF SeenOK
    <3>7. NotYet(r) = {op} \X (2..4) /\ Still(r) = {old} \X (2..4)
      BY <3>4 DEF NotYet, Still
    <3>8. Marks(r, standardPool') \subseteq all
      BY <3>1, <3>3, <3>7 DEF Marks
    <3> QED
      BY <1>2, <2>1, <2>2, <3>5, <3>6, <3>8
  <2>4. CASE old = NoOp
    <3> DEFINE r == At(t, "seen", 5)
    <3>1. standardPool' = [standardPool EXCEPT ![op] = "pending"]
      BY <1>4, <2>4 DEF DoUpdateMempoolState, NewPool
    <3>2. Present(standardPool') = Present(standardPool) \cup {op}
      BY <1>0, <2>1, <3>1 DEF Present
    <3>3. r.pc = "seen" /\ r.op = op /\ r.step = 5
      BY <2>1 DEF At, Task
    <3>4. Become(t, r)
      BY <1>4, <2>4, OpAssumption DEF DoUpdateMempoolState
    <3> HIDE DEF r
    <3>5. SeenOK(r, standardPool')
      BY <2>1, <3>3 DEF SeenOK
    <3>6. NotYet(r) = {op} \X (2..4) /\ Still(r) = {}
      BY <3>3 DEF NotYet, Still
    <3>7. Marks(r, standardPool') \subseteq all
      BY <3>2, <3>6 DEF Marks
    <3> QED
      BY <1>2, <2>1, <2>2, <3>4, <3>5, <3>7
  <2> QED
    BY <2>3, <2>4
<1>5. ASSUME NEW t \in Tasks, UpdateSeenStatus(t) PROVE SeenInv'
  <2> DEFINE k == task[t].step
  <2>1. /\ task[t] \in Task /\ task[t].pc = "seen" /\ standardPool' = standardPool
        /\ k \in 1..8 /\ SeenOK(task[t], standardPool)
    BY <1>5 DEF TypeOK, UpdateSeenStatus, SeenInv, SeenOK
  <2>2. CASE k = 8
    <3>1. Become(t, Idle) /\ Idle.pc # "seen" /\ SeenOK(Idle, standardPool)
      BY <1>5, <2>2 DEF UpdateSeenStatus, Idle, SeenOK
    <3>2. \A a \in Address : Cardinality(MarksOf(Idle, standardPool, a))
                               <= reputationEntries'[a].opsSeen
      BY <1>5, <2>2, <3>1, SeenUpdateMarks
    <3> QED
      BY <1>1, <2>1, <3>1, <3>2
  <2>3. CASE k # 8
    <3> DEFINE r == At(t, "seen", k + 1)
    <3>1. Become(t, r)
      BY <1>5, <2>3 DEF UpdateSeenStatus
    <3>2. /\ r.pc = "seen" /\ r.op = task[t].op /\ r.old = task[t].old
          /\ r.step = k + 1
      BY <2>1 DEF At, Task
    <3> HIDE DEF r
    <3>3. SeenOK(r, standardPool)
      BY <2>1, <2>3, <3>2 DEF SeenOK
    <3>4. k < 8
      BY <2>1, <2>3
    <3>5. \A a \in Address : Cardinality(MarksOf(r, standardPool, a))
                               <= reputationEntries'[a].opsSeen
      BY <1>5, <3>2, <3>3, <3>4, SeenUpdateMarks
    <3> QED
      BY <1>1, <2>1, <3>1, <3>3, <3>5
  <2> QED
    BY <2>2, <2>3
<1>6. ASSUME NEW t \in Tasks,
             \/ Begin(t)
             \/ ReadPool(t) \/ CheckRole(t) \/ CheckMultipleRoles(t)
             \/ RemoveUserOp(t) \/ UpdateEntryStatus(t) \/ MarkBundling(t)
      PROVE  SeenInv'
  <2>1. PICK r : Become(t, r) /\ r.pc # "seen"
    <3>1. /\ Idle.pc # "seen"
          /\ \A k : At(t, "role", k).pc # "seen" /\ At(t, "roles", k).pc # "seen"
          /\ \A k : At(t, "write", k).pc # "seen"
          /\ \A old : Replacing(t, old).pc # "seen"
          /\ \A op : Call("readPool", op).pc # "seen" /\ Call("remove", op).pc # "seen"
          /\ \A op, s : [Idle EXCEPT !.pc = "setStatus", !.op = op, !.status = s].pc # "seen"
          /\ \A S : [Idle EXCEPT !.pc = "take", !.hashes = S].pc # "seen"
          /\ \A a, S : [Idle EXCEPT !.pc = "banRemove", !.addr = a, !.hashes = S].pc # "seen"
      BY DEF TypeOK, Idle, At, Task, Call, Replacing
    <3>2. \/ Become(t, Idle)
          \/ \E k : Become(t, At(t, "role", k)) \/ Become(t, At(t, "roles", k))
          \/ \E k : Become(t, At(t, "write", k))
          \/ \E old : Become(t, Replacing(t, old))
          \/ \E op : Become(t, Call("readPool", op)) \/ Become(t, Call("remove", op))
          \/ \E op, s : Become(t, [Idle EXCEPT !.pc = "setStatus", !.op = op, !.status = s])
          \/ \E S : Become(t, [Idle EXCEPT !.pc = "take", !.hashes = S])
          \/ \E a, S : Become(t, [Idle EXCEPT !.pc = "banRemove", !.addr = a, !.hashes = S])
      BY <1>6 DEF Begin, CheckPaymasterDeposit, FindEntryToRemove, FindEntryToUpdate,
                  FindPending, FindOpsToBan, ReadPool, CheckRole, CheckMultipleRoles,
                  RemoveUserOp, UpdateEntryStatus, MarkBundling
    <3> QED
      BY <3>1, <3>2
  <2>2. task[t].pc # "seen" /\ UNCHANGED reputationEntries
    BY <1>6 DEF Begin, CheckPaymasterDeposit, FindEntryToRemove, FindEntryToUpdate,
                FindPending, FindOpsToBan, ReadPool, CheckRole, CheckMultipleRoles,
                RemoveUserOp, UpdateEntryStatus, MarkBundling
  <2>3. Present(standardPool') \subseteq Present(standardPool)
    <3>1. CASE UNCHANGED standardPool
      BY <3>1
    <3>2. CASE RemoveUserOp(t)
      BY <3>2 DEF RemoveUserOp, MutatePool, Present, Without
    <3>3. CASE UpdateEntryStatus(t)
      <4>1. /\ standardPool' = [standardPool EXCEPT ![task[t].op] = task[t].status]
            /\ task[t].op \in Present(standardPool)
        BY <3>3 DEF UpdateEntryStatus, NewPool, SightInv, FoundInv, FoundOK
      <4> QED
        BY <1>0, <4>1 DEF Present
    <3>4. CASE MarkBundling(t)
      <4>1. PICK S \in SUBSET Present(standardPool) : standardPool' = Mark(standardPool, S)
        BY <3>4 DEF MarkBundling, MutatePool
      <4> QED
        BY <4>1 DEF Present, Mark
    <3> QED
      BY <1>6, <3>1, <3>2, <3>3, <3>4
      DEF Begin, CheckPaymasterDeposit, FindEntryToRemove, FindEntryToUpdate,
          FindPending, FindOpsToBan, ReadPool, CheckRole, CheckMultipleRoles
  <2> QED
    BY <1>3, <2>1, <2>2, <2>3
<1>7. ASSUME NEW t \in Tasks, RemoveUserOpsForBannedAddr(t) PROVE SeenInv'
  <2>1. /\ \A a : [Idle EXCEPT !.pc = "banMark", !.addr = a].pc # "seen"
        /\ \E a : Become(t, [Idle EXCEPT !.pc = "banMark", !.addr = a])
    BY <1>7 DEF RemoveUserOpsForBannedAddr, Idle
  <2>2. /\ task[t].pc # "seen" /\ UNCHANGED reputationEntries
        /\ Present(standardPool') \subseteq Present(standardPool)
    BY <1>7 DEF RemoveUserOpsForBannedAddr, MutatePool, Present, Without
  <2> QED
    BY <1>3, <2>1, <2>2
\* The penalty of a ban only adds to what was seen.
<1>10. ASSUME NEW t \in Tasks, CrashedHandleOps(t) PROVE SeenInv'
  <2>1. /\ Become(t, Idle) /\ Idle.pc # "seen" /\ task[t].pc = "banMark"
        /\ standardPool' = standardPool
        /\ reputationEntries' = CrashUpdate(reputationEntries, task[t].addr)
    BY <1>10 DEF CrashedHandleOps, Idle
  <2>2. SeenOK(Idle, standardPool')
    BY <2>1 DEF SeenOK
  <2>3. ASSUME NEW a \in Address
        PROVE  Cardinality(MarksOf(Idle, standardPool', a)) <= reputationEntries'[a].opsSeen
    <3> DEFINE marks == MarksOf(task[t], standardPool, a)
               seen == reputationEntries[a].opsSeen
               after == reputationEntries'[a].opsSeen
    <3>1. MarksOf(Idle, standardPool', a) = marks
      BY <2>1 DEF MarksOf, Marks, NotYet, Still
    <3>2. Cardinality(marks) \in Nat /\ Cardinality(marks) <= seen /\ seen \in Nat
      BY MarksFinite DEF SightInv, PoolFinite, SeenInv, TypeOK, ReputationEntry
    <3>3. after = seen \/ after = seen + CrashPenalty
      BY <2>1 DEF CrashUpdate, TypeOK
    <3>4. CrashPenalty \in Nat
      BY ReputationAssumption
    <3> HIDE DEF marks, seen, after
    <3>5. Cardinality(marks) <= after
      BY <3>2, <3>3, <3>4
    <3> QED
      BY <3>1, <3>5 DEF after
  <2> QED
    BY <1>1, <2>1, <2>2, <2>3
<1>8. ClearMempool \/ ClearReputation => FALSE
  BY DEF ClearMempool, ClearReputation
<1>9. CASE UNCHANGED vars
  BY <1>9 DEF vars, SeenInv
<1> QED
  BY <1>4, <1>5, <1>6, <1>7, <1>8, <1>9, <1>10 DEF Next, Continue

\* A paymaster's entries are marks of its own.
LEMMA SeenEnough ==
  ASSUME Alone, SightInv, SeenInv, TypeOK
  PROVE  SeenCoversPool
<1> SUFFICES ASSUME \A t \in Tasks : task[t].pc = "idle", NEW a \in Address
             PROVE  Cardinality({o \in Present(standardPool) : a \in LowerAll({Paymaster[o]})})
                      <= reputationEntries[a].opsSeen
  BY DEF SeenCoversPool, PaidBy
<1>1. PICK t : t \in Tasks
  BY DEF Alone
<1> DEFINE S == {o \in Present(standardPool) : a \in LowerAll({Paymaster[o]})}
           M == MarksOf(task[t], standardPool, a)
           f == [o \in S |-> <<o, 3>>]
<1>2. IsFiniteSet(M) /\ Cardinality(M) \in Nat
  BY MarksFinite DEF SightInv, PoolFinite
<1>3. Cardinality(M) <= reputationEntries[a].opsSeen /\ reputationEntries[a].opsSeen \in Nat
  BY <1>1 DEF SeenInv, TypeOK, ReputationEntry
<1>4. \A o \in S : <<o, 3>> \in M
  <2>1. Marks(task[t], standardPool) = Present(standardPool) \X (2..4)
    BY <1>1 DEF Marks, NotYet, Still
  <2> SUFFICES ASSUME NEW o \in S PROVE <<o, 3>> \in M
    OBVIOUS
  <2>2. Paymaster[o] # NoAddress /\ Lower[Paymaster[o]] = a
    BY DEF LowerAll
  <2>3. SeenAs(o, 3) = Paymaster[o]
    BY DEF SeenAs
  <2> QED
    BY <2>1, <2>2, <2>3 DEF MarksOf
<1>5. f \in Injection(S, M)
  BY <1>4 DEF Injection, IsInjective
<1>6. IsFiniteSet(S) /\ Cardinality(S) <= Cardinality(M)
  <2> HIDE DEF S, M, f
  <2> QED
    BY <1>2, <1>5, FS_Injection
<1>7. Cardinality(S) \in Nat
  BY <1>6, FS_CardinalityType
<1> HIDE DEF S, M
<1>8. Cardinality(S) <= reputationEntries[a].opsSeen
  BY <1>2, <1>3, <1>6, <1>7
<1> QED
  BY <1>8 DEF S

\* With calls one at a time, bans included but no clears, a paymaster has been
\* seen as often as it has entries in the pool: a replacement takes back no more
\* than the entry that it replaces gave, and the penalty of a ban takes nothing.
THEOREM SightingsCover ==
  ASSUME Alone, "clear" \notin Calls
  PROVE  Spec => []SeenCoversPool
<1>1. Init => SeenInv
  <2> SUFFICES ASSUME Init PROVE SeenInv
    OBVIOUS
  <2>1. \A t \in Tasks : task[t] = Idle /\ Idle.pc = "idle"
    BY DEF Init, Idle
  <2>2. \A a : MarksOf(Idle, standardPool, a) = {}
    <3>1. Present(standardPool) = {}
      BY DEF Init, Present, EmptyPool
    <3>2. Marks(Idle, standardPool) = {}
      <4>1. NotYet(Idle) = {} /\ Still(Idle) = {}
        BY DEF NotYet, Still, Idle
      <4> QED
        BY <3>1, <4>1 DEF Marks
    <3> QED
      BY <3>2 DEF MarksOf
  <2>3. \A a \in Address : reputationEntries[a].opsSeen = 0
    BY DEF Init, NoEntries, ZeroEntry
  <2>4. SeenOK(Idle, standardPool)
    BY DEF SeenOK, Idle
  <2>5. \A a : Cardinality(MarksOf(Idle, standardPool, a)) = 0
    BY <2>2, FS_EmptySet
  <2> QED
    BY <2>1, <2>3, <2>4, <2>5 DEF SeenInv
<1>2. TypeOK /\ CapturedOK /\ SightInv /\ SeenInv /\ [Next]_vars => SightInv' /\ SeenInv'
  BY SightStep, SeenStep
<1>3. TypeOK /\ SightInv /\ SeenInv => SeenCoversPool
  BY SeenEnough
<1>4. Init => SightInv
  BY SeqInit DEF SeqInv, SightInv
<1> QED
  BY <1>1, <1>2, <1>3, <1>4, TypeCorrect, CapturedCorrect, PTL DEF Spec

------------------------------------------------------------------------------
(***************************************************************************)
(* Overlapping calls.  Submissions of one sender that read the same count  *)
(* all pass the cap, and each adds an entry.  A call is racing for a       *)
(* sender if it may still add one: it found its slot free, and saw the     *)
(* count below the cap or has yet to look at what it saw.  Once the        *)
(* entries reach the cap no further call joins the race, and the one that  *)
(* brought them there has left it.  The theorem is about submissions of    *)
(* different nonces, and about calls that take nothing out: a second       *)
(* removal of one entry, and a second replacement, make room that is not   *)
(* there (README.md, section 4, has both instances).                       *)
(***************************************************************************)
Burst == /\ Calls \subseteq {"add", "take", "setStatus"}
         /\ IsFiniteSet(Tasks) /\ Tasks # {}
         /\ \A o, p \in Op : SameSlot(o, p) => o = p

BurstOK(r, pool) ==
  /\ r.pc \in {"readPool", "role", "roles", "write"} => r.op \in Op
  /\ r.pc = "write" => r.old = NoOp \/ (r.old = r.op /\ r.op \in Present(pool))
  /\ r.pc = "setStatus" => r.op \in Present(pool)
  /\ r.pc \notin {"remove", "banRemove", "banMark"}

Racing(t, a) ==
  /\ task[t].pc \in {"role", "roles", "write"}
  /\ task[t].old = NoOp
  /\ Lower[Sender[task[t].op]] = a
  /\ task[t].pc = "role" /\ task[t].step = 1
       => ~ CountsSeenBy(t)[a] >= MaxMempoolUserOpsPerSender

Racers(a) == {t \in Tasks : Racing(t, a)}

BurstInv ==
  /\ \A t \in Tasks : BurstOK(task[t], standardPool)
  /\ PoolFinite
  /\ CountCoversPool
  /\ \A a \in Address : Unstaked(a) =>
       Cardinality(EntriesOf(a)) + Cardinality(Racers(a))
         <= MaxMempoolUserOpsPerSender + Cardinality(Tasks) - 1

\* Calls that are not moving neither join nor leave a race.
LEMMA OthersRace ==
  ASSUME TypeOK, NEW t \in Tasks, NEW r, Become(t, r), NEW a,
         \/ UNCHANGED mempoolEntryCount /\ \E x : countRef' = [countRef EXCEPT ![t] = x]
         \/ NewCounts(mempoolEntryCount')
  PROVE  \A s \in Tasks : s # t /\ Racing(s, a)' => Racing(s, a)
<1> SUFFICES ASSUME NEW s \in Tasks, s # t, Racing(s, a)'
             PROVE  Racing(s, a)
  OBVIOUS
<1>1. task'[s] = task[s]
  BY DEF Become, TypeOK
<1>2. CountsSeenBy(s)' = CountsSeenBy(s)
  <2>1. countRef \in [Tasks -> Counts \cup {NoRef, Current}] /\ mempoolEntryCount \in Counts
    BY DEF TypeOK
  <2>2. CASE UNCHANGED mempoolEntryCount /\ \E x : countRef' = [countRef EXCEPT ![t] = x]
    BY <2>1, <2>2 DEF CountsSeenBy
  <2>3. CASE NewCounts(mempoolEntryCount')
    <3>1. countRef'[s] = IF countRef[s] = Current THEN mempoolEntryCount ELSE countRef[s]
      BY <2>3 DEF NewCounts, Leave
    <3>2. mempoolEntryCount # Current
      BY <2>1, RefAssumption
    <3> QED
      BY <3>1, <3>2 DEF CountsSeenBy
  <2> QED
    BY <2>2, <2>3
<1> QED
  BY <1>1, <1>2 DEF Racing

LEMMA RacersCount ==
  ASSUME IsFiniteSet(Tasks), NEW S \in SUBSET Tasks
  PROVE  /\ IsFiniteSet(S) /\ Cardinality(S) \in Nat
         /\ Cardinality(S) <= Cardinality(Tasks) /\ Cardinality(Tasks) \in Nat
         /\ \A T \in SUBSET S : Cardinality(T) <= Cardinality(S) /\ Cardinality(T) \in Nat
         /\ \A T \in SUBSET S, t \in S : t \notin T => Cardinality(T) <= Cardinality(S) - 1
<1>1. /\ IsFiniteSet(S) /\ Cardinality(S) \in Nat
      /\ Cardinality(S) <= Cardinality(Tasks) /\ Cardinality(Tasks) \in Nat
  BY FS_Subset, FS_CardinalityType
<1>2. \A T \in SUBSET S : Cardinality(T) <= Cardinality(S) /\ Cardinality(T) \in Nat
  BY <1>1, FS_Subset, FS_CardinalityType
<1>3. ASSUME NEW T \in SUBSET S, NEW t \in S, t \notin T
      PROVE  Cardinality(T) <= Cardinality(S) - 1
  <2>1. IsFiniteSet(S \ {t}) /\ Cardinality(S \ {t}) = Cardinality(S) - 1
    BY <1>1, FS_RemoveElement
  <2>2. T \in SUBSET (S \ {t})
    BY <1>3
  <2>3. Cardinality(T) <= Cardinality(S \ {t})
    BY <2>1, <2>2, FS_Subset
  <2> QED
    BY <2>1, <2>3
<1> QED
  BY <1>1, <1>2, <1>3

LEMMA BurstStep ==
  ASSUME Burst, TypeOK, CapturedOK, BurstInv, [Next]_vars
  PROVE  BurstInv'
<1> DEFINE Room == MaxMempoolUserOpsPerSender + Cardinality(Tasks) - 1
<1>0. /\ standardPool \in [Op -> Status \cup {"absent"}]
      /\ mempoolEntryCount \in [Address -> Nat]
      /\ MaxMempoolUserOpsPerSender \in Nat
      /\ IsFiniteSet(Tasks) /\ Cardinality(Tasks) \in Nat
  BY FS_CardinalityType, LimitAssumption DEF TypeOK, Pool, Counts, Burst
\* Call t becomes r, and no entry goes.
<1>1. ASSUME NEW t \in Tasks, NEW r, Become(t, r), BurstOK(r, standardPool'),
             Present(standardPool) \subseteq Present(standardPool'),
             PoolFinite', CountCoversPool',
             \A a \in Address : Unstaked(a) =>
               Cardinality(EntriesOf(a)') + Cardinality(Racers(a)') <= Room
      PROVE  BurstInv'
  <2>1. \A s \in Tasks : task'[s] = r \/ task'[s] = task[s]
    BY <1>1 DEF Become, TypeOK
  <2>2. \A s \in Tasks : BurstOK(task[s], standardPool)
    BY DEF BurstInv
  <2>3. \A s \in Tasks : BurstOK(task[s], standardPool')
    BY <1>1, <2>2 DEF BurstOK
  <2>4. \A s \in Tasks : BurstOK(task[s], standardPool)'
    BY <1>1, <2>1, <2>3
  <2>5. \A a \in Address : Unstaked(a)' => Unstaked(a)
    BY DEF Unstaked
  <2> QED
    BY <1>1, <2>4, <2>5 DEF BurstInv
\* The pool holds the same entries: the call may join a race only below the cap.
<1>2. ASSUME NEW t \in Tasks, NEW r, Become(t, r), BurstOK(r, standardPool'),
             Present(standardPool') = Present(standardPool),
             UNCHANGED mempoolEntryCount,
             \E x : countRef' = [countRef EXCEPT ![t] = x],
             \A a \in Address : Unstaked(a) /\ Racing(t, a)' =>
                Racing(t, a) \/ ~ mempoolEntryCount[a] >= MaxMempoolUserOpsPerSender
      PROVE  BurstInv'
  <2>1. \A a : EntriesOf(a)' = EntriesOf(a)
    BY <1>2 DEF EntriesOf
  <2>2. PoolFinite' /\ CountCoversPool'
    BY <1>2, <2>1 DEF BurstInv, PoolFinite, CountCoversPool
  <2>3. ASSUME NEW a \in Address, Unstaked(a)
        PROVE  Cardinality(EntriesOf(a)') + Cardinality(Racers(a)') <= Room
    <3> DEFINE new == Racers(a)'
               old == Racers(a)
               e == Cardinality(EntriesOf(a))
    <3>1. \A s \in Tasks : s # t /\ Racing(s, a)' => Racing(s, a)
      BY <1>2, OthersRace
    <3>2. /\ new \in SUBSET Tasks /\ old \in SUBSET Tasks
          /\ \A s \in Tasks : s \in new <=> Racing(s, a)'
          /\ \A s \in Tasks : s \in old <=> Racing(s, a)
      BY DEF Racers
    <3>3. /\ e \in Nat /\ e <= mempoolEntryCount[a]
          /\ e + Cardinality(old) <= Room
      BY <2>3, EntriesMove DEF BurstInv, CountCoversPool
    <3>4. CASE new \subseteq old
      <4>1. Cardinality(new) <= Cardinality(old) /\ Cardinality(new) \in Nat
            /\ Cardinality(old) \in Nat
        BY <1>0, <3>2, <3>4, RacersCount
      <4> HIDE DEF new, old, e
      <4>2. e + Cardinality(new) <= Room
        BY <1>0, <3>3, <4>1
      <4> QED
        BY <2>1, <4>2 DEF new, e
    <3>5. CASE ~ mempoolEntryCount[a] >= MaxMempoolUserOpsPerSender
      <4>1. Cardinality(new) <= Cardinality(Tasks) /\ Cardinality(new) \in Nat
        BY <1>0, <3>2, RacersCount
      <4>2. mempoolEntryCount[a] \in Nat
        BY <1>0
      <4> HIDE DEF new, old, e
      <4>3. e + Cardinality(new) <= Room
        BY <1>0, <3>3, <3>5, <4>1, <4>2
      <4> QED
        BY <2>1, <4>3 DEF new, e
    <3> HIDE DEF new, old
    <3>6. new \subseteq old \/ ~ mempoolEntryCount[a] >= MaxMempoolUserOpsPerSender
      BY <1>2, <2>3, <3>1, <3>2
    <3> QED
      BY <3>4, <3>5, <3>6
  <2> QED
    BY <1>1, <1>2, <2>2, <2>3
\* In particular when the call is not in a race afterwards.
<1>3. ASSUME NEW t \in Tasks, NEW r, Become(t, r), BurstOK(r, standardPool'),
             r.pc \notin {"role", "roles", "write"} \/ r.old # NoOp,
             Present(standardPool') = Present(standardPool),
             UNCHANGED mempoolEntryCount,
             \E x : countRef' = [countRef EXCEPT ![t] = x]
      PROVE  BurstInv'
  <2>1. \A a : ~ Racing(t, a)'
    <3>1. task'[t] = r
      BY <1>3 DEF Become, TypeOK
    <3> QED
      BY <1>3, <3>1 DEF Racing
  <2> QED
    BY <1>2, <1>3, <2>1
<1>4. \A t \in Tasks : UNCHANGED countRef => \E x : countRef' = [countRef EXCEPT ![t] = x]
  <2> SUFFICES ASSUME NEW t \in Tasks, UNCHANGED countRef
               PROVE  countRef' = [countRef EXCEPT ![t] = countRef[t]]
    OBVIOUS
  <2> QED
    BY DEF TypeOK
<1>5. ASSUME NEW t \in Tasks, CheckPaymasterDeposit(t) PROVE BurstInv'
  <2>1. PICK op \in Op : Become(t, Call("readPool", op))
    BY <1>5 DEF CheckPaymasterDeposit
  <2>2. BurstOK(Call("readPool", op), standardPool') /\ Call("readPool", op).pc = "readPool"
    BY DEF BurstOK, Call, Idle
  <2> QED
    BY <1>3, <1>4, <1>5, <2>1, <2>2 DEF CheckPaymasterDeposit
<1>6. ASSUME NEW t \in Tasks, ReadPool(t) PROVE BurstInv'
  <2> DEFINE op == task[t].op
  <2>1. /\ task[t] \in Task /\ op \in Op /\ task[t].old = NoOp
        /\ UNCHANGED <<standardPool, mempoolEntryCount>>
        /\ countRef \in [Tasks -> Counts \cup {NoRef, Current}]
    BY <1>6 DEF TypeOK, ReadPool, BurstInv, BurstOK, CapturedOK, Captured
  <2>2. CASE Become(t, At(t, "role", 1)) /\ countRef' = [countRef EXCEPT ![t] = Current]
    <3> DEFINE r == At(t, "role", 1)
    <3>1. r.pc = "role" /\ r.op = op /\ r.step = 1
      BY <2>1 DEF At, Task
    <3>2. task'[t] = r
      BY <2>2 DEF Become, TypeOK
    <3>3. CountsSeenBy(t)' = mempoolEntryCount
      BY <2>1, <2>2 DEF CountsSeenBy
    <3> HIDE DEF r
    <3>4. BurstOK(r, standardPool')
      BY <2>1, <3>1 DEF BurstOK
    <3>5. \A a : Racing(t, a)' => ~ mempoolEntryCount[a] >= MaxMempoolUserOpsPerSender
      BY <3>1, <3>2, <3>3 DEF Racing
    <3> QED
      BY <1>2, <2>1, <2>2, <3>4, <3>5 DEF r
  <2>3. ASSUME NEW old \in FindBySenderNonce(standardPool, op),
               Become(t, Replacing(t, old)), UNCHANGED countRef
        PROVE  BurstInv'
    <3> DEFINE r == Replacing(t, old)
    <3>1. old \in Op /\ old \in Present(standardPool) /\ SameSlot(old, op)
      BY <2>3 DEF FindBySenderNonce, Present, SameSlot
    <3>2. old = op
      BY <2>1, <3>1 DEF Burst
    <3>3. r.pc = "write" /\ r.op = op /\ r.old = old
      BY <2>1 DEF Replacing, Task
    <3> HIDE DEF r
    <3>4. BurstOK(r, standardPool') /\ r.old # NoOp
      BY <2>1, <3>1, <3>2, <3>3, OpAssumption DEF BurstOK
    <3> QED
      BY <1>3, <1>4, <2>1, <2>3, <3>4 DEF r
  <2>4. CASE Become(t, Idle) /\ UNCHANGED countRef
    <3>1. BurstOK(Idle, standardPool') /\ Idle.pc = "idle"
      BY DEF BurstOK, Idle
    <3> QED
      BY <1>3, <1>4, <2>1, <2>4, <3>1
  <2> QED
    BY <1>6, <2>2, <2>3, <2>4 DEF ReadPool
<1>7. ASSUME NEW t \in Tasks, CheckRole(t) PROVE BurstInv'
  <2> DEFINE op == task[t].op
             k == task[t].step
  <2>1. /\ task[t] \in Task /\ op \in Op /\ task[t].old = NoOp
        /\ task[t].pc = "role" /\ k \in 0..8
        /\ UNCHANGED <<standardPool, mempoolEntryCount>>
        /\ Sender[op] \in Address /\ Sender[op] # NoAddress
    BY <1>7, OpAssumption, AddressAssumption
    DEF TypeOK, Task, CheckRole, BurstInv, BurstOK, CapturedOK, Captured
  <2>2. CASE Become(t, Idle) /\ DropRefs(t)
    <3>1. BurstOK(Idle, standardPool') /\ Idle.pc = "idle"
      BY DEF BurstOK, Idle
    <3> QED
      BY <1>3, <2>1, <2>2, <3>1 DEF DropRefs
  <2>3. ASSUME NEW pc, NEW n, Become(t, At(t, pc, n)), UNCHANGED countRef,
               \/ pc = "role" /\ n = k + 1
               \/ pc = "roles",
               \/ RoleAddress(op, Roles[k]) = NoAddress
               \/ CheckReputationStatus(reputationEntries, CountsSeenBy(t), Roles[k],
                                        RoleAddress(op, Roles[k]))
        PROVE  BurstInv'
    <3> DEFINE r == At(t, pc, n)
    <3>1. r.pc = pc /\ r.op = op /\ r.old = NoOp /\ r.step = n
      BY <2>1 DEF At, Task
    <3>2. task'[t] = r
      BY <2>3 DEF Become, TypeOK
    <3> HIDE DEF r
    <3>3. BurstOK(r, standardPool')
      BY <2>1, <2>3, <3>1 DEF BurstOK
    <3>4. ASSUME NEW a \in Address, Unstaked(a), Racing(t, a)' PROVE Racing(t, a)
      <4>1. Lower[Sender[op]] = a
        BY <3>1, <3>2, <3>4 DEF Racing
      <4>2. CASE k = 1
        <5>1. CheckReputationStatus(reputationEntries, CountsSeenBy(t), "account", Sender[op])
          BY <2>1, <2>3, <4>2 DEF Roles, RoleAddress
        <5>2. ~ CountsSeenBy(t)[a] >= MaxMempoolUserOpsPerSender \/ Sender[op] \in Staked
          BY <4>1, <5>1 DEF CheckReputationStatus, PassesStake
        <5>3. Sender[op] \notin Staked
          BY <3>4, <4>1 DEF Unstaked
        <5> QED
          BY <2>1, <4>1, <5>2, <5>3 DEF Racing
      <4>3. CASE k # 1
        BY <2>1, <4>1, <4>3 DEF Racing
      <4> QED
        BY <4>2, <4>3
    <3> QED
      BY <1>2, <1>4, <2>1, <2>3, <3>3, <3>4 DEF r
  <2> QED
    BY <1>7, <2>2, <2>3 DEF CheckRole
<1>8. ASSUME NEW t \in Tasks, CheckMultipleRoles(t) PROVE BurstInv'
  <2> DEFINE op == task[t].op
  <2>1. /\ task[t] \in Task /\ op \in Op /\ task[t].old = NoOp
        /\ task[t].pc = "roles" /\ DropRefs(t)
        /\ UNCHANGED <<standardPool, mempoolEntryCount>>
    BY <1>8 DEF TypeOK, CheckMultipleRoles, BurstInv, BurstOK, CapturedOK, Captured
  <2>2. CASE Become(t, Idle)
    <3>1. BurstOK(Idle, standardPool') /\ Idle.pc = "idle"
      BY DEF BurstOK, Idle
    <3> QED
      BY <1>3, <2>1, <2>2, <3>1 DEF DropRefs
  <2>3. CASE Become(t, At(t, "write", 0))
    <3> DEFINE r == At(t, "write", 0)
    <3>1. r.pc = "write" /\ r.op = op /\ r.old = NoOp
      BY <2>1 DEF At, Task
    <3>2. task'[t] = r
      BY <2>3 DEF Become, TypeOK
    <3> HIDE DEF r
    <3>3. BurstOK(r, standardPool')
      BY <2>1, <3>1 DEF BurstOK
    <3>4. \A a : Racing(t, a)' => Racing(t, a)
      BY <2>1, <3>1, <3>2 DEF Racing
    <3> QED
      BY <1>2, <2>1, <2>3, <3>3, <3>4 DEF r, DropRefs
  <2> QED
    BY <1>8, <2>2, <2>3 DEF CheckMultipleRoles
<1>9. ASSUME NEW t \in Tasks, DoUpdateMempoolState(t) PROVE BurstInv'
  <2> DEFINE op == task[t].op
             old == task[t].old
  <2>1. /\ task[t] \in Task /\ op \in Op /\ task[t].pc = "write"
        /\ old = NoOp \/ (old = op /\ op \in Present(standardPool))
    BY <1>9 DEF TypeOK, DoUpdateMempoolState, BurstInv, BurstOK
  <2>2. \A k : BurstOK(At(t, "seen", k), standardPool') /\ At(t, "seen", k).pc = "seen"
    BY <2>1 DEF BurstOK, At, Task
  <2>3. CASE old # NoOp
    <3>1. standardPool' = [Without(standardPool, {old}) EXCEPT ![op] = "pending"]
      BY <1>9, <2>3 DEF DoUpdateMempoolState, NewPool
    <3>2. Present(standardPool') = Present(standardPool)
      BY <1>0, <2>1, <2>3, <3>1 DEF Present, Without
    <3>3. Become(t, At(t, "seen", 1)) /\ UNCHANGED <<mempoolEntryCount, countRef>>
      BY <1>9, <2>3 DEF DoUpdateMempoolState
    <3> QED
      BY <1>3, <1>4, <2>2, <3>2, <3>3
  <2>4. CASE old = NoOp
    <3>1. /\ standardPool' = [standardPool EXCEPT ![op] = "pending"]
          /\ NewCounts(CountEntry(mempoolEntryCount, op))
          /\ Become(t, At(t, "seen", 5))
      BY <1>9, <2>4 DEF DoUpdateMempoolState, NewPool
    <3>2. Present(standardPool') = Present(standardPool) \cup {op}
      BY <1>0, <2>1, <3>1 DEF Present
    <3>3. mempoolEntryCount' = CountEntry(mempoolEntryCount, op) /\ NewCounts(mempoolEntryCount')
      BY <3>1 DEF NewCounts
    <3>4. PoolFinite'
      BY <3>2, FS_AddElement DEF BurstInv, PoolFinite
    <3>5. ASSUME NEW a \in Address
          PROVE  /\ Cardinality(EntriesOf(a)') \in Nat
                 /\ a # Lower[Sender[op]] => EntriesOf(a)' = EntriesOf(a)
                 /\ Cardinality(EntriesOf(a)') <= Cardinality(EntriesOf(a)) + 1
                 /\ Cardinality(EntriesOf(a)) \in Nat
      <4>1. EntriesOf(a)' = IF a = Lower[Sender[op]] THEN EntriesOf(a) \cup {op}
                            ELSE EntriesOf(a)
        BY <3>2 DEF EntriesOf
      <4>2. IsFiniteSet(EntriesOf(a)) /\ Cardinality(EntriesOf(a)) \in Nat
        BY EntriesMove DEF BurstInv
      <4>3. /\ Cardinality(EntriesOf(a) \cup {op}) = IF op \in EntriesOf(a)
                                                    THEN Cardinality(EntriesOf(a))
                                                    ELSE Cardinality(EntriesOf(a)) + 1
        BY <4>2, FS_AddElement
      <4> QED
        BY <4>1, <4>2, <4>3
    <3>6. CountCoversPool'
      <4> SUFFICES ASSUME NEW a \in Address
                   PROVE  Cardinality(EntriesOf(a)') <= mempoolEntryCount'[a]
        BY DEF CountCoversPool
      <4>1. mempoolEntryCount[a] \in Nat /\ Cardinality(EntriesOf(a)) <= mempoolEntryCount[a]
        BY <1>0 DEF BurstInv, CountCoversPool
      <4>2. Lower[Sender[op]] \in CountedKeys(op)
        BY <2>1, OpAssumption, AddressAssumption DEF CountedKeys, LowerAll
      <4>3. mempoolEntryCount'[a] = IF a \in CountedKeys(op) THEN mempoolEntryCount[a] + 1
                                    ELSE mempoolEntryCount[a]
        BY <3>3 DEF CountEntry
      <4> QED
        BY <3>5, <4>1, <4>2, <4>3
    <3>7. ASSUME NEW a \in Address, Unstaked(a)
          PROVE  Cardinality(EntriesOf(a)') + Cardinality(Racers(a)') <= Room
      <4> DEFINE new == Racers(a)'
                 was == Racers(a)
                 e == Cardinality(EntriesOf(a))
                 f == Cardinality(EntriesOf(a)')
      <4>1. \A s \in Tasks : s # t /\ Racing(s, a)' => Racing(s, a)
        BY <3>1, <3>3, OthersRace
      <4>2. ~ Racing(t, a)'
        <5>1. task'[t] = At(t, "seen", 5)
          BY <3>1 DEF Become, TypeOK
        <5> QED
          BY <2>2, <5>1 DEF Racing
      <4>3. Racing(t, a) <=> a = Lower[Sender[op]]
        BY <2>1, <2>4 DEF Racing
      <4>4. /\ was \in SUBSET Tasks /\ new \in SUBSET was /\ t \notin new
            /\ t \in was <=> a = Lower[Sender[op]]
        BY <4>1, <4>2, <4>3 DEF Racers
      <4>5. e + Cardinality(was) <= Room
        BY <3>7 DEF BurstInv
      <4>6. CASE a = Lower[Sender[op]]
        <5>1. t \in was
          BY <4>4, <4>6
        <5>2. /\ Cardinality(new) <= Cardinality(was) - 1
              /\ Cardinality(new) \in Nat /\ Cardinality(was) \in Nat
          BY <1>0, <4>4, <5>1, RacersCount
        <5>3. f <= e + 1 /\ e \in Nat /\ f \in Nat
          BY <3>5
        <5> HIDE DEF new, was, e, f
        <5> QED
          BY <1>0, <4>5, <5>2, <5>3 DEF new, f
      <4>7. CASE a # Lower[Sender[op]]
        <5>1. /\ Cardinality(new) <= Cardinality(was)
              /\ Cardinality(new) \in Nat /\ Cardinality(was) \in Nat
          BY <1>0, <4>4, RacersCount
        <5>2. f = e /\ e \in Nat
          BY <3>5, <4>7
        <5> HIDE DEF new, was, e, f
        <5> QED
          BY <1>0, <4>5, <5>1, <5>2 DEF new, f
      <4> QED
        BY <4>6, <4>7
    <3>8. Present(standardPool) \subseteq Present(standardPool')
      BY <3>2
    <3> QED
      BY <1>1, <2>2, <3>1, <3>4, <3>6, <3>7, <3>8
  <2> QED
    BY <2>3, <2>4
<1>10. ASSUME NEW t \in Tasks, UpdateSeenStatus(t) PROVE BurstInv'
  <2>1. \A k : BurstOK(At(t, "seen", k), standardPool') /\ At(t, "seen", k).pc = "seen"
    BY DEF BurstOK, At, TypeOK, Task
  <2>2. BurstOK(Idle, standardPool') /\ Idle.pc = "idle"
    BY DEF BurstOK, Idle
  <2>3. \E k : Become(t, Idle) \/ Become(t, At(t, "seen", k))
    BY <1>10 DEF UpdateSeenStatus
  <2> QED
    BY <1>3, <1>4, <1>10, <2>1, <2>2, <2>3 DEF UpdateSeenStatus
<1>11. ASSUME NEW t \in Tasks, FindEntryToUpdate(t) PROVE BurstInv'
  <2>1. PICK o \in Present(standardPool), s \in {"pending", "failed"} :
          Become(t, [Idle EXCEPT !.pc = "setStatus", !.op = o, !.status = s])
    BY <1>11 DEF FindEntryToUpdate, LookUp, FindBySenderNonce
  <2> DEFINE r == [Idle EXCEPT !.pc = "setStatus", !.op = o, !.status = s]
  <2>2. r.pc = "setStatus" /\ r.op = o
    BY DEF Idle
  <2>3. UNCHANGED <<standardPool, mempoolEntryCount, countRef>>
    BY <1>11 DEF FindEntryToUpdate
  <2> HIDE DEF r
  <2>4. BurstOK(r, standardPool')
    BY <2>1, <2>2, <2>3 DEF BurstOK
  <2> QED
    BY <1>3, <1>4, <2>1, <2>2, <2>3, <2>4 DEF r
<1>12. ASSUME NEW t \in Tasks, FindPending(t) PROVE BurstInv'
  <2>1. PICK S : Become(t, [Idle EXCEPT !.pc = "take", !.hashes = S])
    BY <1>12 DEF FindPending
  <2>2. /\ BurstOK([Idle EXCEPT !.pc = "take", !.hashes = S], standardPool')
        /\ [Idle EXCEPT !.pc = "take", !.hashes = S].pc = "take"
    BY DEF BurstOK, Idle
  <2> QED
    BY <1>3, <1>4, <1>12, <2>1, <2>2 DEF FindPending
<1>13. ASSUME NEW t \in Tasks, UpdateEntryStatus(t) \/ MarkBundling(t) PROVE BurstInv'
  <2>1. Become(t, Idle) /\ UNCHANGED <<mempoolEntryCount, countRef>>
    BY <1>13 DEF UpdateEntryStatus, MarkBundling
  <2>2. Present(standardPool') = Present(standardPool)
    <3>1. CASE UpdateEntryStatus(t)
      <4>1. /\ standardPool' = [standardPool EXCEPT ![task[t].op] = task[t].status]
            /\ task[t].op \in Present(standardPool)
            /\ task[t].status \in Status
        BY <3>1 DEF UpdateEntryStatus, NewPool, BurstInv, BurstOK, TypeOK, Task
      <4> QED
        BY <1>0, <4>1 DEF Present, Status
    <3>2. CASE MarkBundling(t)
      <4>1. PICK S \in SUBSET Present(standardPool) : standardPool' = Mark(standardPool, S)
        BY <3>2 DEF MarkBundling, MutatePool
      <4> QED
        BY <1>0, <4>1 DEF Present, Mark
    <3> QED
      BY <1>13, <3>1, <3>2
  <2>3. BurstOK(Idle, standardPool') /\ Idle.pc = "idle"
    BY DEF BurstOK, Idle
  <2> QED
    BY <1>3, <1>4, <2>1, <2>2, <2>3
<1>14. ASSUME NEW t \in Tasks,
              \/ FindEntryToRemove(t) \/ FindOpsToBan(t) \/ RemoveUserOp(t)
              \/ RemoveUserOpsForBannedAddr(t) \/ CrashedHandleOps(t)
       PROVE  FALSE
  BY <1>14 DEF FindEntryToRemove, FindOpsToBan, RemoveUserOp,
               RemoveUserOpsForBannedAddr, CrashedHandleOps, Burst, BurstInv, BurstOK
<1>15. ClearMempool \/ ClearReputation => FALSE
  BY DEF ClearMempool, ClearReputation, Burst
<1>16. CASE UNCHANGED vars
  BY <1>16 DEF vars, BurstInv, PoolFinite, CountCoversPool, EntriesOf, Racers, Racing,
               CountsSeenBy, Unstaked
<1> QED
  BY <1>5, <1>6, <1>7, <1>8, <1>9, <1>10, <1>11, <1>12, <1>13, <1>14, <1>15, <1>16
  DEF Next, Begin, Continue

\* However many submissions of an unstaked sender race, its entries pass the cap
\* by at most the other calls that can be in flight.
THEOREM OvershootBounded ==
  ASSUME Burst
  PROVE  Spec => []SenderCapOvershoot
<1>0. /\ Cardinality(Tasks) \in Nat \ {0}
      /\ MaxMempoolUserOpsPerSender \in Nat
  BY FS_CardinalityType, FS_EmptySet, LimitAssumption DEF Burst
<1>1. Init => BurstInv
  <2> SUFFICES ASSUME Init PROVE BurstInv
    OBVIOUS
  <2>1. \A t \in Tasks : task[t] = Idle /\ Idle.pc = "idle"
    BY DEF Init, Idle
  <2>2. Present(standardPool) = {}
    BY DEF Init, Present, EmptyPool
  <2>3. \A a : EntriesOf(a) = {} /\ Racers(a) = {}
    BY <2>1, <2>2 DEF EntriesOf, Racers, Racing
  <2>4. \A a : Cardinality(EntriesOf(a)) = 0 /\ Cardinality(Racers(a)) = 0
    BY <2>3, FS_EmptySet
  <2>5. \A a \in Address : mempoolEntryCount[a] = 0
    BY DEF Init, ZeroCounts
  <2>6. BurstOK(Idle, standardPool) /\ PoolFinite
    BY <2>2, FS_EmptySet DEF BurstOK, Idle, PoolFinite
  <2>7. CountCoversPool
    <3> SUFFICES ASSUME NEW a \in Address
                 PROVE  Cardinality(EntriesOf(a)) <= mempoolEntryCount[a]
      BY DEF CountCoversPool
    <3> QED
      BY <2>4, <2>5
  <2> QED
    BY <1>0, <2>1, <2>4, <2>6, <2>7 DEF BurstInv
<1>2. TypeOK /\ CapturedOK /\ BurstInv /\ [Next]_vars => BurstInv'
  BY BurstStep
<1>3. BurstInv => SenderCapOvershoot
  <2> SUFFICES ASSUME BurstInv, NEW a \in Address, Unstaked(a)
               PROVE  Cardinality(EntriesOf(a))
                        <= MaxMempoolUserOpsPerSender + Cardinality(Tasks) - 1
    BY DEF SenderCapOvershoot
  <2>1. Cardinality(EntriesOf(a)) \in Nat
    BY EntriesMove DEF BurstInv
  <2>2. Racers(a) \in SUBSET Tasks
    BY DEF Racers
  <2>3. Cardinality(Racers(a)) \in Nat
    BY <2>2, RacersCount DEF Burst
  <2>4. Cardinality(EntriesOf(a)) + Cardinality(Racers(a))
          <= MaxMempoolUserOpsPerSender + Cardinality(Tasks) - 1
    BY DEF BurstInv
  <2> QED
    BY <1>0, <2>1, <2>3, <2>4
<1> QED
  BY <1>1, <1>2, <1>3, TypeCorrect, CapturedCorrect, PTL DEF Spec

==============================================================================
