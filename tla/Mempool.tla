------------------------------- MODULE Mempool -------------------------------
(***************************************************************************)
(* The mempool manager (src/src/mempool) over the state service            *)
(* (src/src/state/state.ts), with the deposit manager and the reputation   *)
(* gates it calls.  Node runs one callback at a time, so a call is a       *)
(* process whose steps are the code between two awaits:                    *)
(*                                                                         *)
(*   addUserOp      readPool -> [role 1..4 -> roles ->] write -> seen 1..8 *)
(*   removeUserOp, updateEntryStatus, getNextPending / getAllPending       *)
(*                  a look-up on the pool read, then one updateState       *)
(*   ban            removeUserOpsForBannedAddr, then crashedHandleOps, as  *)
(*                  the bundle processor calls them                        *)
(*                                                                         *)
(* A Task is one call in flight.  updateState runs its function under the  *)
(* state mutex: one action.  getState hands out the live object, not a     *)
(* copy.  Some updates mutate that object (delete, .status =) and are seen *)
(* through every reference taken earlier; others install a new object, and *)
(* earlier references keep the old one.  poolRef and countRef follow that. *)
(*                                                                         *)
(* An operation is a member of Op, which stands for its userOpHash; its    *)
(* fields are the constant functions below.  An entry of the pool is its   *)
(* status, all else being fixed by the hash.                               *)
(***************************************************************************)
EXTENDS ReputationRules, FiniteSets, FiniteSetsExt

CONSTANTS
  Op, NoOp,          \* userOpHashes; "no entry"
  Sender,            \* Op -> Address, as spelled by the client
  Nonce,             \* Op -> Nat
  Paymaster, Factory, Aggregator,     \* Op -> Address, or NoAddress
  PriorityFee, MaxFee,                \* Op -> Nat: the two fees per gas
  Number(_),         \* external: the double nearest to a fee
  Raised(_),         \* external: the least integer from Number(fee) * 1.1 on,
                     \* that product rounded to a double too
  MaxExact,          \* fees up to here lose nothing to rounding; 10^15 wei do
  MaxCost,           \* getUserOpMaxCost
  Deposit,           \* external: entryPoint.balanceOf of each address
  Tasks,             \* calls that can be in flight together
  Calls,             \* the calls the callers make
  BundleSize,
  MaxMempoolUserOpsPerSender,         \* 4 in the code
  ThrottledEntityMempoolCount,        \* 4 in the code
  NoRef, Current,    \* values of poolRef and countRef
  MaxCount           \* bound: addUserOp is called while all counters are below

CallKinds == {"add", "remove", "setStatus", "take", "ban", "clear"}
Status == {"pending", "bundling", "failed"}
Pool == [Op -> Status \cup {"absent"}]
Counts == [Address -> Nat]
Roles == <<"account", "paymaster", "deployer", "aggregator">>

ASSUME OpAssumption ==
  /\ NoOp \notin Op
  /\ Sender \in [Op -> Address]
  /\ Paymaster \in [Op -> Address \cup {NoAddress}]
  /\ Factory \in [Op -> Address \cup {NoAddress}]
  /\ Aggregator \in [Op -> Address \cup {NoAddress}]
  /\ Nonce \in [Op -> Nat]
  /\ PriorityFee \in [Op -> Nat]
  /\ MaxFee \in [Op -> Nat]
  /\ MaxCost \in [Op -> Nat]
  /\ Deposit \in [Address -> Nat]

\* What IEEE 754 promises of the fees in use: rounding keeps their order, a
\* tenth more is more, and it is a whole tenth where doubles are dense.  With
\* 53 bits they are up to 2^50 / 1.1: there the spacing is at most 1/8, and
\* the double nearest to 1.1 lies above it.
Fees == {PriorityFee[o] : o \in Op} \cup {MaxFee[o] : o \in Op}
ASSUME FloatAssumption ==
  /\ MaxExact \in Nat
  /\ \A x \in Fees : /\ Number(x) \in Nat /\ Raised(x) \in Nat
                     /\ x > 0 => Raised(x) > Number(x)
                     /\ x <= MaxExact => Number(x) = x /\ 10 * Raised(x) >= 11 * x
  /\ \A x, y \in Fees : x <= y => Number(x) <= Number(y)

ASSUME LimitAssumption ==
  /\ Calls \subseteq CallKinds
  /\ BundleSize \in Nat \ {0}
  /\ MaxMempoolUserOpsPerSender \in Nat
  /\ ThrottledEntityMempoolCount \in Nat
  /\ MaxCount \in Nat

\* The marks of a reference are told from what an object holds.
ASSUME RefAssumption ==
  /\ NoRef # Current
  /\ {NoRef, Current} \cap (Pool \cup Counts) = {}

VARIABLES
  standardPool,        \* the current pool object
  mempoolEntryCount,   \* the current count object; a missing key is 0
  reputationEntries,
  task,                \* each call in flight and what it captured
  poolRef, countRef    \* the objects an addUserOp call still refers to

vars == <<standardPool, mempoolEntryCount, reputationEntries, task,
          poolRef, countRef>>

PCs == {"idle", "readPool", "role", "roles", "write", "seen",
        "remove", "setStatus", "take", "banRemove", "banMark"}
Task == [pc : PCs,
         op : Op \cup {NoOp},           \* userOp, or the entry looked up
         old : Op \cup {NoOp},          \* metadata.oldEntry
         step : 0..8,                   \* position in Roles or in updateSeenStatus
         hashes : SUBSET Op,            \* entries captured by take and by ban
         status : Status,               \* the status to set
         addr : Address \cup {NoAddress}]
Idle == [pc |-> "idle", op |-> NoOp, old |-> NoOp, step |-> 0,
         hashes |-> {}, status |-> "pending", addr |-> NoAddress]

Become(t, r) == task' = [task EXCEPT ![t] = r]
Call(pc, op) == [Idle EXCEPT !.pc = pc, !.op = op]
Replacing(t, old) == [task[t] EXCEPT !.pc = "write", !.old = old]
At(t, pc, k) == [task[t] EXCEPT !.pc = pc, !.step = k]

------------------------------------------------------------------------------
(* Reading the pool *)

Present(pool) == {o \in Op : pool[o] # "absent"}

\* Seeded bug: senders compared as spelled.
FindBySpelledSender(pool, op) ==
  {o \in Present(pool) : Sender[o] = Sender[op] /\ Nonce[o] = Nonce[op]}

\* findBySenderNonce: any match, where the code takes the oldest.
FindBySenderNonce(pool, op) ==
  {o \in Present(pool) : /\ Lower[Sender[o]] = Lower[Sender[op]]
                         /\ Nonce[o] = Nonce[op]}

GetKnownSenders(pool) == {Lower[Sender[o]] : o \in Present(pool)}

LowerAll(S) == {Lower[a] : a \in S \ {NoAddress}}
GetKnownEntities(pool) ==
  LowerAll(UNION {{Paymaster[o], Factory[o]} : o \in Present(pool)})

\* Seeded bug: only the new operation's entities are looked at.
EntityIsSender(pool, op) ==
  LowerAll({Paymaster[op], Factory[op]}) \cap GetKnownSenders(pool) # {}

MultipleRolesViolation(pool, op) ==
  \/ Lower[Sender[op]] \in GetKnownEntities(pool)
  \/ LowerAll({Paymaster[op], Factory[op]}) \cap GetKnownSenders(pool) # {}

\* Seeded bug: old and new swapped in the comparison.
FeesMayDrop(new, old) ==
  \A fee \in {PriorityFee, MaxFee} : Raised(fee[new]) >= Number(fee[old])

\* checkReplaceUserOp: Number(new) >= Number(old) * 1.1 for both fees.
FeesReplace(new, old) ==
  \A fee \in {PriorityFee, MaxFee} : Number(fee[new]) >= Raised(fee[old])

\* Seeded bug: the new operation's own cost is left out.
DepositCoversOthers(pool, op) ==
  Paymaster[op] # NoAddress =>
    LET shared == {o \in Present(pool) : Paymaster[o] = Paymaster[op]}
    IN  MaxCost[op] * Cardinality(shared) <= Deposit[Paymaster[op]]

\* checkPaymasterDeposit: the new operation's cost once for itself and once
\* for every entry of the same paymaster, spelled the same.
DepositCovers(pool, op) ==
  Paymaster[op] # NoAddress =>
    LET shared == {o \in Present(pool) : Paymaster[o] = Paymaster[op]}
    IN  MaxCost[op] * (1 + Cardinality(shared)) <= Deposit[Paymaster[op]]

RoleAddress(op, role) == CASE role = "account" -> Sender[op]
                           [] role = "paymaster" -> Paymaster[op]
                           [] role = "deployer" -> Factory[op]
                           [] role = "aggregator" -> Aggregator[op]

\* Seeded bug: the cap itself is let through.
CheckAboveCap(entries, counts, role, addr) ==
  LET max == IF role = "account" THEN MaxMempoolUserOpsPerSender
             ELSE MaxAllowedMempoolOpsUnstaked(entries, addr)
  IN  /\ GetStatus(entries, addr) # "BANNED"
      /\ counts[Lower[addr]] > max => PassesStake(entries, addr)

\* checkReputationStatus of one entity; the entries are read at one moment.
CheckReputationStatus(entries, counts, role, addr) ==
  LET max == IF role = "account" THEN MaxMempoolUserOpsPerSender
             ELSE MaxAllowedMempoolOpsUnstaked(entries, addr)
      found == counts[Lower[addr]]
      status == GetStatus(entries, addr)
  IN  /\ status # "BANNED"
      /\ found > ThrottledEntityMempoolCount => status # "THROTTLED"
      /\ found >= max => PassesStake(entries, addr)

------------------------------------------------------------------------------
(* Writing the state *)

\* What a call sees through the reference it holds.
PoolSeenBy(t) == IF poolRef[t] = Current THEN standardPool ELSE poolRef[t]
CountsSeenBy(t) == IF countRef[t] = Current THEN mempoolEntryCount
                   ELSE countRef[t]

\* References to the current object are left with its last content.
Leave(ref, content) ==
  [t \in Tasks |-> IF ref[t] = Current THEN content ELSE ref[t]]

\* updateFn returned a new pool object; the old one ends as `left`.
NewPool(pool, left) ==
  /\ standardPool' = pool
  /\ poolRef' = Leave(poolRef, left)

NewCounts(counts) ==
  /\ mempoolEntryCount' = counts
  /\ countRef' = Leave(countRef, mempoolEntryCount)

MutatePool(pool) == standardPool' = pool /\ UNCHANGED poolRef
MutateCounts(counts) == mempoolEntryCount' = counts /\ UNCHANGED countRef

\* Seeded bug: every entry of the same sender and nonce goes too.
WithoutSlots(pool, S) ==
  [o \in Op |-> IF \E s \in S : Sender[o] = Sender[s] /\ Nonce[o] = Nonce[s]
                THEN "absent" ELSE pool[o]]

Without(pool, S) == [o \in Op |-> IF o \in S THEN "absent" ELSE pool[o]]

\* Seeded bug: counted as spelled, read in lower case.
SpelledKeys(op) == {Sender[op], Paymaster[op], Factory[op]} \ {NoAddress}

\* The keys doUpdateMempoolState counts for a new entry.
CountedKeys(op) == LowerAll({Sender[op], Paymaster[op], Factory[op]})

CountEntry(counts, op) ==
  [a \in Address |-> IF a \in CountedKeys(op) THEN counts[a] + 1 ELSE counts[a]]

\* Seeded bug: the count of a sender already at zero goes below it.
UncountBelowZero(counts, op) == [counts EXCEPT ![Sender[op]] = @ - 1]

\* removeUserOp's decrement: the sender as spelled; a key at 1 is deleted.
UncountSender(counts, op) ==
  [counts EXCEPT ![Sender[op]] = IF @ <= 1 THEN 0 ELSE @ - 1]

\* removeUserOpsForBannedAddr deletes every key of every removed entry.
BanKeys(S) ==
  UNION {{Sender[o], Paymaster[o], Factory[o]} : o \in S} \ {NoAddress}
DropKeys(counts, keys) ==
  [a \in Address |-> IF a \in keys THEN 0 ELSE counts[a]]

------------------------------------------------------------------------------
(* addUserOp *)

BelowBounds ==
  \A a \in Address : /\ mempoolEntryCount[a] < MaxCount
                     /\ reputationEntries[a].opsSeen < MaxCount

\* await checkPaymasterDeposit; when it throws the call is over.
CheckPaymasterDeposit(t) ==
  /\ task[t].pc = "idle"
  /\ "add" \in Calls
  /\ BelowBounds
  /\ \E op \in Op :
       /\ DepositCovers(standardPool, op)
       /\ Become(t, Call("readPool", op))
  /\ UNCHANGED <<standardPool, mempoolEntryCount, reputationEntries,
                 poolRef, countRef>>

\* getState of both keys, then findBySenderNonce on the pool it returned.  A
\* match goes to checkReplaceUserOp and past every other check.
ReadPool(t) ==
  LET op == task[t].op
      matches == FindBySenderNonce(standardPool, op)
  IN
  /\ task[t].pc = "readPool"
  /\ \/ /\ matches = {}
        /\ Become(t, At(t, "role", 1))
        /\ poolRef' = [poolRef EXCEPT ![t] = Current]
        /\ countRef' = [countRef EXCEPT ![t] = Current]
     \/ \E old \in matches :
          /\ IF FeesReplace(op, old)
             THEN Become(t, Replacing(t, old))
             ELSE Become(t, Idle)
          /\ UNCHANGED <<poolRef, countRef>>
  /\ UNCHANGED <<standardPool, mempoolEntryCount, reputationEntries>>

DropRefs(t) ==
  /\ poolRef' = [poolRef EXCEPT ![t] = NoRef]
  /\ countRef' = [countRef EXCEPT ![t] = NoRef]

\* checkReputation: one role a step, in the order of Roles.
CheckRole(t) ==
  LET role == Roles[task[t].step]
      addr == RoleAddress(task[t].op, role)
  IN
  /\ task[t].pc = "role"
  /\ IF \/ addr = NoAddress
        \/ CheckReputationStatus(reputationEntries, CountsSeenBy(t), role, addr)
     THEN /\ Become(t, IF task[t].step < 4
                       THEN At(t, "role", task[t].step + 1)
                       ELSE At(t, "roles", 0))
          /\ UNCHANGED <<poolRef, countRef>>
     ELSE Become(t, Idle) /\ DropRefs(t)
  /\ UNCHANGED <<standardPool, mempoolEntryCount, reputationEntries>>

\* checkMultipleRolesViolation, still on the pool read before the checks.
CheckMultipleRoles(t) ==
  /\ task[t].pc = "roles"
  /\ Become(t, IF MultipleRolesViolation(PoolSeenBy(t), task[t].op)
               THEN Idle ELSE At(t, "write", 0))
  /\ DropRefs(t)
  /\ UNCHANGED <<standardPool, mempoolEntryCount, reputationEntries>>

\* updateState(doUpdateMempoolState)
DoUpdateMempoolState(t) ==
  LET op == task[t].op
      old == task[t].old
  IN
  /\ task[t].pc = "write"
  /\ \/ /\ old # NoOp        \* delete in place, then spread; counts as they are
        /\ NewPool([Without(standardPool, {old}) EXCEPT ![op] = "pending"],
                   Without(standardPool, {old}))
        /\ Become(t, At(t, "seen", 1))
        /\ UNCHANGED <<mempoolEntryCount, countRef>>
     \/ /\ old = NoOp
        /\ NewPool([standardPool EXCEPT ![op] = "pending"], standardPool)
        /\ NewCounts(CountEntry(mempoolEntryCount, op))
        /\ Become(t, At(t, "seen", 5))
  /\ UNCHANGED reputationEntries

\* Seeded bug: the two actions of addUserOp swapped.
SwappedActions(k) == IF k \in 1..4 THEN "increment" ELSE "decrement"
SeenAction(k) == IF k \in 2..4 THEN "decrement" ELSE "increment"

\* updateSeenStatus, one await a step: steps 1-4 for the entry replaced, 5-8
\* for the new one.  The sender counts upwards both times, and only if staked.
UpdateSeenStatus(t) ==
  LET k == task[t].step
      subject == IF k <= 4 THEN task[t].old ELSE task[t].op
      addr == <<Sender[subject], Aggregator[subject],
                Paymaster[subject], Factory[subject]>>[((k - 1) % 4) + 1]
      skip == IF k \in {1, 5}
              THEN ~PassesStake(reputationEntries, Sender[task[t].op])
              ELSE addr = NoAddress
  IN
  /\ task[t].pc = "seen"
  /\ reputationEntries' = IF skip THEN reputationEntries
                          ELSE SeenUpdate(reputationEntries, addr, SeenAction(k))
  /\ Become(t, IF k = 8 THEN Idle ELSE At(t, "seen", k + 1))
  /\ UNCHANGED <<standardPool, mempoolEntryCount, poolRef, countRef>>

------------------------------------------------------------------------------
(* removeUserOp *)

\* The entry is found by hash, or by the sender and nonce of some operation.
LookUp(pool) ==
  Present(pool) \cup UNION {FindBySenderNonce(pool, op) : op \in Op}

FindEntryToRemove(t) ==
  /\ task[t].pc = "idle"
  /\ "remove" \in Calls
  /\ \E o \in LookUp(standardPool) :
       Become(t, Call("remove", o))
  /\ UNCHANGED <<standardPool, mempoolEntryCount, reputationEntries,
                 poolRef, countRef>>

\* Deletes and decrements without asking whether the entry is still there.
RemoveUserOp(t) ==
  /\ task[t].pc = "remove"
  /\ MutatePool(Without(standardPool, {task[t].op}))
  /\ MutateCounts(UncountSender(mempoolEntryCount, task[t].op))
  /\ Become(t, Idle)
  /\ UNCHANGED reputationEntries

------------------------------------------------------------------------------
(* updateEntryStatus *)

\* Its callers set 'pending' (builder, processor) and 'failed' (events).
FindEntryToUpdate(t) ==
  /\ task[t].pc = "idle"
  /\ "setStatus" \in Calls
  /\ \E o \in LookUp(standardPool), s \in {"pending", "failed"} :
       Become(t, [Idle EXCEPT !.pc = "setStatus", !.op = o, !.status = s])
  /\ UNCHANGED <<standardPool, mempoolEntryCount, reputationEntries,
                 poolRef, countRef>>

\* Writes the entry captured before the await into a copy of today's pool.
UpdateEntryStatus(t) ==
  /\ task[t].pc = "setStatus"
  /\ NewPool([standardPool EXCEPT ![task[t].op] = task[t].status], standardPool)
  /\ Become(t, Idle)
  /\ UNCHANGED <<mempoolEntryCount, reputationEntries, countRef>>

------------------------------------------------------------------------------
(* getNextPending and getAllPending *)

Pending(pool) == {o \in Op : pool[o] = "pending"}

\* getNextPending takes BundleSize of them (any, where the code takes the
\* oldest), getAllPending takes them all.
FindPending(t) ==
  LET pending == Pending(standardPool)
      n == IF Cardinality(pending) < BundleSize THEN Cardinality(pending)
           ELSE BundleSize
  IN
  /\ task[t].pc = "idle"
  /\ "take" \in Calls
  /\ \E S \in {P \in SUBSET pending : Cardinality(P) = n} \cup {pending} :
       Become(t, [Idle EXCEPT !.pc = "take", !.hashes = S])
  /\ UNCHANGED <<standardPool, mempoolEntryCount, reputationEntries,
                 poolRef, countRef>>

Mark(pool, S) == [o \in Op |-> IF o \in S THEN "bundling" ELSE pool[o]]

\* standardPool[hash].status = 'bundling' hash by hash; a hash that has gone
\* is a TypeError, and the ones before it stay marked.
MarkBundling(t) ==
  LET S == task[t].hashes
  IN
  /\ task[t].pc = "take"
  /\ IF S \subseteq Present(standardPool)
     THEN MutatePool(Mark(standardPool, S))
     ELSE \E done \in SUBSET (S \cap Present(standardPool)) :
            MutatePool(Mark(standardPool, done))
  /\ Become(t, Idle)
  /\ UNCHANGED <<mempoolEntryCount, reputationEntries, countRef>>

------------------------------------------------------------------------------
(* The bundle processor bans an entity *)

\* removeUserOpsForBannedAddr compares addresses as spelled.
UsesEntity(o, a) == a \in {Sender[o], Paymaster[o], Factory[o]}

FindOpsToBan(t) ==
  /\ task[t].pc = "idle"
  /\ "ban" \in Calls
  /\ \E a \in Address :
       /\ reputationEntries[Lower[a]].opsSeen < MaxCount
       /\ Become(t, [Idle EXCEPT !.pc = "banRemove", !.addr = a,
                       !.hashes = {o \in Present(standardPool) :
                                     UsesEntity(o, a)}])
  /\ UNCHANGED <<standardPool, mempoolEntryCount, reputationEntries,
                 poolRef, countRef>>

RemoveUserOpsForBannedAddr(t) ==
  /\ task[t].pc = "banRemove"
  /\ MutatePool(Without(standardPool, task[t].hashes))
  /\ MutateCounts(DropKeys(mempoolEntryCount, BanKeys(task[t].hashes)))
  /\ Become(t, [Idle EXCEPT !.pc = "banMark", !.addr = task[t].addr])
  /\ UNCHANGED reputationEntries

CrashedHandleOps(t) ==
  /\ task[t].pc = "banMark"
  /\ reputationEntries' = CrashUpdate(reputationEntries, task[t].addr)
  /\ Become(t, Idle)
  /\ UNCHANGED <<standardPool, mempoolEntryCount, poolRef, countRef>>

------------------------------------------------------------------------------
(* The debug API clears the mempool, or the reputations *)

EmptyPool == [o \in Op |-> "absent"]
ZeroCounts == [a \in Address |-> 0]
NoEntries == [a \in Address |-> ZeroEntry]

ClearMempool ==
  /\ "clear" \in Calls
  /\ NewPool(EmptyPool, standardPool)
  /\ NewCounts(ZeroCounts)
  /\ UNCHANGED <<reputationEntries, task>>

ClearReputation ==
  /\ "clear" \in Calls
  /\ reputationEntries' = NoEntries
  /\ UNCHANGED <<standardPool, mempoolEntryCount, task, poolRef, countRef>>

------------------------------------------------------------------------------
Init ==
  /\ standardPool = EmptyPool
  /\ mempoolEntryCount = ZeroCounts
  /\ reputationEntries = NoEntries
  /\ task = [t \in Tasks |-> Idle]
  /\ poolRef = [t \in Tasks |-> NoRef]
  /\ countRef = [t \in Tasks |-> NoRef]

\* A new call arrives.
Begin(t) ==
  \/ CheckPaymasterDeposit(t)
  \/ FindEntryToRemove(t)
  \/ FindEntryToUpdate(t)
  \/ FindPending(t)
  \/ FindOpsToBan(t)

\* A call in flight goes on.
Continue(t) ==
  \/ ReadPool(t)
  \/ CheckRole(t)
  \/ CheckMultipleRoles(t)
  \/ DoUpdateMempoolState(t)
  \/ UpdateSeenStatus(t)
  \/ RemoveUserOp(t)
  \/ UpdateEntryStatus(t)
  \/ MarkBundling(t)
  \/ RemoveUserOpsForBannedAddr(t)
  \/ CrashedHandleOps(t)

Next ==
  \/ \E t \in Tasks : Begin(t) \/ Continue(t)
  \/ ClearMempool
  \/ ClearReputation

Spec == Init /\ [][Next]_vars

------------------------------------------------------------------------------
(* Properties *)

\* The shape of the state; every status is one the code's callers set.
TypeOK ==
  /\ standardPool \in Pool
  /\ mempoolEntryCount \in Counts
  /\ reputationEntries \in [Address -> ReputationEntry]
  /\ task \in [Tasks -> Task]
  /\ poolRef \in [Tasks -> Pool \cup {NoRef, Current}]
  /\ countRef \in [Tasks -> Counts \cup {NoRef, Current}]

Enters(o) == standardPool[o] = "absent" /\ standardPool'[o] # "absent"
Leaves(o) == standardPool[o] # "absent" /\ standardPool'[o] = "absent"
SameSlot(o, p) == Lower[Sender[o]] = Lower[Sender[p]] /\ Nonce[o] = Nonce[p]

\* No update of the pool loses an operation another call put there: an entry
\* leaves only because a call removes that entry, replaces it, bans one of its
\* addresses, or the whole pool is cleared.
LeavesForAReason(o) ==
  \/ \E t \in Tasks :
       \/ task[t].pc = "remove" /\ task[t].op = o
       \/ task[t].pc = "write" /\ task[t].old = o
       \/ task[t].pc = "banRemove" /\ UsesEntity(o, task[t].addr)
  \/ standardPool' = EmptyPool /\ mempoolEntryCount' = ZeroCounts
NoLostEntry == [][\A o \in Op : Leaves(o) => LeavesForAReason(o)]_vars

\* When one step takes an operation out and puts another in, the new one has
\* the same sender and nonce and pays more in both fees, however many calls
\* race for that slot: at least 10% more while the fees are exact, and at any
\* size strictly more, whatever rounding does (only a fee of 0 may stay 0).
Outbids(new, old) ==
  /\ old > 0 => new > old
  /\ new <= MaxExact => 10 * new >= 11 * old
ReplacementPaysMore ==
  [][\A o, n \in Op :
       Leaves(o) /\ Enters(n) =>
         /\ SameSlot(o, n)
         /\ Outbids(PriorityFee[n], PriorityFee[o])
         /\ Outbids(MaxFee[n], MaxFee[o])]_vars

\* addUserOp replaces: two operations of one sender never share a nonce.
OneEntryPerSenderNonce ==
  \A o, p \in Present(standardPool) : SameSlot(o, p) => o = p

EntriesOf(a) == {o \in Present(standardPool) : Lower[Sender[o]] = a}
Unstaked(a) == \A s \in Staked : Lower[s] # a

\* An unstaked sender has at most MaxMempoolUserOpsPerSender entries.
UnstakedSenderCap ==
  \A a \in Address : Unstaked(a) =>
    Cardinality(EntriesOf(a)) <= MaxMempoolUserOpsPerSender

\* Calls that pass the cap check on the same count overshoot it, but only by
\* as many as can be in flight together.
SenderCapOvershoot ==
  \A a \in Address : Unstaked(a) =>
    Cardinality(EntriesOf(a)) <=
      MaxMempoolUserOpsPerSender + Cardinality(Tasks) - 1

\* The count that gates a sender never falls below its entries in the pool.
CountCoversPool ==
  \A a \in Address : Cardinality(EntriesOf(a)) <= mempoolEntryCount[a]

\* The count of an address is the number of entries it appears in.
CountIsExact ==
  (\A t \in Tasks : task[t].pc = "idle") =>
    \A a \in Address : mempoolEntryCount[a] =
      Cardinality({o \in Present(standardPool) : a \in CountedKeys(o)})

\* What checkPaymasterDeposit does guarantee, whatever the operations cost:
\* the deposit pays for every entry as often as the pool holds entries of the
\* same paymaster, spelled the same, that cost that much or more.
SpelledAlike(a) == {o \in Present(standardPool) : Paymaster[o] = a}
AsDear(e) == {o \in SpelledAlike(Paymaster[e]) : MaxCost[o] >= MaxCost[e]}
DepositCoversDearer ==
  \A e \in Present(standardPool) : Paymaster[e] # NoAddress =>
    MaxCost[e] * Cardinality(AsDear(e)) <= Deposit[Paymaster[e]]

\* EREP-010 (deposit-manager.ts:17): the operations of a paymaster in the
\* mempool cost at most what it has on deposit.  The code does not keep it.
Cost(o) == MaxCost[o]
PaidBy(a) == {o \in Present(standardPool) : a \in LowerAll({Paymaster[o]})}
PaymasterSolvent ==
  \A a \in Address : MapThenSumSet(Cost, PaidBy(a)) <= Deposit[a]

\* Between calls, a paymaster has been seen at least once for every entry it
\* pays for: replacing an entry takes back no more than that entry gave.
SeenCoversPool ==
  (\A t \in Tasks : task[t].pc = "idle") =>
    \A a \in Address :
      Cardinality(PaidBy(a)) <= reputationEntries[a].opsSeen

\* No address is the sender of one entry and an entity of another.
RolesDisjoint ==
  \A o, p \in Present(standardPool) : o # p =>
    Lower[Sender[o]] \notin LowerAll({Paymaster[p], Factory[p]})

\* GREP-010: an operation enters only while none of its entities is banned.
BannedNotAdmitted ==
  [][\A o \in Op : Enters(o) =>
       \A a \in {Sender[o], Paymaster[o], Factory[o]} \ {NoAddress} :
         GetStatus(reputationEntries, a) # "BANNED"]_vars

\* An operation enters the pool only through addUserOp: what was removed stays
\* removed until it is sent again.
RemovedStaysRemoved ==
  [][\A o \in Op : Enters(o) =>
       \E t \in Tasks : task[t].pc = "write" /\ task[t].op = o]_vars
==============================================================================
