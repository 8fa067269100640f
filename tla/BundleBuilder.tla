---------------------------- MODULE BundleBuilder ----------------------------
(***************************************************************************)
(* createBundle of src/src/bundle/builder: entries are taken from the      *)
(* mempool and marked 'bundling', validated a second time one after the    *)
(* other and put into the bundle, back among the pending ones, or among    *)
(* those to remove; the after hook then carries out the last two.          *)
(*                                                                         *)
(*   take -> known -> (read -> judge) for each entry -> hook -> idle       *)
(*                                                                         *)
(* The steps are the code between two awaits.  In between other calls may  *)
(* submit and remove operations and move reputations; the single update    *)
(* of the pool that they and the hook make is one step here, its own       *)
(* races are the subject of Mempool.  What a validation, the entry point   *)
(* or a signature recovery answers is an input.                            *)
(***************************************************************************)
EXTENDS ReputationRules, Sequences, FiniteSets, SequencesExt, FiniteSetsExt

CONSTANTS
  Op,
  Sender, Paymaster, Factory,   \* as in Mempool
  Signer, Delegate,             \* the authority and address of eip7702Auth
  Gas,              \* preOpGas + callGasLimit
  Prefund,
  Touches,          \* addresses, in lower case, in the validation's storage map
  Deposit,          \* external: entryPoint.balanceOf
  Verdicts,         \* outcomes of the second validation that occur
  BundleSize,
  MaxBundleGas,
  ThrottledEntityBundleCount,   \* 4 in the code
  SeenBound         \* bound: how far opsSeen of an address is moved elsewhere

\* A validation passes, or fails with FailedOp and an AA code, with an error
\* that holds no FailedOp, or with revert data that no known error matches.
AllVerdicts == {"ok", "AA1", "AA2", "AA3", "AA9", "noFailedOp", "unknownData"}
Dropped == (AllVerdicts \ {"ok"}) \cup {"banned"}

ASSUME BuilderAssumption ==
  /\ IsFiniteSet(Op)
  /\ Sender \in [Op -> Address]
  /\ Paymaster \in [Op -> Address \cup {NoAddress}]
  /\ Factory \in [Op -> Address \cup {NoAddress}]
  /\ Signer \in [Op -> Address \cup {NoAddress}]
  /\ Delegate \in [Op -> Address \cup {NoAddress}]
  /\ \A o \in Op : Signer[o] = NoAddress <=> Delegate[o] = NoAddress
  /\ Gas \in [Op -> Nat]
  /\ Prefund \in [Op -> Nat]
  /\ Touches \in [Op -> SUBSET Address]
  /\ Deposit \in [Address -> Nat]
  /\ Verdicts \subseteq AllVerdicts
  /\ BundleSize \in Nat \ {0}
  /\ MaxBundleGas \in Nat
  /\ ThrottledEntityBundleCount \in Nat
  /\ SeenBound \in [Address -> Nat]

VARIABLES
  pool,               \* the status of each operation in the mempool
  reputationEntries,
  pc,
  entries,            \* the entries still to be looked at
  knownSenders,
  statuses,           \* of the paymaster and the factory, read for this entry
  acc,                \* BundleBuilderResult
  todo,               \* what the after hook has still to remove
  sent,               \* external: what the processor was given and not settled
  lost                \* history: marked entries that no list holds any more

vars == <<pool, reputationEntries, pc, entries, knownSenders, statuses, acc,
          todo, sent, lost>>

Unset == -1
Result == [bundle : Seq(Op),
           tuples : SUBSET [signer : Address, delegate : Address],
           notIncluded : Seq(Op),
           toRemove : Seq([op : Op, reason : Dropped]),
           totalGas : Nat,
           paymasterDeposit : [Address -> Nat \cup {Unset}],
           stakedEntityCount : [Address -> Nat],
           senders : SUBSET Address]
EmptyResult == [bundle |-> <<>>, tuples |-> {}, notIncluded |-> <<>>,
                toRemove |-> <<>>, totalGas |-> 0,
                paymasterDeposit |-> [a \in Address |-> Unset],
                stakedEntityCount |-> [a \in Address |-> 0],
                senders |-> {}]

------------------------------------------------------------------------------
(* Taking the entries *)

Pending == {o \in Op : pool[o] = "pending"}

\* getEntries: with force every pending entry, otherwise BundleSize of them.
TakeEntries ==
  /\ pc = "idle"
  /\ Pending # {}
  /\ LET n == IF Cardinality(Pending) < BundleSize THEN Cardinality(Pending)
              ELSE BundleSize
     IN  \E S \in {P \in SUBSET Pending : Cardinality(P) = n} \cup {Pending} :
           /\ entries' \in SetToSeqs(S)
           /\ pool' = [o \in Op |-> IF o \in S THEN "bundling" ELSE pool[o]]
  /\ pc' = "known"
  /\ acc' = EmptyResult
  /\ UNCHANGED <<reputationEntries, knownSenders, statuses, todo, sent, lost>>

GetKnownSenders ==
  /\ pc = "known"
  /\ knownSenders' = {Lower[Sender[o]] : o \in {p \in Op : pool[p] # "absent"}}
  /\ pc' = "read"
  /\ UNCHANGED <<pool, reputationEntries, entries, statuses, acc, todo, sent, lost>>

------------------------------------------------------------------------------
(* One entry *)

StatusOf(a) == IF a = NoAddress THEN "OK" ELSE GetStatus(reputationEntries, a)

OpsOf(removals) == {r.op : r \in ToSet(removals)}
Held(ops) == {o \in ops : pool[o] = "bundling"}

\* The deposit is fetched when it is missing, and when it is 0n.
Fetches(deposit, p) == p # NoAddress /\ deposit[p] \in {Unset, 0}
FetchDeposit(deposit, p) ==
  IF Fetches(deposit, p) THEN [deposit EXCEPT ![p] = Deposit[p]] ELSE deposit

\* balanceOf and the two statuses are read before the validation is awaited.
ReadEntry ==
  /\ pc = "read"
  /\ entries # <<>>
  /\ LET o == Head(entries)
     IN  /\ acc' = [acc EXCEPT !.paymasterDeposit = FetchDeposit(@, Paymaster[o])]
         /\ statuses' = [paymaster |-> StatusOf(Paymaster[o]),
                         factory |-> StatusOf(Factory[o])]
  /\ pc' = "judge"
  /\ UNCHANGED <<pool, reputationEntries, entries, knownSenders, todo, sent, lost>>

\* balanceOf rejects, and createBundle with it: nothing is sent, sent back or
\* removed.
BalanceRejects ==
  /\ pc = "read"
  /\ entries # <<>>
  /\ Fetches(acc.paymasterDeposit, Paymaster[Head(entries)])
  /\ pc' = "idle"
  /\ lost' = lost \cup Held(ToSet(entries) \cup ToSet(acc.bundle)
                             \cup ToSet(acc.notIncluded) \cup OpsOf(acc.toRemove))
  /\ UNCHANGED <<pool, reputationEntries, entries, knownSenders, statuses, acc,
                 todo, sent>>

IsBanned == "BANNED" \in {statuses.paymaster, statuses.factory}

\* Seeded bug: one more than the limit.
ThrottledAboveLimit(entity, status) ==
  /\ status = "THROTTLED"
  /\ entity # NoAddress
  /\ acc.stakedEntityCount[entity] > ThrottledEntityBundleCount

IsEntityThrottled(entity, status) ==
  /\ status = "THROTTLED"
  /\ entity # NoAddress
  /\ acc.stakedEntityCount[entity] >= ThrottledEntityBundleCount

\* Seeded bug: only an operation that fills the bundle on its own is too big.
ExceedsAlone(o) == Gas[o] > MaxBundleGas
ExceedBundleGasLimit(o) == acc.totalGas + Gas[o] > MaxBundleGas

\* Seeded bug: only the senders of the bundle so far are looked at.
AccessesBundledSenders(o) ==
  (Touches[o] \ {Lower[Sender[o]]}) \cap acc.senders # {}

AccessesOtherSendersStorage(o) ==
  (Touches[o] \ {Lower[Sender[o]]}) \cap knownSenders # {}

PaymasterHasInsufficientDeposit(o) ==
  Paymaster[o] # NoAddress /\ acc.paymasterDeposit[Paymaster[o]] < Prefund[o]

\* shouldIncludeInBundle, after the check for a ban.
ShouldInclude(o) ==
  /\ ~IsEntityThrottled(Paymaster[o], statuses.paymaster)
  /\ ~IsEntityThrottled(Factory[o], statuses.factory)
  /\ Sender[o] \notin acc.senders
  /\ ~AccessesOtherSendersStorage(o)
  /\ ~ExceedBundleGasLimit(o)
  /\ ~PaymasterHasInsufficientDeposit(o)

\* updateEntityStakeCountAndDeposit: with a factory, the count starts again from
\* the one before the paymaster was counted.
CountEntities(count, o) ==
  LET entity == IF Factory[o] # NoAddress THEN Factory[o] ELSE Paymaster[o]
  IN  IF entity = NoAddress THEN count
      ELSE [count EXCEPT ![entity] = @ + 1]
ChargeDeposit(deposit, o) ==
  IF Paymaster[o] = NoAddress THEN deposit
  ELSE [deposit EXCEPT ![Paymaster[o]] = @ - Prefund[o]]

\* Seeded bug: a second tuple of one signer always passes.
NeverConflicts(o) == FALSE
TupleConflicts(o) ==
  \E t \in acc.tuples : t.signer = Signer[o] /\ Lower[t.delegate] # Lower[Delegate[o]]

\* mergeEip7702Authorizations: the first tuple of a signer is the one kept.
MergedTuples(o) ==
  IF Signer[o] = NoAddress \/ \E t \in acc.tuples : t.signer = Signer[o]
  THEN acc.tuples
  ELSE acc.tuples \cup {[signer |-> Signer[o], delegate |-> Delegate[o]]}

Drop(o, reason) ==
  [acc EXCEPT !.toRemove = Append(@, [op |-> o, reason |-> reason])]
\* Seeded bug: an operation that does not fit is forgotten.
ForgetSkipped(o) == acc
Skip(o) == [acc EXCEPT !.notIncluded = Append(@, o)]
Charged(o) ==
  [acc EXCEPT !.stakedEntityCount = CountEntities(@, o),
              !.paymasterDeposit = ChargeDeposit(@, o)]
Include(o) ==
  [Charged(o) EXCEPT !.tuples = MergedTuples(o),
                     !.bundle = Append(@, o),
                     !.totalGas = @ + Gas[o],
                     !.senders = @ \cup {Sender[o]}]

\* The validation settles and the entry is judged without another await.  On a
\* conflict of tuples the entry is charged and goes nowhere.
JudgeEntry ==
  LET o == Head(entries)
  IN
  /\ pc = "judge"
  /\ \E verdict \in Verdicts :
       /\ acc' = IF verdict # "ok" THEN Drop(o, verdict)
                 ELSE IF IsBanned THEN Drop(o, "banned")
                 ELSE IF ~ShouldInclude(o) THEN Skip(o)
                 ELSE IF TupleConflicts(o) THEN Charged(o)
                 ELSE Include(o)
       /\ lost' = IF verdict = "ok" /\ ~IsBanned /\ ShouldInclude(o) /\ TupleConflicts(o)
                  THEN lost \cup Held({o}) ELSE lost
  /\ entries' = Tail(entries)
  /\ pc' = "read"
  /\ UNCHANGED <<pool, reputationEntries, knownSenders, statuses, todo, sent>>

------------------------------------------------------------------------------
(* afterHook *)

BeginHook ==
  /\ pc = "read"
  /\ entries = <<>>
  /\ pc' = "pending"
  /\ entries' = acc.notIncluded
  /\ todo' = acc.toRemove
  /\ UNCHANGED <<pool, reputationEntries, knownSenders, statuses, acc, sent, lost>>

\* updateEntryStatus(hash, 'pending') for the entries not included.
SendBack ==
  /\ pc = "pending"
  /\ entries # <<>>
  /\ LET o == Head(entries)
     IN  pool' = IF pool[o] = "absent" THEN pool
                 ELSE [pool EXCEPT ![o] = "pending"]
  /\ entries' = Tail(entries)
  /\ UNCHANGED <<reputationEntries, pc, knownSenders, statuses, acc, todo, sent, lost>>

BeginRemovals ==
  /\ pc = "pending"
  /\ entries = <<>>
  /\ pc' = "remove"
  /\ UNCHANGED <<pool, reputationEntries, entries, knownSenders, statuses, acc,
                 todo, sent, lost>>

IsStaked(a) == a # NoAddress /\ \E s \in Staked : Lower[s] = Lower[a]

\* findEntityToBlame; NoAddress is undefined.
FindEntityToBlame(reason, o) ==
  CASE reason = "AA3" -> IF IsStaked(Sender[o]) THEN Sender[o] ELSE Paymaster[o]
    [] reason = "AA2" -> IF IsStaked(Factory[o]) THEN Factory[o] ELSE Sender[o]
    [] reason = "AA1" -> Factory[o]
    [] OTHER -> NoAddress

Seen(reps, a, action) ==
  IF a = NoAddress THEN reps ELSE SeenUpdate(reps, a, action)

\* addr is never null, so the entities are given back also when nobody is to
\* blame (undefined).
Blame(reps, reason, o) ==
  LET undone == Seen(Seen(Seen(reps, Sender[o], "decrement"),
                          Paymaster[o], "decrement"), Factory[o], "decrement")
  IN  Seen(undone, FindEntityToBlame(reason, o), "increment")

RemoveFromPool(o) == pool' = [pool EXCEPT ![o] = "absent"]

\* A FailedOp: the reputations are corrected, four updates in a row that nothing
\* here reads in between, and the operation is removed.
RemoveFailed ==
  /\ pc = "remove"
  /\ todo # <<>>
  /\ Head(todo).reason \in {"AA1", "AA2", "AA3", "AA9"}
  /\ reputationEntries' = Blame(reputationEntries, Head(todo).reason, Head(todo).op)
  /\ RemoveFromPool(Head(todo).op)
  /\ todo' = Tail(todo)
  /\ UNCHANGED <<pc, entries, knownSenders, statuses, acc, sent, lost>>

RemoveBanned ==
  /\ pc = "remove"
  /\ todo # <<>>
  /\ Head(todo).reason = "banned"
  /\ RemoveFromPool(Head(todo).op)
  /\ todo' = Tail(todo)
  /\ UNCHANGED <<reputationEntries, pc, entries, knownSenders, statuses, acc, sent, lost>>

\* The bundle goes to the processor.
Return ==
  /\ pc' = "idle"
  /\ sent' = sent \cup ToSet(acc.bundle)

\* No FailedOp: the operation is removed and the hook returns, the others to be
\* removed stay.  (checkFatal reads e.error, which an RpcError does not have: it
\* never throws here.)
RemoveAndReturn ==
  /\ pc = "remove"
  /\ todo # <<>>
  /\ Head(todo).reason = "noFailedOp"
  /\ RemoveFromPool(Head(todo).op)
  /\ todo' = <<>>
  /\ lost' = lost \cup Held(OpsOf(Tail(todo)) \ {Head(todo).op})
  /\ Return
  /\ UNCHANGED <<reputationEntries, entries, knownSenders, statuses, acc>>

\* findEntityToBlame awaits getStakeStatus, of the sender or of the factory.
AsksForStake(r) ==
  r.reason = "AA3" \/ (r.reason = "AA2" /\ Factory[r.op] # NoAddress)

\* parseError knows no such error and returns null, and reading its arguments is
\* a TypeError; or getStakeStatus rejects.  createBundle rejects and nothing is
\* sent.
HookThrows ==
  /\ pc = "remove"
  /\ todo # <<>>
  /\ Head(todo).reason = "unknownData" \/ AsksForStake(Head(todo))
  /\ todo' = <<>>
  /\ pc' = "idle"
  /\ lost' = lost \cup Held(ToSet(acc.bundle) \cup OpsOf(todo))
  /\ UNCHANGED <<pool, reputationEntries, entries, knownSenders, statuses, acc,
                 sent>>

EndHook ==
  /\ pc = "remove"
  /\ todo = <<>>
  /\ Return
  /\ UNCHANGED <<pool, reputationEntries, entries, knownSenders, statuses, acc,
                 todo, lost>>

------------------------------------------------------------------------------
(* Elsewhere in the node *)

\* addUserOp accepts an operation.
Submit(o) ==
  /\ pool[o] = "absent"
  /\ pool' = [pool EXCEPT ![o] = "pending"]
  /\ UNCHANGED <<reputationEntries, pc, entries, knownSenders, statuses, acc,
                 todo, sent, lost>>

\* An event or a ban removes one; the processor removes or gives back its own.
RemoveElsewhere(o) ==
  /\ pool[o] # "absent"
  /\ pool' = [pool EXCEPT ![o] = "absent"]
  /\ sent' = sent \ {o}
  /\ lost' = lost \ {o}
  /\ UNCHANGED <<reputationEntries, pc, entries, knownSenders, statuses, acc, todo>>

GiveBack(o) ==
  /\ o \in sent
  /\ pool[o] # "absent"
  /\ pool' = [pool EXCEPT ![o] = "pending"]
  /\ sent' = sent \ {o}
  /\ lost' = lost \ {o}
  /\ UNCHANGED <<reputationEntries, pc, entries, knownSenders, statuses, acc, todo>>

\* Other submissions are seen.
SeenElsewhere(a) ==
  /\ reputationEntries[Lower[a]].opsSeen < SeenBound[Lower[a]]
  /\ reputationEntries' = SeenUpdate(reputationEntries, a, "increment")
  /\ UNCHANGED <<pool, pc, entries, knownSenders, statuses, acc, todo, sent, lost>>

------------------------------------------------------------------------------
Init ==
  /\ pool = [o \in Op |-> "absent"]
  /\ reputationEntries = [a \in Address |-> ZeroEntry]
  /\ pc = "idle"
  /\ entries = <<>>
  /\ knownSenders = {}
  /\ statuses = [paymaster |-> "OK", factory |-> "OK"]
  /\ acc = EmptyResult
  /\ todo = <<>>
  /\ sent = {}
  /\ lost = {}

CreateBundle ==
  \/ GetKnownSenders
  \/ ReadEntry
  \/ BalanceRejects
  \/ JudgeEntry
  \/ BeginHook
  \/ SendBack
  \/ BeginRemovals
  \/ RemoveFailed
  \/ RemoveBanned
  \/ RemoveAndReturn
  \/ HookThrows
  \/ EndHook

Elsewhere ==
  \/ \E o \in Op : Submit(o) \/ RemoveElsewhere(o) \/ GiveBack(o)
  \/ \E a \in Address : SeenElsewhere(a)

Next == TakeEntries \/ CreateBundle \/ Elsewhere
Spec == Init /\ [][Next]_vars

------------------------------------------------------------------------------
(* Properties *)

TypeOK ==
  /\ pool \in [Op -> {"absent", "pending", "bundling"}]
  /\ reputationEntries \in [Address -> ReputationEntry]
  /\ pc \in {"idle", "known", "read", "judge", "pending", "remove"}
  /\ entries \in Seq(Op)
  /\ knownSenders \subseteq Address
  /\ statuses \in [paymaster : {"OK", "THROTTLED", "BANNED"},
                   factory : {"OK", "THROTTLED", "BANNED"}]
  /\ acc \in Result
  /\ todo \in Seq([op : Op, reason : Dropped])
  /\ sent \subseteq Op
  /\ lost \subseteq Op

Bundled == ToSet(acc.bundle)
GasOf(o) == Gas[o]
PrefundOf(o) == Prefund[o]

\* The bundle's operations together, not only the last of them, fit the gas
\* limit of a bundle, and none of them is in it twice.
GasWithinLimit ==
  /\ Cardinality(Bundled) = Len(acc.bundle)
  /\ MapThenSumSet(GasOf, Bundled) <= MaxBundleGas

\* The bundle's authorization list has one tuple per signer, and the one that
\* every bundled operation relies on.
TuplesAgree ==
  /\ \A t, u \in acc.tuples : t.signer = u.signer => t = u
  /\ \A o \in Bundled : Signer[o] # NoAddress =>
       \E t \in acc.tuples : t.signer = Signer[o]
                             /\ Lower[t.delegate] = Lower[Delegate[o]]

\* STO-041: no operation of the bundle reads the storage of the sender of another
\* one, whichever of the two was judged first, unless that one has meanwhile
\* been removed from the pool.
StorageIsolated ==
  \A o, p \in Bundled :
    Lower[Sender[p]] \in Touches[o] \ {Lower[Sender[o]]} => pool[p] # "bundling"

Joins(o) == o \notin Bundled /\ acc'.bundle = Append(acc.bundle, o)
UsersOf(role, a) == {o \in Bundled : role[o] = a}

\* GREP-020, spelling by spelling: a factory that was throttled when its operation
\* was looked at is used, under the address as the operation spells it, by at
\* most ThrottledEntityBundleCount operations of the bundle (isEntityThrottled).
ThrottledFactoryCap ==
  [][\A o \in Op : Joins(o) /\ statuses.factory = "THROTTLED" =>
       Cardinality(UsersOf(Factory, Factory[o])) < ThrottledEntityBundleCount]_vars

\* The same for the factory itself, however its address is spelled: the comment
\* on stakedEntityCount, "throttled paymasters and deployers are allowed only
\* small UserOps per bundle".
ThrottledDeployerCap ==
  [][\A o \in Op : Joins(o) /\ statuses.factory = "THROTTLED" =>
       Cardinality({p \in Bundled : Factory[p] # NoAddress
                                    /\ Lower[Factory[p]] = Lower[Factory[o]]})
         < ThrottledEntityBundleCount]_vars

\* ThrottledFactoryCap for a paymaster.
ThrottledPaymasterCap ==
  [][\A o \in Op : Joins(o) /\ statuses.paymaster = "THROTTLED" =>
       Cardinality(UsersOf(Paymaster, Paymaster[o])) < ThrottledEntityBundleCount]_vars

\* "paymaster deposit should be enough for all UserOps in the bundle", the comment
\* on paymasterDeposit.
PaymasterCovered ==
  \A p \in Address :
    MapThenSumSet(PrefundOf, UsersOf(Paymaster, p)) <= Deposit[p]

\* "each sender is allowed only once per bundle", the comment on senders.
OneOpPerSender ==
  \A o, p \in Bundled : Lower[Sender[o]] = Lower[Sender[p]] => o = p

\* Between bundles, an entry marked 'bundling' is one the processor was given, or
\* was lost: by a call that rejected, by a hook that returned early or by a
\* conflict of tuples.  Every other one went back to pending or left the pool.
NothingStuck ==
  pc = "idle" => Held(Op) \subseteq sent \cup lost

\* "Sending userOps not included in built bundle back to mempool with status of
\* pending", the message of the hook: between bundles only what the processor
\* was given is 'bundling'.
NotIncludedSentBack ==
  pc = "idle" => Held(Op) \subseteq sent

\* An operation that failed its second validation, or whose entity is banned, is
\* not left in the pool as 'bundling'.
MarkedAreDropped ==
  pc = "idle" =>
    \A i \in DOMAIN acc.toRemove : pool[acc.toRemove[i].op] # "bundling"
==============================================================================
