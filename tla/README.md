# A TLA+ verification of the Transeptor bundler

Transeptor is an ERC-4337 bundler in TypeScript: it accepts user operations
over JSON-RPC, validates them, keeps them in a mempool, builds bundles of them,
and sends the bundles to the entry point contract.  This directory models its
core in TLA+, checks small instances with TLC, and proves theorems about it with
TLAPS.  Paths below are relative to `src/src/` unless they start with `docs/`,
`test/` or `contracts/`.

Everything runs on one Node process: one callback at a time, interleaved at each
`await`.  So the state of the node is only ever inconsistent *between* two
awaits, and that is where nearly all the hard behaviour is: every model here cuts
the code at its awaits and lets other calls run in between.

## 1. Inventory

| Component | State it keeps | Operations | Used by / uses |
|---|---|---|---|
| State service, `state/state.ts` | one `State` record: `standardPool`, `mempoolEntryCount`, `reputationEntries`, lists, `bundleTxs` | `getState` (the live object, no copy), `updateState` (a function run under a mutex) | all managers; verifies a capability on each access |
| Mempool manager, `mempool/` | the pool and the counts, in the state service | `addUserOp`, `removeUserOp`, `updateEntryStatus`, `getNextPending`, `getAllPending`, `removeUserOpsForBannedAddr`, `clearState` | eth API, builder, processor, events, debug API |
| Deposit manager, `deposit/` | none | `checkPaymasterDeposit` | mempool manager; reads the pool and the chain |
| Reputation manager, `reputation/` | `reputationEntries`, white and black list, hourly timer | `getStatus`, `checkStake`, `updateSeenStatus`, `updateIncludedStatus`, `crashedHandleOps`, `setReputation`, cron | mempool, builder, processor, events |
| Bundle manager, `bundle/bundle-manager.ts` | mode, interval, mutex | `doAttemptBundle`, start, stop, mode | timer, debug API; events, then builder, then processor |
| Bundle builder, `bundle/builder/` | none between calls; an accumulator during one | `createBundle` and its after hook | bundle manager; mempool, reputation, validation |
| Bundle processor, `bundle/processor/` | none | `sendBundle` and its after hook | bundle manager; provider, mempool, reputation |
| Event manager, `event/` | `lastBlock`, the last aggregator | listener, `handlePastEvents` | bundle manager; mempool, reputation |
| Validation service, `validation/` | none | parameter checks, `validateUserOp` | eth API, builder; simulator |
| Simulator and ERC-7562 parser, `sim/` | parser: the current entity and what it met | `fullValidation`, `simulateHandleOp`, the opcode and storage rules | validation |
| Gas calculator, `gas/` | none | pre-verification gas | eth API, validation |
| Audit log, `logger/audit/` | ring buffer, semaphore, mutex, worker | `logUserOpLifecycleEvent`, `enqueue`, `shutdown` | eth API, processor, SIGTERM |
| RPC server and APIs, `rpc/`, `apis/` | none | request pipeline, `eth_`, `web3_`, `debug_` | all managers |
| Capabilities, `ocaps/` | signed capabilities | issue, verify | state service, configuration |
| Configuration and CLI, `config/`, `core/`, `cli.ts` | the services | start, SIGTERM | everything |
| Metrics, Libp2p, provider, loggers, ABIs, Solidity helpers | - | I/O, data, or unused | - |

Which behaviours are hard:

* **Check, then act.** `addUserOp` decides on a pool it read before up to five
  awaits and inserts without looking again; so do `removeUserOp`,
  `updateEntryStatus` and `getNextPending`.
* **Live objects.** `getState` returns the object itself.  Some updates mutate
  it in place, others replace it, so what a call that awaits sees afterwards
  depends on what ran meanwhile.
* **Counts kept beside the pool**, under spelled or lowered addresses, taken
  and given back by different operations.
* **The life of an entry**, `pending -> bundling -> (pending | failed | gone)`:
  nothing ever takes an entry that is `bundling`, so each path that forgets one
  makes its operation stuck for ever.
* **Partial failure** of a hook, of a bundle that was sent, of start-up, of a stop.
* **Either and throw.** Functions that return an `Either` also throw, so each error
  has two ways to the client, with different side effects on the way.
* **Several sources of one fact**: the listener and the past events, the interval
  and the debug API, a trace and stakes read at another block.
* **Queues at their limit**: the audit buffer's slots, and its last drain.

What makes the components correct:

* mempool - one entry per sender and nonce; a replacement pays more; the cap of
  an unstaked sender; counts that never fall below the pool; no lost and no
  resurrected entry; roles of addresses kept apart; a paymaster's deposit;
* builder - limits of a bundle hold for the bundle as a whole; every entry taken
  ends in the bundle, back in the pool, or removed;
* audit log - every event, once, in order, also through shutdown;
* reputation - a ban for a crash outlasts hours and take-backs;
* bundle manager and processor - an operation is in one transaction at a time,
  every entry `bundling` is in somebody's hands, every attempt ends;
* event manager - what is on chain leaves the pool, whatever order and however
  often events come; a credit goes to an aggregator of the same transaction;
* validation and the request pipeline - what enters the pool was valid, staked
  and paid for at some moment of the call; answer, audit trail and pool agree;
* ERC-7562 parser - it knows whose storage each frame works on, and what passes
  stays in the sender's storage;
* node - nothing is sent unchecked, a handled SIGTERM ends the process with the
  audit trail written.

## 2. Modules

    ReputationRules     reputation status, stake gate, caps, updates (no state)
      |-- Mempool       mempool manager + deposit manager + state service
      |     |-- MCMempool, MempoolProofs
      |-- BundleBuilder createBundle
      |     |-- MCBundleBuilder, BuilderProofs
      `-- Reputation    entries over hours: updates, the cron, the operator
            `-- NodeLifecycle    a node from start-up to its end
                  |-- MCNodeLifecycle, NodeProofs
                  `-- uses AuditTrail
    Settlement          what happens to an operation that is on chain (abstract)
      |-- BundleLifecycle   bundle manager + processor; extends Settlement
      |     `-- MCBundleLifecycle, LifecycleProofs
      `-- EventManager      listener + past events; implements Settlement
            `-- MCEventManager, RefinementProofs
    UserOps             packing, EIP-7702 signers, gas prices (no state)
      `-- Simulation    answers of the Ethereum node -> validation results (no state)
            `-- SendUserOperation   RPC server, Eth API, validation service
                  `-- MCSendUserOperation, PipelineProofs
    Erc7562Rules        the ERC-7562 parser
      `-- MCErc7562Rules, RulesProofs
    AuditTrail          what the audit log promises (abstract)
      `-- AuditQueue    the buffer, microtask by microtask; implements AuditTrail
            `-- RefinementProofs (extends EventManager, too)
    Sums                sums over finite sets, induction (lemmas for the proofs)

Definitions whose comment starts with "Seeded bug" are not part of a model.
Each is a plausible bug of the definition that follows it; exchanging the two
makes a property fail, which shows that the property depends on that code.

What is one step in a module because another module has it in detail is said in
its header.  Two abstract specifications carry this: `Settlement` stands for the
event manager in `BundleLifecycle`, `AuditTrail` for the audit queue in
`NodeLifecycle`, and the detailed module of each is checked to implement it.

### ReputationRules and Reputation

`GetStatus`, `PassesStake` (`checkStake`), `MaxAllowedMempoolOpsUnstaked`,
`SeenUpdate`, `CrashUpdate` are the formulas of `reputation-manager.ts` on a
function `entries` from lower-case addresses to `[opsSeen, opsIncluded]`.  An
address is a spelling, `Lower` is `toLowerCase()`; two spellings of an account
are two members of `Address`.  That is kept because the code lowers some keys
and not others.

For the formulas a missing entry is a zero entry.  `Reputation` keeps them
apart, as a partial function, because the hourly cron goes over the *keys* of the
object that `startHourlyCron` read when the node started (`snapshot`):
`BackedOff` is one round of its loop, with the overwriting it would do.

### Mempool

A *task* is a call in flight, with a program counter and what it captured.

| Code | Actions |
|---|---|
| `addUserOp` | `CheckPaymasterDeposit`, `ReadPool`, `CheckRole` (one per role), `CheckMultipleRoles`, `DoUpdateMempoolState`, `UpdateSeenStatus` (one per await, for the old and the new entry) |
| `removeUserOp` | `FindEntryToRemove`, `RemoveUserOp` |
| `updateEntryStatus` | `FindEntryToUpdate`, `UpdateEntryStatus` |
| `getNextPending`, `getAllPending` | `FindPending`, `MarkBundling` |
| the processor's ban | `FindOpsToBan`, `RemoveUserOpsForBannedAddr`, `CrashedHandleOps` |
| `debug_bundler_clearState` and its parts | `ClearMempool`, `ClearReputation` |

`updateState` is a single action, because the function runs synchronously under
the mutex.  `poolRef[t]` and `countRef[t]` are the objects a call still holds:
`Current` while they are the live ones; when another update installs a new
object, `Leave` freezes what the old one ended as.  In-place updates
(`MutatePool`) are seen through the reference, as in the code.

Where the code takes the oldest of several entries the model takes any: a
superset of the behaviours.  The chain (`Deposit`) is a constant.

### BundleBuilder

`createBundle` from taking the entries to the end of the after hook, in the steps
between its awaits: `TakeEntries`, `GetKnownSenders`, then `ReadEntry` (deposit
and statuses) and `JudgeEntry` (the validation settles, all tests in the code's
order) for every entry, then `SendBack`, `RemoveFailed`, `RemoveBanned`,
`RemoveAndReturn`, `HookThrows`, `EndHook`.  `acc` is the `BundleBuilderResult`.
The calls to the node may reject: `balanceOf` in the middle of the reduction
(`BalanceRejects`) and `getStakeStatus` in the hook (`HookThrows`).  `lost` remembers
which marked entries no list holds any more after that, after a hook that returned
early, and after a conflict of tuples.
Meanwhile `Submit`, `RemoveElsewhere`, `GiveBack` and `SeenElsewhere` are what
the rest of the node can do to the pool and the reputations; they are single
steps, their own races being the subject of Mempool.  `sent` remembers which
operations were given to the processor, which owns them from then on.  The
answer of a validation is an input: success, a `FailedOp` with an AA code, an
error that holds no `FailedOp`, or revert data that no known error matches.

### Settlement, BundleLifecycle, EventManager

`Settlement` has two actions: the chain executes operations (`Land`), and the
mempool is told (`SettleOp`): the entry is removed, or `failed` if the operation
reverted.  Each operation that landed is settled sooner or later; it may be
settled twice.

`BundleLifecycle` is `doAttemptBundle`.  An *attempt* is a tick of the interval,
which queues for the manager's mutex, or a `debug_bundler_sendBundleNow`, which
does not.

| Code | Actions |
|---|---|
| interval, `runExclusive` | `Tick`, `Start`, `Finish` |
| `handlePastEvents` as an await | `EventsDone` |
| `createBundle` | `Take`, `MarkBundling`, `Build`, which decides each entry: bundled, given back, dropped, or left |
| `sendBundle` and its hook | `Send`, `Receipt`, `Record`, `FailedOp`, `NonFatal`, `Fatal`, `LookUpEntry`, `WriteEntry`, `AllBack` |
| the chain and the relay (external) | `Mine`, `Revert`, `Drop` |

Three history variables name what the code is known to do wrong, so that the
properties can say "nothing else": `overlapped` (an attempt ran beside one of the
debug API), `unsure` (given back while its transaction was live), `stranded`
(left `bundling` by a path that gives nothing back: of the builder, of the processor,
which does not look at the status of a 7702 receipt, or of the relay).

`EventManager` has the two consumers of the entry point's events as *handlers*:
the calls of the listener (`Listen`), which overlap, since ethers does not wait for
one before it makes the next, and callers of `handlePastEvents` (`Begin`,
`ReadBlockNumber`, `AnswerQuery` once per kind of event and at a block of its own,
then `HandleUserOperationEvent` / `FinishEvent` per event, `Return`).  They share
`lastBlock` and the remembered aggregator.

### UserOps, Simulation, SendUserOperation

A *call* is one JSON-RPC request.  Each action runs from one await to the next.

| Code | Actions |
|---|---|
| middleware, handler registry, route | `Arrive`, and `Answer`, `Throw`, `Fail` as ends of the others |
| `eth_chainId` and its failure | `Network` |
| `sendUserOperation` | `Received`, `Hash`, `Authorize`, then `FullSimulate`, `Stakes`, `CodeHash` or `PartialSimulate` (unsafe mode), `Add` |
| `estimateUserOperationGas` | `EstimateInput`, `Estimate` |
| receipt and look-up by hash | `Event`, `FetchReceipt`, `FetchByHash` |
| the world | `Block` (the stake of the entity changes), `Tick`, `SetGasConfig` |

`Simulation` says how the Ethereum node's answer becomes a result.  A computation
is `Right`, `Left` or `Throws`: the code returns an `Either` *and* throws, and which
of the two it is decides whether the rejection reaches the audit trail.  `addUserOp` returns its
refusal of a replacement, and throws those for reputation, stake and deposit.
`UserOps` is the data: packing, the recovered EIP-7702 signer, the
pre-verification gas with its roundings in units of 1/`Unit` gas.  Of an encoded
operation the numbers of zero and non-zero bytes matter, and `CountTokens` counts those
of `preVerificationGas` itself, because an estimate replaces that field.  Checks that
build an `Either.Left` and drop it have no effect in the model, as in the code.

### Erc7562Rules

The parser's own stack: `CheckFrame` pops a frame, attributes it to an entity
(`DetectEntityChange`), applies the rules in their order (`Checks`, one operator
per rule) and pushes the calls with a copy of the runner state.  What a frame did
and whom it called is chosen when it is popped; what the EVM knows about it (the
caller, whose storage it works on) is kept beside what the parser believes, which
is what the properties compare.

### NodeLifecycle

| Code | Actions |
|---|---|
| `runNode` between its awaits | `CreateInfrastructure`, `CreateServices`, `CreateManagers`, `PassPreflight`, `StartUpFails` |
| requests | `Receive`, `Answer`, `Reset`, `SetBundlingMode` |
| fates of an operation | `TakeBack`, `Execute`, `RemoveUserOpsForBannedAddr`, `Ban` |
| the other intervals | `Hour`, `MetricsReject` |
| SIGTERM | `Sigterm`, `SigtermRejects`, `Close`, `Write`, `Drained`, `ShutdownComplete` |

A server that is told to close still takes the requests of connections that are busy
(`Serving`).  What a handler of the signal waits for depends on what it met
(`ServerStop`): no server, one to close, or one that is closing already, which Node
reports as an error once it has closed.

### AuditTrail and AuditQueue

`AuditTrail` has two actions, log an event and hand the next one to the writer,
with a fairness condition on those *owed*: logged before the shutdown.
`AuditQueue` is the code: a ring buffer, a semaphore that counts free slots, a
mutex, a worker.  A slot is reserved (`Log`) several microtasks before it is
written (`Store`), and the worker asks for reserved slots, not for written ones.
Whether it can overtake a writer depends on the order of microtasks, so the
module models the microtask queue itself: `ready` is FIFO, a chain that awaits
through several promises goes to the back once per promise (`Hop`), and a
macrotask starts only when `ready` is empty.  `LockHops`, the promises inside
`Mutex.acquire` of the `async-mutex` library, is external and a parameter.

## 3. What the runs show

| Run | Question | Properties |
|---|---|---|
| `mempool_sequential` | Is the mempool right when calls come one by one? | `OneEntryPerSenderNonce`, `UnstakedSenderCap`, `CountCoversPool`, `DepositCoversDearer` (operations of two costs), `SeenCoversPool`, `RolesDisjoint`, `TypeOK` |
| `mempool_concurrent` | What survives every interleaving of two calls of any kind? | `NoLostEntry`, `ReplacementPaysMore` (fees below and above what a double of nine bits holds exactly) |
| `mempool_burst` | By how much can a burst pass the sender's cap? | `SenderCapOvershoot`: by the calls in flight less one |
| `builder` | Do operations that may not share a bundle stay apart, and are its entries accounted for, while entries and reputations move, validations fail in every way, and calls to the node reject? | `GasWithinLimit`, `ThrottledFactoryCap` (per spelling), `TuplesAgree`, `StorageIsolated`, `NothingStuck` (but for `lost`) |
| `lifecycle` | What becomes of an operation when attempts overlap and building and sending fail in every way the code knows? | `SentOnce`, `BundlingAccounted`, `AttemptsEnd`, `LandedSettles` |
| `events` | Do the two consumers of events settle what is on chain? | `ImplementsSettlement` (refinement, with liveness), `AggregatorOfTransaction` |
| `events_skipped` | Does `handlePastEvents` see all new events? It does not | `PastEventsComplete` (violated) |
| `pipeline` | Is what enters the mempool valid, staked and paid for, and do the answers agree with it? | `AnswersAgree`, `StakeWasReal`, `InRangeOfBoth`, `PrefundIsKnown`, `EstimateSuffices`, `ReceiptHasOwnLogs`, `RequestsAnswered` |
| `pipeline_bundle` | Do operations admitted one by one pay for the bundle they land in? | `BundlePays`: under EIP-7623, with an operation priced for two, one below its floor and one whose execution costs most |
| `erc7562` | Does the parser know what each frame does, and is what passes harmless? | `ContextTracked`, `StorageIsolated`, `OnlySenderDeployed` |
| `audit_queue` | Does the buffer implement the audit trail? | `ImplementsTrail` (refinement, with liveness): every event logged before the shutdown is written, once and in order, and none is overwritten |
| `node` | What does a node keep through start-up, hours, failures and signals? | `CrashedStaysBanned`, `NothingSentUnchecked`, `ExitFlushes`, `SigtermEnds` |

Every module that is run has a `TypeOK`, which covers the variables it extends.
`mempool_sequential` checks its own, and all are proved; add `INVARIANT TypeOK` to a configuration to check another one on its
instance.  `AuditQueue` has names of its own (`QueueTypeOK`, `QueueSpec`), because
`RefinementProofs` extends two components.

The one finding, `events_skipped`: `handleEvent` ends with `lastBlock = block + 1`
for every event, also one of another kind or one the listener was given.  A
`UserOperationEvent` of the same block that the first of the three queries did not
see yet is below the cursor from then on, and no later call asks for it
("Process all new events since last run", `event/event-manager.ts:16`).  The
listener is what still settles it, which is why `events` passes.

Three properties say less than a doc promises, because the code does not keep the
promise: `DepositCoversDearer` (not the sum of the costs), `ThrottledFactoryCap` (each
spelling of a factory by itself), and `ReceiptHasOwnLogs` (nothing of the operation is
missing if the transaction calls `handleOps` once, but earlier operations' logs may be
there).  The full promises are `PaymasterSolvent`, `ThrottledDeployerCap`,
`ReceiptHasAllOwnLogs` and `ReceiptHasNoOthersLogs`, in section 4.

`CrashedStaysBanned` deserves a remark.  It holds because `createManagers` starts
the cron on an object without keys: the cron does nothing at all.  The seeded bug of
its mutant, a cron that reads the entries anew, is the obvious repair of the dead
decay, and it lifts bans: it sets `opsIncluded` from `opsSeen`.

## 4. Statements known not to hold

Each is what a doc, a comment or common sense says; the code does otherwise.

### Stated in a module

TLC violates these on the instance given: a configuration of this directory, as it is
or changed as said, with the property alone.  The configurations that are not in the
table of section 3 are there for this one.

| Property | Instance | Why |
|---|---|---|
| `OneEntryPerSenderNonce` | `mempool_concurrent`, calls add | two submissions of one sender and nonce both find nothing to replace, and both insert (`mempool/mempool-manager.ts:144`; `types/mempool.types.ts:26`: "replace existing, if any") |
| `RemovedStaysRemoved` | `mempool_concurrent`, calls add, remove, setStatus; operations a1, a2; `MaxCount` 3 | `updateEntryStatus` writes back an entry that was removed while it waited for the mutex (`mempool/mempool-manager.ts:394`) |
| `PaymasterSolvent` | `mempool_deposit.cfg` | entries already in the pool are charged at the new operation's cost (`deposit/deposit-manager.ts:63`; `:18`: "Do not add a UserOperation to the mempool if the maximum total gas cost, including the new UserOperation, is above the deposit") |
| `PaymasterSolvent` | `mempool_spellings.cfg` | entries that spell the paymaster otherwise are not counted at all (`deposit/deposit-manager.ts:62`; `:17`) |
| `CountIsExact` | one task, calls add and remove, `Address <- MCAddress`, `MaxCount` 3 | a removal gives back the sender's count only, under the client's spelling (`mempool/mempool-manager.ts:259`; `types/state.types.ts:29`: "Count of entries per address") |
| `BannedNotAdmitted` | one task, calls add, ban, take; operations a3 and a3p; `MaxCount` 5 | a replacement skips the reputation checks (`mempool/mempool-helper.ts:337`; `types/mempool.types.ts:105`) |
| `UnstakedSenderCap` | the same with operations a1, a3, a4, a5, `CrashPenalty` 1, `MaxCount` 4 | a ban deletes the counts of senders that still have entries (`mempool/mempool-manager.ts:294`); it holds without bans |
| `CountCoversPool`, `SeenCoversPool`, `DepositCoversDearer`, `RolesDisjoint` | `mempool_sequential` with two tasks, `MaxCount` 4 | with two calls each of them fails: what a call checked or looked up may no longer be so when it writes (`mempool/mempool-manager.ts:144`, `:259`) |
| `RolesDisjoint` | `mempool_sequential`, operations a3, a3p, p1 | a replacement skips the role checks as well, and brings the sender of another entry in as its paymaster (`mempool/mempool-helper.ts:337`) |
| `SenderCapOvershoot` | `mempool_burst`, calls add and remove | two removals of one entry each take one off the sender's count (`mempool/mempool-manager.ts:259`), so more submissions pass the cap than fit |
| `SenderCapOvershoot` | `mempool_burst`, two tasks, five operations of one nonce with fees 10, 12, 12, 15, 15 | two replacements of one entry both insert and neither is counted (`mempool/mempool-manager.ts:144`), so a slot grows at every round |
| `CountCoversPool`, `UnstakedSenderCap`, `SeenCoversPool` | `mempool_sequential`, calls add, remove, setStatus, take, clear; operations a1, a1x, a3, a4, a5 | a clear while `addUserOp` awaits: the entry comes with a count, a replacement without one, and the sightings start anew |
| `ThrottledDeployerCap` | `builder_deployer.cfg` | the status of a factory is looked up in lower case, its operations are counted under the spelled address (`bundle/builder/builder.helpers.ts:99`, `:301`; `bundle/builder/bundle-builder.ts:268`: "throttled paymasters and deployers are allowed only small UserOps per bundle") |
| `ThrottledPaymasterCap` | `builder_deployer.cfg` with `Paymaster <- AllPaid`, `Factory <- AllFactory`, `Deposit <- MCRichDeposit`, `SeenBound <- SeenPaymaster`, "p" an address | with a factory, the paymaster is not counted (`bundle/builder/builder.helpers.ts:301`) |
| `NotIncludedSentBack` | `builder_lost.cfg` | an operation whose tuple conflicts is neither bundled nor sent back (`bundle/builder/bundle-builder.ts:229`; `:78`: "Sending userOps not included in built bundle back to mempool with status of pending") |
| `NotIncludedSentBack` | `builder_deposit.cfg` | `balanceOf` rejects, `createBundle` with it, and all entries taken stay `bundling` (`bundle/builder/bundle-builder.ts:153`) |
| `NotIncludedSentBack` | `builder_lost.cfg`, verdict unknownData, or AA3 | `.args` of a null parse throws in the hook, or `getStakeStatus` rejects: the bundle is not sent (`bundle/builder/builder.helpers.ts:344`, `bundle/bundle.helper.ts:30`) |
| `MarkedAreDropped` | `builder_lost.cfg`, verdict noFailedOp | one failure without a `FailedOp` ends the hook for the entries after it (`bundle/builder/bundle-builder.ts:103`) |
| `OneOpPerSender` | `builder_senders.cfg` | senders are compared as spelled (`bundle/builder/builder.helpers.ts:180`; `bundle/builder/bundle-builder.ts:269`: "each sender is allowed only once per bundle") |
| `PaymasterCovered` | `builder_deposit.cfg` | a deposit used up to exactly 0n is fetched again as if it were missing (`bundle/builder/bundle-builder.ts:147`; `:267`: "paymaster deposit should be enough for all UserOps in the bundle") |
| `EstimateIsNeededGas` | `pipeline_estimate.cfg` | an estimate that takes more non-zero bytes than the value it was computed with (21000 by default, two bytes) is refused by the check (`gas/pre-verification-gas.ts:230`; `apis/eth/eth-api.ts:72`: "return the needed gas limits") |
| `ReceiptHasAllOwnLogs` | `pipeline_own_logs.cfg` | of a transaction with two `handleOps`, the second `BeforeExecution` cuts off the first one's logs (`event/event-manager.ts:238`; `types/userop.types.ts:76`) |
| `ReceiptHasNoOthersLogs` | `pipeline_other_logs.cfg` | `BeforeExecution` sets `endIndex` too, so the events of other operations no longer move the start: the second operation of a bundle is given the logs of the first (`event/event-manager.ts:246`; `types/userop.types.ts:76`: "not including logs of other UserOperations in the same bundle") |
| `EveryEventWritten` | `audit_queue` | an event logged after the worker's last drain is accepted and never written |
| `ImplementsTrail` | `audit_queue` with one slot | the worker takes the slot a waiting call has reserved, and an event is overwritten (`logger/audit/audit-queue.ts:103`); the capacity is 5000 (`config/create-config.ts:185`) |

### Kept by a model, named by its history variables or comments

* `lifecycle`: after a `FailedOp` the other operations of the bundle stay
  `bundling`, and after a fatal error all of them (`stranded`,
  `bundle/processor/bundle-processor.ts:279`); so does what the builder loses, what the
  relay forgets, and a 7702 bundle that was mined and reverted: its status is not read,
  and it is recorded as sent (`:230`).
  A 7702 bundle without a receipt yet is given back and sent again (`unsure`, `:230`).
  A debug attempt beside one of the interval may send the same operation
  (`overlapped`, `bundle/bundle-manager.ts:71`).
* `lifecycle`: a marking loop that meets a removed entry throws half-way; an
  operation that it had marked stays `bundling`, also if it lands
  later.
* `events`: `includedAddress` updates when its address is longer than 42
  characters, which no address is (`event/event-manager.ts:99`), so `opsIncluded`
  never grows.  With the limits of the code a busy honest paymaster is throttled
  after about 110 sightings and banned after about 510.
* `node`: the counters never decay (`reputation/reputation-manager.ts:104-112`
  describes a decay), because the captured object has no keys.
* `node`: SIGTERM before the server listens, and a second one as soon as the server has
  closed, end the process with an unhandled rejection and without the last drain; a busy
  connection may go on to send requests while the server closes, and postpones the end
  as long as it does (`MaxRequests` bounds it); a metrics sample that
  rejects ends it as well (`metrics/metrics-tracker.ts:187`).
* `pipeline`: validation errors that are thrown skip `userOpRejected`, and so do the
  reputation, stake and deposit refusals of `addUserOp` (`mempool/mempool-helper.ts:351`); the checks for
  a near deadline, for an aggregator and for spare verification gas, and the one for
  7702 support in an estimate, build an error and do not return it
  (`validation/validation.helper.ts:49`); a trace, the stakes and the code hashes are
  read at different blocks; a marker with empty `0x` initialisation data is always
  rejected; a delegate whose address starts with zeros makes the signer wrong
  (`toRlpHex`); an estimate is too low for a longer signature than the one assumed; an
  estimate without EIP-7623 may be fractional, which cannot be hexlified (-32603).
* `erc7562`: under a delegate call `checkStorage` files the slots under the library
  (`sim/erc7562-parser.ts:836`), so `StorageIsolated` speaks of the
  other accesses; frames below the entry point's call to itself are skipped.

### Outside the models

* White and black list entries are compared as spelled with a lowered address, so
  a checksummed entry has no effect (`types/state.types.ts:48`: "always banned");
  the documentation names `TRANSEPTOR_WHITE_LIST` and `TRANSEPTOR_BLACK_LIST`, the
  code reads `TRANSEPTOR_WHITELIST` and `TRANSEPTOR_BLACKLIST` (`constants/env.ts:23`).
* A capability's keys are not checked on access (`state/state.ts:43`, `:69`).
* `AsyncLocalStorage.run` is given an empty callback, so request ids are never
  attached to a log line.

## 5. Bounds and fairness

### Bounds

* Mempool: two operations with two calls in flight, seven with one; one sender in
  two spellings and one paymaster.  Two operations of one slot, a paymaster and two
  calls in flight are what each race needs: a race is between a read and a write of
  one call and one step of another.  The burst needs a third call for "calls less
  one" to differ from "one".  `MaxCount` stops `addUserOp` and bans when a counter
  gets there; the counters of an address can therefore not grow without end, and the
  caps (1 to 3) lie below it.  The reputation limits are scaled down (a
  denominator of 1, slack 1 and 2, where the code has 10, 10, 50) so that two or
  three sightings throttle and ban.
* BundleBuilder: three operations, every two of which conflict in another way: their
  tuples, their gas together, or storage and factory.  `BundleSize` 2 and the forced
  "all pending" give attempts at two and three.  `ThrottledEntityBundleCount` is 1
  (4 in the code).  `SeenBound` lets the factory be throttled and banned, and no
  further; a failed validation can throttle the paymaster.
* BundleLifecycle: two operations, one with an authorization; two ticks and a debug
  attempt; two transactions (`MaxTxs`), one error of the network or entry lost by the
  builder (`MaxFailures`).
  Two transactions are what sending twice takes; three attempts let one hold
  the mutex, one wait and one go past it.
* EventManager: two operations, one with an aggregator and one that deploys its
  account, so that all three queries matter; a chain of two further blocks; two
  calls of `handlePastEvents` by one caller in `events`, two callers in
  `events_skipped`; two calls of the listener at work at once.  The look-back is 1 block
  (1000).
* SendUserOperation: one call, two in `pipeline_bundle`, which is about what several
  operations pay together.  Nothing a call reads is written by another one
  (the pool only grows, the trail is per call); what interleaves is the world:
  one block, two ticks of the clock, changes of the gas configuration.  The twelve
  operations have each kind of entity, marker, authorization and gas price, on both
  sides of the limits they are checked against.  A byte has 16 values and a word two
  bytes, so that an estimate crosses from one non-zero byte to two.
* Erc7562Rules: seven frames, depth three, one further call per contract frame, one
  storage access: enough for the system's frames plus two nested contract calls
  inside an entity, with a frame of another entity above them on the stack.  Slots
  on both sides of 128 and of an entity's hash, precompiles 9 and 10.
* AuditQueue: two slots and five events: the buffer fills, calls wait, both
  indices wrap twice.  Three slots with six events and `LockHops` of 1 to 3 were
  tried as well and show nothing else.
* NodeLifecycle: three operations of two paymasters, one on the black list; two
  requests, one hour, two signals.  `CrashPenalty` is 6, above the ban limit of 3 by
  the number of operations, which is what the theorem below needs too (10000, 510
  and the size of the pool in the code).

### Fairness and deadlock

* BundleLifecycle: attempts go on, the queue of the mutex moves, and the network
  does something with a transaction (mines, reverts or drops it).  Without that a
  bundle of type 2 holds the mutex for ever, as in the code.  `SettleOp` is fair,
  which is what `Settlement` promises.
* EventManager: queries are answered, promises settle, and ethers hands events to
  the listener.  Nobody has to call `handlePastEvents`.
* SendUserOperation: `WF(Proceed(c))`; the Ethereum node answers or fails a call.
* AuditQueue: weak fairness of microtasks, of the flush timer and of a write
  that is under way.  Node drains its microtasks before the next macrotask, the
  timer is periodic, and the writer settles (an error settles it too).
* NodeLifecycle: requests are answered (`RequestsAnswered`), the server's close
  callback runs, the worker writes and ends (`ImplementsTrail`), the handler exits.
  Nobody has to send, to signal or to ban, and start-up need not go on.
* Mempool, BundleBuilder and Erc7562Rules have only safety properties and no fairness.
* Deadlock is checked in the Mempool and BundleBuilder runs.  Elsewhere the
  system really stops, or its bounds are used up: a process that ended, a trace that
  is judged, requests that are answered.

## 6. What is proved

For any values of the constants, from the named assumptions of the modules, which TLC
evaluates in every run.  Most say that the constants have their types.  Beyond that:

* lowering is idempotent, `NoOp` is no operation, and the marks `NoRef` and `Current`
  are not pools or counts (`RefAssumption`);
* the operations of a lifecycle, a bundle and an event log are finitely many
  (`AttemptAssumption`, `BuilderAssumption`, `EventAssumption`);
* an authorization has a signer and a delegate or neither (`BuilderAssumption`);
* what IEEE 754 promises of the fees in use (`FloatAssumption`): rounding keeps their
  order, a tenth more is more, and up to `MaxExact` it is a whole tenth;
* a field that passed the test for hexadecimal is a number (`OperationAssumption`),
  and what a client sets has the type of the configuration (`UpdateAssumption`);
* of what is external, times of validation data have 48 bits (`ValidityAssumption`), and
  the logs of a transaction are a sequence (`TransactionAssumption`);
* the six contracts of a trace are distinct, slots and hashes are numbers
  (`AddressAssumption`, `ObservationAssumption`).

A theorem that needs more says so in its statement, with a name: one call at a time, no
ban, two slots, a penalty that suffices.  Without it the property fails, and
section 4 has the instance (for the penalty see the bounds).  The runs of the same
properties satisfy the hypotheses.  `NullIsNoAnswer` is of another kind: it only says that
a mark is not a value.

Every invariant that a run checks is proved, and so are the action properties and the
safety halves of the two refinements.

### MempoolProofs

* `TypeCorrect`: `Spec => []TypeOK`.  `TypeOK` is inductive: `TypeStep` has one
  step per action; the lemmas before it say what the helpers return, and that
  a reference, whatever update it is left behind by, holds a pool.
* `CapturedCorrect`: `[]CapturedOK`.  What a call captured before an await stays
  meaningful: a call about to write a replacement holds an entry with the same
  sender and nonce and lower fees than its own.  This is not in the state of
  the pool, which may have changed; it is why the next two hold without looking
  at the pool again.
* `NothingLost`: the action property `NoLostEntry`, from the two invariants.
* `ReplacementRaisesFees`: `ReplacementPaysMore`.  Only `DoUpdateMempoolState`
  takes one entry out and puts another in, and `CapturedOK` has compared the fees as the
  code does, as doubles.  `FeesOutbid` says what that is worth: both fees are higher, and
  by a tenth where doubles are exact; above `MaxExact` a tenth is not promised.
* `OneEntryWhenAlone`: with a single call in flight the pool never holds two
  entries of one sender and nonce.  The strengthening `SlotInv` adds what the one
  call knows: that after `ReadPool` found no match there is none, and that the
  entry it replaces is the only one of that slot.  With two calls that is exactly
  what fails (section 4).

The next three are about calls that come one at a time and do not clear, for any
operations, spellings and limits.  What such a call looked up is still in the pool when it
acts on it (`FoundInv`), bans included: a ban is a call of its own.

* `SightingsCover`: `SeenCoversPool`.  The updates of `opsSeen` are eight awaits after the
  pool has changed, so `SeenInv` counts *marks*: roles of entries that were counted, less
  those of the new entry still to come, plus those of the old one still to be taken back.
  A ban takes entries and hence marks away, and its penalty only adds to what was seen.

The other two leave bans out as well (`Sequential`): a ban deletes the counts of what it
removes.  Then every step leaves the pool alone or adds, exchanges or removes one entry,
with the counts that go with it (`PoolStep`).

* `CountsCover`: `CountCoversPool`.
* `SenderCapped`: `UnstakedSenderCap`.  `PassedInv`: a call past the test of the cap still
  sees fewer entries of its sender than that.

The others allow bans and clears.

* `DepositsCoverDearer`: `DepositCoversDearer`, one call at a time of any kind, whatever
  the operations cost.  `checkPaymasterDeposit` compares one cost times the entries with the
  deposit, so what holds is a product: an entry's cost times the entries no cheaper than it.
  The sum of the costs may exceed the deposit (section 4).  A step adds to the pool at
  most what a call is about to write (`Gains`), and for that operation, next to the others
  of its paymaster, the deposit has room (`DepositInv`), also when an update of the status
  writes an entry back after a clear.
* `RolesApart`: `RolesDisjoint`, one call at a time of any kind, if a replacement brings no
  new entity (`ReplacementsKeepEntities`).  The check may read an old pool (a reference
  left behind by a ban); `RefCovers` says that it held at least the entries there are.
* `OvershootBounded`: `SenderCapOvershoot`, for any number of submissions of different
  nonces in flight together (`Burst`).  `BurstInv` bounds the entries of a sender
  together with the calls *racing* to add one: once the entries reach the cap no call
  joins the race, and the one that got them there has left it.

### NodeProofs

* `NodeTypeCorrect`: type correctness of `NodeLifecycle` and the reputation.
* `PreflightFirst`: `NothingSentUnchecked`.  The bundle interval runs before
  the preflight checks are over, so the guard of a bundle does not help; the
  strengthening `StartInv` says why nothing is sent: until the server listens no
  request is in flight, so the pool is empty.  It also says that the cron never
  holds an entry, which the next theorem needs.
* `ExitWritten`: `ExitFlushes`, from `DrainInv`: exit code 0 needs a worker that is
  done, a worker is done only when nothing owed is left, and afterwards nothing is
  owed anew.
* `CrashBanLasts`: `CrashedStaysBanned`, under `PenaltySuffices` (finitely many
  operations; the penalty exceeds the ban limit by their number).  `BanInv` counts:
  operations judged before the ban may still be admitted and taken back, once each,
  so `opsSeen + |Op| >= CrashPenalty + |operations in the pool|`.  `DivBound` carries
  that over the integer division of `getStatus`.

### LifecycleProofs

* `NoEntryForgotten`: `BundlingAccounted`.  Every path of the code that gives nothing back
  is in `stranded`, with what it strands (section 4); the theorem says that there is no
  other, however attempts interleave.  The property alone is not inductive:
  `AccountInv` adds what an attempt has in hand at each of its steps (`PhaseOK`: a
  transaction that is recorded holds the attempt's operations and is mined or the
  relay's), that a relay's transaction that failed left its operations stranded
  (`RelayLeaves`), and that an operation that was settled is 'bundling' again only
  while an attempt that had found it before is about to build.  `AttemptKeeps` is
  the one argument for all steps of an attempt: it says what a step must see to.
* `NeverSentTwice`: `SentOnce`.  `SentInv` adds the mutex and, as long as nothing
  overlapped, that one attempt is under way, that what it has in hand is in no
  live transaction but its own, and that no pending entry is in a live one, the
  operations of `unsure` aside.  `SendSole` is the step that adds a transaction.
* `TicksExclude`: `Mutex`.  A tick under way is at the head of the queue, and the
  queue holds the ticks that are not idle, once each.
* `WellFormed`: type correctness.

### PipelineProofs

* `PrefundKnown`, `StakeSeen`, `InBothRanges`: what `IInv` says of every entry of the
  mempool (`Admissible`) and of the call on its way there: the result it carries
  came from a simulation at one of the moments it saw, and holds the
  intersection of both time ranges.  Clock, blocks and stakes may move
  between any two steps; the moments of a call only grow.
* `AnswersAndTrailAgree`: `AnswersAgree`, from `AgreeInv`, which adds the audit
  trail that a call has at each of its steps.  A refusal that is thrown, such as
  those of `addUserOp` for reputation, stake and deposit, leaves only the reception in it.
* `BundlesPay`, `EstimatesSuffice`: `BundlePays` and `EstimateSuffices`, from `PriceInv`:
  an operation in the mempool passed the gas check of a configuration, and an answered
  estimate is the rounded price of its own.  The rest is arithmetic over the roundings
  of `calculate`, in lemmas about the operators of `UserOps`.  `BundlePays` is about
  EIP-7623 and any set of operations no smaller than the size that each was priced for:
  their shares of the stipend add up to it, and the floor of the whole transaction is at
  most the sum of theirs.  `EstimateSuffices` needs the estimate to have no more non-zero
  bytes than the value it replaces, because that field is encoded too (section 4).
* `ErrorsHaveCodes`: type correctness.  Its substance is that a call is answered exactly when
  it is over, and that every error, returned or thrown at whatever step, has a code of the
  API, those that only `addUserOp` throws among them.  `KnownInv` adds what is kept for a
  later step: a trace that is a failure has such a code already.  `NullIsNoAnswer` says
  that `Null` is none of the answers.
* `ReceiptsHaveOwnLogs`: `ReceiptHasOwnLogs`, for transactions that call `handleOps` once
  (`OneBundle`, in the property): every log of the operation's own execution is kept, and none
  of the validation or after the operation's event.  That earlier operations' logs are kept
  with them is the code's (section 4).  The scan of `filterLogs` is unfolded log by log; by
  induction over the position its boundaries enclose what the property says.

### BuilderProofs

For any set of operations and any limits, while other calls submit, remove, give back and
change reputations at every step.

* `TypeCorrect`: type correctness, with `Ready`, what a judged entry has been read for.
* `GasFits`: `GasWithinLimit`.  `Accounted`: no operation is bundled twice (its sender is in
  `senders`), and the running total `totalGas` is the sum over the bundle.
* `OneTuplePerSigner`: `TuplesAgree`.
* `StorageApart`: `StorageIsolated`.  `SendersKnown`: whatever entry in the bundle or yet
  to be judged is still 'bundling' is among the senders collected at the start, so an
  operation judged *before* the one whose storage it touches was compared with it, too.
* `ThrottledFactoriesCapped`: `ThrottledFactoryCap`, for each spelling of a factory by
  itself, as the code counts.  `FactoriesCounted`: the count of a spelling is never below
  its operations in the bundle.
* `NoneStuck`: `NothingStuck`, whatever the verdicts, the signers and the failures.  `lost`
  has what the code forgets, in four ways: `balanceOf` rejected, the hook threw, it
  returned early, or the tuple conflicted.  The theorem says that there is no fifth.
  `Found` says where each other entry marked 'bundling' is kept: by the processor, or in
  one of the lists that the steps left will go through.

### RulesProofs

For call trees of any size and depth.  `RulesInv` says what a frame on the stack is: judged
as its caller's entity, with that entity's address, below a frame that may call it, and
with the parser's idea of whose storage it works on equal to the EVM's.

* `TypeCorrect` and `ContextFollowed` (`ContextTracked`) are read off it.
* `StorageKeptApart` (`StorageIsolated`) and `DeploysSenderOnly` (`OnlySenderDeployed`) are
  inductive together with it: the histories grow by what one frame did, and a frame that
  broke a rule sets the result.

### RefinementProofs

The safety halves of the two refinements, step by step.

* `TypeCorrect`, `InCallOrder`: with at least two slots `AuditQueue` implements the safety
  of `AuditTrail` (`TrailSafety`), for any number of events and any `LockHops`.  With one
  slot it does not (section 4).  The invariant splits the log, in its order, into events
  that were handed over, are in the buffer, wait for the lock, hold a slot without
  having asked for the lock, and wait for a slot (`Placed`); says what the buffer holds
  from its head on (`Filled`); that every slot is free, reserved or filled (`Counted`); and
  what the order of microtasks is good for (`Locked`, `Scheduled`): when the worker's turn
  comes at most one reserved slot is unwritten, and then all others are in use, so with
  two slots or more the one at the head is written.
* `AggregatorsAnnounced`: `AggregatorOfTransaction`.  What is remembered was announced in
  the transaction remembered with it (`MemoryInv`), whichever handler did it.
* `CursorSetBeforeUse`: type correctness of `EventManager`.  The cursor `lastBlock` stays on
  the chain, and no handler queries with a null cursor, although any of them may move it
  between the awaits of another (`CursorOK`).
* `EventsSettle`: `EventManager` implements the safety of `Settlement`
  (`SettlementSafety`), with any number of the listener's calls at work at once.  An operation has one outcome on chain, and only if it landed
  (`ChainInv`); a handler has nothing to do that is not in the log (`HandlersInv`).

### Sums

Lemmas, not a model: that the recursive sum over a finite set exists and adds up in any
order (`SumInsert`, `SumOfEqual`), and `UpTo`, induction over numbers.  The library's
induction theorems take an operator, which the provers cannot instantiate; here the claim
is a *set* (of the subsets or numbers where it holds), and a smallest counterexample comes
from the well-foundedness of finite sets (`Smallest`).

### Only model-checked

Liveness is beyond the prover: `AttemptsEnd`, `LandedSettles`,
`RequestsAnswered`, `SigtermEnds`, and the fairness halves of `ImplementsTrail` and
`ImplementsSettlement`.  The finding, `PastEventsComplete`, is a violation that TLC shows.

## 7. What is not modelled

* Capabilities: signed once at start-up and verified against constants, so every
  access of a module gets the same verdict.
* The provider's calls as such (I/O, inputs here; how they fail is in `Simulation`),
  the ABIs and Solidity helpers (data, or code outside the node), the pino
  logger and the samples of the metrics (wording), Libp2p (never started), which
  option of the command line is invalid (any step of start-up may throw).

Abstracted in the modules there are: addresses and hashes are names; the time
of arrival is dropped (any pending entry instead of the oldest); `storageMap` is
the set of addresses it names; an aggregator is a fourth role of an operation, and
the instances of Mempool have none; the doubles that the fees of a replacement are
compared as are operators given by the configuration (`Number`, `Raised`; nine bits
in the runs); opcodes are two classes, banned and allowed to staked entities; an operation's encoding is its numbers of bytes.  In NodeLifecycle an
operation is in one attempt at a time, as with the interval alone; two overlapping
attempts could take it back twice.

## 8. State of the plan

All components with behaviour of their own are modelled; every type invariant, every
invariant and action property that a run checks and the safety halves of both refinements
are proved.  Liveness stays with TLC, as section 6 says, and so do the theorems' hypotheses
about how calls come (one at a time, no ban): section 4 has the instances that need them.
