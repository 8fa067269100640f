---------------------------- MODULE Erc7562Rules ----------------------------
(***************************************************************************)
(* The ERC-7562 parser of src/src/sim/erc7562-parser.ts: it walks the tree *)
(* of call frames a native tracer recorded for handleOps([userOp]) and     *)
(* stops at the first frame that breaks a rule.                            *)
(*                                                                         *)
(* `stack` is the parser's explicit stack: children are pushed in the      *)
(* order they were called and popped from the end, each with the copy of   *)
(* the runner state its parent had.  What a frame did (an observation) and *)
(* which calls it made are chosen when it is popped; the tracer is         *)
(* external, and so is the EVM, which says who a frame's caller is and     *)
(* whose storage it works on (`self`).  Addresses, slots and hashes are    *)
(* numbers, so that the ranges of precompiles and of structures in storage *)
(* are the code's own.                                                     *)
(***************************************************************************)
EXTENDS Integers, Sequences, SequencesExt, FiniteSets

CONSTANTS
  EntryPoint, SenderCreator, Sender, Factory, Paymaster, Other,
  Eip7702Marker,    \* the factory field of an operation that sets its own code
  Observations,     \* what one frame may have done
  StakeInfos,       \* the stakes an entity may have
  KeccakInputs,     \* hashes computed during validation: [prefix, hash]
  CallTypes,        \* the kinds of frame contracts open
  MaxFrames, MaxCalls, MaxDepth, MaxAccesses    \* bounds

ZeroAddress == 0
NoAddress == -1                     \* undefined, null
Contracts == {EntryPoint, SenderCreator, Sender, Factory, Paymaster, Other}

ASSUME AddressAssumption ==
  /\ Contracts \subseteq Nat
  /\ \A a \in Contracts : a > 999
  /\ Cardinality(Contracts) = 6
  /\ Eip7702Marker \in Nat \ Contracts
  /\ {MaxFrames, MaxCalls, MaxDepth, MaxAccesses} \subseteq Nat
  /\ MaxDepth > 0

\* Slots and hashes are numbers (BigInt in the code), and so are the stakes.
ASSUME ObservationAssumption ==
  /\ \A o \in Observations : o.slots \subseteq [slot : Nat, write : BOOLEAN]
  /\ KeccakInputs \subseteq [prefix : Nat, hash : Nat]
  /\ StakeInfos \subseteq [stake : Nat, unstakeDelaySec : Nat]

VARIABLES
  op,               \* the operation: factory, paymaster, context, stakes
  stack,
  storageMap, contractAddresses,
  result,           \* "running", "accepted", or the rule reported
  frames,           \* frames opened so far (bound)
  accesses, creations    \* history: what the frames passed so far did

vars == <<op, stack, storageMap, contractAddresses, result, frames,
          accesses, creations>>

Entities == {"account", "factory", "paymaster"}
System == {"none", "EntryPoint", "SenderCreator"}
Creates == {"CREATE", "CREATE2"}

-----------------------------------------------------------------------------
(* The helpers of the rules.  s is a runner state, with its frame's fields; *)
(* o what the frame did.                                                   *)

IsEntityStaked(entity) ==
  /\ entity \in Entities
  /\ op.stakes[entity].stake >= 1
  /\ op.stakes[entity].unstakeDelaySec >= 1

IsPrecompiled(address) == address \in 1 .. 999

IsForbiddenPrecompiled(address) == IsPrecompiled(address) /\ address > 9

IsCallToEntryPoint(s) ==
  /\ s.to = EntryPoint
  /\ s.from \notin {EntryPoint, ZeroAddress}

\* keccak(A || ...) is associated with A, for A one of the operation's entities
EntitySlots(address) ==
  IF address \in {Sender, op.paymaster, op.factory}
  THEN {k.hash : k \in {i \in op.keccak : i.prefix = address}}
  ELSE {}

\* Seeded bug: the structure at a hash is taken to end one slot later.
AssociatedLonger(slot, address) ==
  \/ slot = address
  \/ \E k \in EntitySlots(address) : slot \in k .. k + 128

AssociatedWith(slot, address) ==
  \/ slot = address
  \/ \E k \in EntitySlots(address) : slot \in k .. k + 127

\* The entity a frame called by the system belongs to; anybody else's frame
\* keeps the entity of its caller.
EntityOf(s) ==
  LET Is(entity, address) == [name |-> entity, address |-> address] IN
  IF s.from \notin {ZeroAddress, EntryPoint, SenderCreator}
  THEN Is(s.entity, s.entityAddress)
  ELSE IF s.to = Sender THEN Is("account", Sender)
  ELSE IF s.from = SenderCreator /\ s.to = op.factory THEN Is("factory", op.factory)
  ELSE IF s.to = op.paymaster THEN Is("paymaster", op.paymaster)
  ELSE IF s.to = EntryPoint THEN Is("EntryPoint", EntryPoint)
  ELSE IF s.to = SenderCreator THEN Is("SenderCreator", SenderCreator)
  ELSE Is("unknown", NoAddress)

DetectEntityChange(s) ==
  [s EXCEPT !.entity = EntityOf(s).name, !.entityAddress = EntityOf(s).address]

-----------------------------------------------------------------------------
(* One operator per rule: TRUE when the frame keeps it.                    *)

CheckOp011(s, o) == s.to = EntryPoint \/ "banned" \notin o.opcodes

CheckOp020(s, o) == ~o.outOfGas

\* Seeded bug: OP-032 admits CREATE2 as well.
Op032AnyCreate(s) ==
  /\ op.factory # NoAddress
  /\ s.entity \in {"account", "factory"}
  /\ s.from = Sender

AllowedByOp032(s) ==
  /\ op.factory # NoAddress
  /\ s.type = "CREATE"
  /\ s.entity \in {"account", "factory"}
  /\ s.from = Sender

AllowedByErep060(s) ==
  s.from \in {Sender, op.factory} /\ IsEntityStaked("factory")

CheckOp031(s, o) ==
  \/ s.type \notin Creates
  \/ AllowedByOp032(s)
  \/ AllowedByErep060(s)
  \/ s.entity = "factory" /\ s.to = Sender

CheckOp041(s, o) ==
  \A c \in o.contractSize :
    \/ IsPrecompiled(c.address)
    \/ c.address \in {Sender, EntryPoint}
    \/ c.size > 2

\* depositTo, the fallback ('0x') and the RIP-7560 callbacks
CheckOp054(s, o) == IsCallToEntryPoint(s) => o.method # "other"

CheckOp054ExtCode(s, o) == EntryPoint \notin o.extCode

CheckOp061(s, o) == IsCallToEntryPoint(s) \/ o.value = 0

CheckOp062(s, o) ==
  \A c \in o.contractSize : ~IsForbiddenPrecompiled(c.address)

CheckOp080(s, o) == "onlyStaked" \in o.opcodes => IsEntityStaked(s.entity)

CheckErep050(s, o) ==
  s.entity = "paymaster" /\ op.context => IsEntityStaked("paymaster")

AllowedSlot(s, a) ==
  LET isSenderCreation == op.factory # NoAddress IN
  \/ s.to = Sender                                             \* STO-010
  \/ /\ AssociatedWith(a.slot, Sender)                         \* STO-021, 022
     /\ isSenderCreation => IsEntityStaked("factory")
  \/ /\ IsEntityStaked(s.entity)                               \* STO-031..033
     /\ \/ s.to = s.entityAddress
        \/ AssociatedWith(a.slot, s.entityAddress)
        \/ ~a.write

CheckStorage(s, o) ==
  s.to = EntryPoint \/ \A a \in o.slots : AllowedSlot(s, a)

\* The order of the flatMap chain, and the rule each check reports.
Checks(s, o) ==
  << CheckOp011(s, o), CheckOp020(s, o), CheckOp031(s, o), CheckOp041(s, o),
     CheckOp054(s, o), CheckOp054ExtCode(s, o), CheckOp061(s, o),
     CheckOp062(s, o), CheckOp080(s, o), CheckErep050(s, o),
     CheckStorage(s, o) >>

Reported == << "OP-011", "OP-020", "OP-011", "OP-041", "OP-054", "OP-054",
               "OP-061", "OP-062", "OP-011", "EREP-050", "STO-010" >>

Verdict(s, o) ==
  LET broken == {i \in DOMAIN Reported : ~Checks(s, o)[i]} IN
  CASE s.entity = "unknown" -> "bug"
    [] s.entity # "unknown" /\ broken = {} -> "right"
    [] OTHER -> Reported[CHOOSE i \in broken : \A j \in broken : i <= j]

-----------------------------------------------------------------------------
(* The calls a frame makes.  The entry point calls what validation needs   *)
(* and then itself (innerHandleOp); a contract calls anybody.              *)

\* external: the EVM
Header(s, type, to) ==
  [type |-> type, from |-> s.self, to |-> to,
   self |-> IF type = "DELEGATECALL" THEN s.self ELSE to]

EntryPointCalls(s) ==
  LET call(address) == <<Header(s, "CALL", address)>>
  IN {(IF op.factory = NoAddress THEN <<>> ELSE call(SenderCreator))
        \o call(Sender)
        \o (IF op.paymaster = NoAddress THEN <<>> ELSE call(op.paymaster))
        \o call(EntryPoint)}

Targets(type) ==
  CASE type \in Creates -> {Other} \cup (IF op.factory = Factory THEN {Sender} ELSE {})
    [] type = "DELEGATECALL" -> {Sender, Other}
    [] OTHER -> Contracts \ {SenderCreator}

ContractCalls(s) ==
  LET headers == UNION {{Header(s, type, to) : to \in Targets(type)} :
                          type \in CallTypes}
  IN UNION {[1 .. n -> headers] : n \in 0 .. MaxCalls}

\* The sender creator calls the factory, or lets a 7702 account initialise.
Calls(s) ==
  IF s.depth = 0 THEN EntryPointCalls(s)
  ELSE IF s.to = EntryPoint \/ s.depth >= MaxDepth THEN {<<>>}
  ELSE IF s.to = SenderCreator
  THEN {<<Header(s, "CALL", IF op.factory = Factory THEN Factory ELSE Sender)>>}
  ELSE {c \in ContractCalls(s) : frames + Len(c) <= MaxFrames}

\* Seeded bug: every sub-call works on its own address.
ChildOfTarget(s, call) ==
  call @@
  [entity |-> s.entity, entityAddress |-> s.entityAddress,
   delegatecallStorageAddress |-> call.to, depth |-> s.depth + 1]

\* The runner state of a sub-call: a copy of its caller's.
Child(s, call) ==
  [type |-> call.type, from |-> call.from, to |-> call.to, self |-> call.self,
   entity |-> s.entity, entityAddress |-> s.entityAddress,
   delegatecallStorageAddress |->
     IF call.type = "DELEGATECALL" THEN s.delegatecallStorageAddress
     ELSE call.to,
   depth |-> s.depth + 1]

Pushed(rest, s, calls) ==
  rest \o [i \in DOMAIN calls |-> Child(s, calls[i])]

StorageOf(s, o) ==
  IF s.to = EntryPoint THEN {} ELSE {<<s.to, a.slot>> : a \in o.slots}

-----------------------------------------------------------------------------

\* The runner state parseTracerResult starts from.  The trace of handleOps
\* always has calls, so isERC7562Calls passes.
InitialState ==
  [type |-> "CALL", from |-> ZeroAddress, to |-> EntryPoint,
   self |-> EntryPoint, entity |-> "none", entityAddress |-> NoAddress,
   delegatecallStorageAddress |-> EntryPoint, depth |-> 0]

Init ==
  /\ op \in [factory : {NoAddress, Factory, Eip7702Marker}, paymaster : {NoAddress, Paymaster},
             context : BOOLEAN, stakes : [Entities -> StakeInfos],
             keccak : {KeccakInputs}]
  /\ op.context => op.paymaster # NoAddress
  /\ op.factory # Factory => op.stakes["factory"].stake = 0
  /\ op.paymaster = NoAddress => op.stakes["paymaster"].stake = 0
  /\ stack = <<InitialState>>
  /\ storageMap = {} /\ contractAddresses = {}
  /\ result = "running"
  /\ frames = 1
  /\ accesses = {} /\ creations = {}

\* innerHandleOp, the entry point's call to itself, is not looked into.
SkipSelfCall ==
  /\ result = "running" /\ stack # <<>>
  /\ Last(stack).to = EntryPoint /\ Last(stack).from = EntryPoint
  /\ stack' = Front(stack)
  /\ UNCHANGED <<op, storageMap, contractAddresses, result, frames,
                 accesses, creations>>

\* What the EVM did in a frame that passed.
Record(s, o) ==
  /\ accesses' = accesses \cup
       {[owner |-> s.self, slot |-> a.slot, write |-> a.write,
         entity |-> s.entity, delegated |-> s.self # s.to] :
          a \in {b \in o.slots : s.to # EntryPoint}}
  /\ creations' = creations \cup
       {[type |-> s.type, from |-> s.from, to |-> s.to] :
          t \in {s.type} \cap Creates}

CheckFrame ==
  /\ result = "running" /\ stack # <<>>
  /\ ~(Last(stack).to = EntryPoint /\ Last(stack).from = EntryPoint)
  /\ LET s == DetectEntityChange(Last(stack)) IN
     \E o \in {p \in Observations : \/ p.slots = {} /\ ~(s.entity \in System)
                                    \/ p.quiet
                                    \/ /\ ~(s.entity \in System)
                                       /\ Cardinality(accesses) < MaxAccesses} :
       /\ contractAddresses' = contractAddresses \cup {s.to}
       /\ \/ /\ Verdict(s, o) # "right"
             /\ result' = Verdict(s, o)
             /\ stack' = <<>>
             /\ UNCHANGED <<storageMap, frames, accesses, creations>>
          \/ /\ Verdict(s, o) = "right"
             /\ storageMap' = storageMap \cup StorageOf(s, o)
             /\ Record(s, o)
             /\ \E calls \in Calls(s) :
                  /\ stack' = Pushed(Front(stack), s, calls)
                  /\ frames' = frames + Len(calls)
             /\ UNCHANGED result
  /\ UNCHANGED op

Accept ==
  /\ result = "running" /\ stack = <<>>
  /\ result' = "accepted"
  /\ UNCHANGED <<op, stack, storageMap, contractAddresses, frames,
                 accesses, creations>>

Next == SkipSelfCall \/ CheckFrame \/ Accept

Spec == Init /\ [][Next]_vars

-----------------------------------------------------------------------------

\* The parser's state is of its types (src/src/sim/erc7562-parser.ts:41), and
\* no frame of a handleOps trace is one it cannot attribute (:209).
TypeOK ==
  /\ \A i \in DOMAIN stack :
       /\ stack[i].entity \in Entities \cup System
       /\ stack[i].entityAddress \in Contracts \cup {NoAddress}
       /\ stack[i].delegatecallStorageAddress \in Contracts
       /\ stack[i].depth \in 0 .. MaxDepth
  /\ storageMap \subseteq (Contracts \ {EntryPoint}) \X Nat
  /\ contractAddresses \subseteq Contracts
  /\ result \in {"running", "accepted"} \cup Range(Reported)

\* Through any nesting of delegate calls the parser knows whose storage a
\* frame works on (:990-993): every frame has its own copy of the runner state
\* (:995), and what a delegate call changes in it concerns no other frame.
ContextTracked ==
  \A i \in DOMAIN stack :
    stack[i].delegatecallStorageAddress = stack[i].self

\* checkStorage takes a frame's target for the owner of the slots (:836): what
\* a delegate call touches is filed under the library, so what follows speaks
\* of the other accesses.
OwnAccesses == {a \in accesses : ~a.delegated}

\* As long as nothing was reported, unstaked code touched only the sender's
\* own or associated storage, and nobody wrote elsewhere than there and in
\* the storage of the entity itself (:849-887).
StorageIsolated ==
  \A a \in OwnAccesses :
    LET senders == \/ a.owner = Sender
                   \/ a.slot = Sender
                   \/ \E k \in KeccakInputs :
                        k.prefix = Sender /\ a.slot - k.hash \in 0 .. 127
    IN /\ ~IsEntityStaked(a.entity) => senders
       /\ a.write => \/ senders
                     \/ a.entity = "factory" /\ a.owner = Factory
                     \/ a.entity = "paymaster" /\ a.owner = Paymaster
                     \/ \E k \in KeccakInputs : /\ a.slot - k.hash \in 0 .. 127
                                                /\ k.prefix \in {Factory, Paymaster}
                     \/ a.slot \in {Factory, Paymaster}

\* With an unstaked factory, the sender is the only contract a CREATE2 deploys
\* (:518-546).
OnlySenderDeployed ==
  ~IsEntityStaked("factory") =>
    \A c \in creations : c.type = "CREATE2" => c.to = Sender
=============================================================================
