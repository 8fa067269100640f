-------------------------- MODULE SendUserOperation --------------------------
(***************************************************************************)
(* A JSON-RPC request from its arrival to its answer: the middleware and   *)
(* the server (src/src/rpc), the Eth API (src/src/apis/eth) and, for an    *)
(* operation to be sent or estimated, the validation service               *)
(* (src/src/validation).                                                   *)
(*                                                                         *)
(* A call is one request.  Each step of it runs to the next await, so the  *)
(* chain, the clock and the gas configuration change between them.  The    *)
(* Ethereum node is external: every call to it may fail.  The mempool's    *)
(* own checks are Mempool's; here it takes the operation or refuses.       *)
(***************************************************************************)
EXTENDS Simulation, FiniteSets

CONSTANTS
  Calls,
  Requests,        \* the requests clients may make
  Transactions,    \* hash of an operation on chain -> its transaction
  EntryPoint,
  Configs,         \* gas configurations of the chains
  Updates,         \* what clients set of one
  MaxBlocks, MaxTime       \* bounds

ASSUME RequestAssumption ==
  /\ {MaxBlocks, MaxTime} \subseteq Nat
  /\ Configs \subseteq GasConfig
  /\ \A r \in Requests : r.faults \subseteq {
       "headerChecks", "isValidRpc", "isValidMethodString", "requestIdNotMissing",
       "idTypeStringOrNumber", "paramsIsArray", "apiEnabled"}

\* external: the contracts return validation data of 48-bit times.
ASSUME ValidityAssumption ==
  \A r \in Requests : r.op # Null =>
    {r.op.validity.account, r.op.validity.paymaster} \subseteq ValidationData

\* A field in hexadecimal is a number; one that is missing is Null.
ASSUME OperationAssumption ==
  \A r \in Requests : r.op # Null /\ r.op.fieldsAreHex =>
    /\ {"callData", "auth", "zeroBytes", "nonzeroBytes", "signature", "callGasLimit",
        "paymasterPostOpGasLimit", "preVerificationGas"} \subseteq DOMAIN r.op
    /\ {r.op.zeroBytes, r.op.nonzeroBytes, r.op.callGasLimit, r.op.callData.length,
        r.op.preVerificationGas} \subseteq Nat
    /\ r.op.signature \in {Null} \cup Nat
    /\ r.op.paymasterPostOpGasLimit \in {Null} \cup Nat

\* What a client sets has the type of the configuration.
ASSUME UpdateAssumption ==
  \A fields \in Updates : \A f \in DOMAIN fields :
    fields[f] \in (IF f = "useEip7623" THEN BOOLEAN
                   ELSE IF f = "expectedBundleSize" THEN Nat \ {0} ELSE Nat)

\* external: the logs of a transaction are a sequence.
ASSUME TransactionAssumption ==
  \A hash \in DOMAIN Transactions :
    LET logs == Transactions[hash].logs
    IN Len(logs) \in Nat /\ DOMAIN logs = 1 .. Len(logs)

VARIABLES
  options,         \* isUnsafeMode, eip7702Support
  call,            \* each request
  gasConfig,       \* of the pre-verification gas calculator
  chain,           \* external: whether the entity of an operation is staked
  blocks,          \* changes of the chain so far (bound)
  now,
  pool,            \* what sendUserOperation put into the mempool
  trail,           \* audit events of each call
  moments          \* history: the moments <<chain, now>> of each call

vars == <<options, call, gasConfig, chain, blocks, now, pool, trail, moments>>

NewCall == [pc |-> "new", req |-> Null, trace |-> Null, result |-> Null,
            config |-> Null, answer |-> Null]

At(c, pc) == call[c].pc = pc
Goto(c, pc) == call' = [call EXCEPT ![c].pc = pc]
Active(c) == call[c].pc \notin {"new", "answered"}
Op(c) == call[c].req.op
\* The codes of ValidationErrors, the one of an error without a code, and the
\* one ethers gives to data it cannot decode.
Codes == {"InvalidRequest", "InvalidFields", "InternalError", "SimulateValidation",
          "OpcodeValidation", "NotInTimeRange", "Reputation", "InsufficientStake",
          "InvalidSignature", "PaymasterDepositTooLow", "UserOperationReverted",
          "-32000", "BAD_DATA"}

Error(code) == [is |-> "error", value |-> code]
Result(value) == [is |-> "result", value |-> value]

Environment == <<options, gasConfig, chain, blocks, now, moments>>

-----------------------------------------------------------------------------
(* Answers *)

Answer(c, answer) ==
  call' = [call EXCEPT ![c] = [@ EXCEPT !.pc = "answered", !.answer = answer]]

\* Seeded bug: the handler of the route does not catch.
Unanswered(c, code) == UNCHANGED call

\* What is thrown goes to the catch of the route, which answers with its code.
Throw(c, code) == Answer(c, Error(code))

\* Both of a handler: an error it returns, or one it throws.
Fail(c, e) ==
  IF e.is = "throws" THEN Throw(c, e.code) ELSE Answer(c, Error(e.code))

\* Seeded bug: a rejection is not written to the trail.
RejectSilently(c, e) == Fail(c, e) /\ UNCHANGED trail

\* sendUserOperation writes a rejection that comes back as a Left; what is
\* thrown passes it by.
Reject(c, e) ==
  /\ Fail(c, e)
  /\ trail' = IF e.is = "left" THEN [trail EXCEPT ![c] = Append(@, "userOpRejected")]
              ELSE trail

-----------------------------------------------------------------------------
(* The middleware *)

\* The number of parameters of each method: those of the Eth API, and those
\* whose answer is a constant.  The debug methods that change the mempool, the
\* reputation or the bundler are actions of other modules.
Arity ==
  [eth_chainId |-> {0}, eth_sendUserOperation |-> {2},
   eth_estimateUserOperationGas |-> {2, 3}, eth_getUserOperationReceipt |-> {1},
   eth_getUserOperationByHash |-> {1}, eth_supportedEntryPoints |-> {0},
   web3_clientVersion |-> {0}, debug_bundler_setBundleInterval |-> {1}]

\* The interval of the bundler is not set at all.
ConstantAnswer ==
  [eth_supportedEntryPoints |-> {EntryPoint}, web3_clientVersion |-> "version",
   debug_bundler_setBundleInterval |-> "ok"]

\* The checks in their order.
MiddlewareChecks == <<"headerChecks", "isValidRpc", "isValidMethodString",
                      "requestIdNotMissing", "idTypeStringOrNumber", "paramsIsArray",
                      "apiEnabled", "transformRequest", "isParamsValid">>

\* The checks a request fails: those of its form, and those of its method.
Failing(r) ==
  r.faults \cup (IF r.method \notin DOMAIN Arity THEN {"transformRequest"}
                 ELSE IF r.params \notin Arity[r.method] THEN {"isParamsValid"} ELSE {})

FirstFailing(checks) ==
  MiddlewareChecks[CHOOSE i \in DOMAIN MiddlewareChecks :
    /\ MiddlewareChecks[i] \in checks
    /\ \A j \in 1 .. i - 1 : MiddlewareChecks[j] \notin checks]

MiddlewareCode(check) ==
  IF check = "isParamsValid" THEN "InvalidFields" ELSE "InvalidRequest"

\* The first await of each handler.
Handler(method) ==
  CASE method = "eth_sendUserOperation" -> "received"
    [] method = "eth_estimateUserOperationGas" -> "input"
    [] method \in {"eth_getUserOperationReceipt", "eth_getUserOperationByHash"} -> "event"
    [] method = "eth_chainId" -> "network"

HasHash(method) == method \in {"eth_getUserOperationReceipt", "eth_getUserOperationByHash"}

\* A request arrives: the middleware, then the handler to its first await.
Arrive(c, r) ==
  /\ At(c, "new")
  /\ call' = [call EXCEPT ![c] =
       IF Failing(r) # {}
       THEN [@ EXCEPT !.req = r, !.pc = "answered",
                      !.answer = Error(MiddlewareCode(FirstFailing(Failing(r))))]
       ELSE IF r.method \in DOMAIN ConstantAnswer
       THEN [@ EXCEPT !.req = r, !.pc = "answered",
                      !.answer = Result(ConstantAnswer[r.method])]
       ELSE IF HasHash(r.method) /\ ~r.hexHash
       THEN [@ EXCEPT !.req = r, !.pc = "answered", !.answer = Error("InvalidFields")]
       ELSE [@ EXCEPT !.req = r, !.pc = Handler(r.method)]]
  /\ moments' = [moments EXCEPT ![c] = {<<chain, now>>}]
  /\ trail' = IF Failing(r) = {} /\ r.method = "eth_sendUserOperation"
              THEN [trail EXCEPT ![c] = <<"userOpReceived">>] ELSE trail
  /\ UNCHANGED <<options, gasConfig, chain, blocks, now, pool>>

\* The readings that need no more than one call of the node.
Network(c) ==
  /\ At(c, "network")
  /\ Answer(c, Result("chainId")) \/ Throw(c, "-32000")
  /\ UNCHANGED <<Environment, pool, trail>>

-----------------------------------------------------------------------------
(* validateInputParameters *)

\* requireAddressAndFields: no field of an entity without its address, and all
\* the mandatory ones with it.
RequireAddressAndFields(address, must, optional) ==
  IF address = Null THEN \A i \in DOMAIN (must \o optional) : (must \o optional)[i] = Null
  ELSE address # "malformed" /\ \A i \in DOMAIN must : must[i] # Null

EntitiesComplete(op) ==
  /\ RequireAddressAndFields(op.paymaster,
       <<op.paymasterPostOpGasLimit, op.paymasterVerificationGasLimit>>,
       <<op.paymasterData>>)
  /\ op.factory # Marker => RequireAddressAndFields(op.factory, <<op.factoryData>>, <<>>)

\* That EIP-7702 is not supported makes no difference, except that looking at
\* the field throws when there is no operation.
ValidateInputParameters(r, checkGas, eip7702Support, config) ==
  CASE r.entryPoint = "" -> Left("InvalidFields")
    [] r.entryPoint # "" /\ r.op = Null /\ ~eip7702Support -> Throws("-32000")
    [] r.entryPoint # "" /\ r.op = Null /\ eip7702Support -> Left("InvalidFields")
    [] OTHER ->
         IF r.entryPoint # EntryPoint \/ ~r.op.fieldsAreHex THEN Left("InvalidFields")
         ELSE IF ~EntitiesComplete(r.op) THEN Throws("InvalidFields")
         ELSE IF checkGas /\ ~ValidatePreVerificationGas(r.op, config)
         THEN Throws("InvalidFields")
         ELSE Right(r.op)

-----------------------------------------------------------------------------
(* eth_sendUserOperation *)

\* After the audit event: the input is validated, then the hash is asked for.
Received(c) ==
  LET res == ValidateInputParameters(call[c].req, TRUE, options.eip7702Support, gasConfig)
  IN
  /\ At(c, "received")
  /\ IF res.is = "right"
     THEN /\ call' = [call EXCEPT ![c] = [@ EXCEPT !.pc = "hash", !.config = gasConfig]]
          /\ UNCHANGED trail
     ELSE Reject(c, res)
  /\ UNCHANGED <<Environment, pool>>

\* getUserOpHashWithCode, an eth_call.
Hash(c) ==
  /\ At(c, "hash")
  /\ \E res \in Send("eth_call") :
       IF res.is = "right"
       THEN /\ Goto(c, IF GetAuthorizationList(Op(c)) = <<>> THEN "simulate" ELSE "authorize")
            /\ UNCHANGED trail
       ELSE Reject(c, res)
  /\ UNCHANGED <<Environment, pool>>

\* validateUserOp on the authorization: the chain of the node, and the signer.
Authorized(auth) == auth.chain \in {"any", "this"} /\ SignerRecovered(auth) = "sender"

Authorize(c) ==
  /\ At(c, "authorize")
  /\ \/ /\ Authorized(Op(c).auth)
        /\ Goto(c, "simulate")
        /\ UNCHANGED trail
     \/ ~Authorized(Op(c).auth) /\ Reject(c, Throws("InvalidFields"))
     \/ Reject(c, Throws("-32000"))
  /\ UNCHANGED <<Environment, pool>>

\* fullSimulateValidation begins: the gas it passes on as a BigInt, which throws
\* on a fraction, then debug_traceCall at the latest block.
FullSimulate(c) ==
  /\ At(c, "simulate") /\ ~options.isUnsafeMode
  /\ \E res \in DebugTraceCall(Op(c)) :
       IF res.is = "throws" THEN Fail(c, res)
       ELSE call' = [call EXCEPT ![c] = [@ EXCEPT !.pc = "stakes", !.trace = res]]
  /\ UNCHANGED <<Environment, pool, trail>>

\* Seeded bug: the rules that a stake waives are not checked.
ParseIgnoringStakes(op, staked) ==
  IF op.rules = "broken" THEN Left("OpcodeValidation") ELSE Right(op)

\* The ERC-7562 parser, as far as it depends on the stakes.
ParseTracerResult(op, staked) ==
  IF op.rules = "broken" \/ (op.rules = "stake needed" /\ ~staked)
  THEN Left("OpcodeValidation") ELSE Right(op)

\* getStakes, at whatever block is the latest now; then the trace is decoded
\* and parsed.
Stakes(c) ==
  LET op == Op(c)
      reverted == IF call[c].trace.is = "right"
                  THEN ParseTracerResultCallsForRevert(call[c].trace.value)
                  ELSE call[c].trace
      result == IF reverted.is = "right"
                THEN GenerateValidationResult(op, reverted.value, chain) ELSE reverted
      parsed == IF result.is = "right" THEN ParseTracerResult(op, chain) ELSE result
  IN
  /\ At(c, "stakes")
  /\ \/ /\ parsed.is = "right"
        /\ call' = [call EXCEPT ![c] =
             [@ EXCEPT !.pc = "codeHash", !.trace = Null, !.result = result.value]]
        /\ UNCHANGED trail
     \/ parsed.is # "right" /\ Reject(c, parsed)
     \/ Reject(c, Throws("-32000"))
  /\ UNCHANGED <<Environment, pool>>

\* Seeded bug: the comparison of the gas, which can reject nothing, is gone.
CheckWithoutGas(result) ==
  CASE result.sigFailed -> Left("InvalidSignature")
    [] ~result.sigFailed /\ (now < result.validAfter \/ now > result.validUntil) ->
         Left("NotInTimeRange")
    [] OTHER -> Right(result)

\* The checks for a near deadline, for an aggregator and for spare verification
\* gas build a Left and drop it; the last one throws on an unknown preOpGas.
CheckValidationResult(result) ==
  CASE result.sigFailed -> Left("InvalidSignature")
    [] ~result.sigFailed /\ (now < result.validAfter \/ now > result.validUntil) ->
         Left("NotInTimeRange")
    [] OTHER -> IF result.preOpGas = Null THEN Throws("-32000") ELSE Right(result)

Checked(c, result) ==
  LET res == CheckValidationResult(result)
  IN IF res.is = "right"
     THEN /\ call' = [call EXCEPT ![c] = [@ EXCEPT !.pc = "add", !.result = result]]
          /\ UNCHANGED trail
     ELSE Reject(c, res)

\* The script that hashes the code of the contracts the trace met.
CodeHash(c) ==
  /\ At(c, "codeHash")
  /\ \E res \in RunContractScript :
       IF res.is = "right" THEN Checked(c, call[c].result) ELSE Reject(c, res)
  /\ UNCHANGED <<Environment, pool>>

PartialSimulate(c) ==
  /\ At(c, "simulate") /\ options.isUnsafeMode
  /\ \E outcome \in SimulationOutcomes :
       LET res == PartialSimulateValidation(Op(c), outcome)
       IN IF res.is = "right" THEN Checked(c, res.value) ELSE Reject(c, res)
  /\ UNCHANGED <<Environment, pool>>

\* What addUserOp throws: the deposit is too low, a reputation or a stake does
\* not do; or the deposit could not be read.
AddThrows == {"PaymasterDepositTooLow", "Reputation", "InsufficientStake", "-32000"}

\* addUserOp of the mempool manager: it takes the operation or refuses it.  A
\* replacement that pays too little and a clash of roles come back as a Left.
Add(c) ==
  /\ At(c, "add")
  /\ \/ /\ Answer(c, Result("userOpHash"))
        /\ pool' = pool \cup {[call |-> c, op |-> Op(c), result |-> call[c].result,
                               config |-> call[c].config]}
        /\ trail' = [trail EXCEPT ![c] = Append(@, "userOpIncludedInMempool")]
     \/ /\ \/ \E code \in {"InvalidFields", "OpcodeValidation"} : Reject(c, Left(code))
           \/ \E code \in AddThrows : Reject(c, Throws(code))
        /\ UNCHANGED pool
  /\ UNCHANGED Environment

-----------------------------------------------------------------------------
(* eth_estimateUserOperationGas *)

\* The defaults make an operation of any parameter, if an incomplete one.
EstimateInput(c) ==
  LET r == call[c].req
      res == IF r.op = Null THEN Left("InvalidFields")
             ELSE ValidateInputParameters(r, FALSE, options.eip7702Support, gasConfig)
  IN
  /\ At(c, "input")
  /\ IF res.is = "right" THEN Goto(c, "estimate") ELSE Fail(c, res)
  /\ UNCHANGED <<Environment, pool, trail>>

\* createSuccessResponse: numbers become hexadecimal, which a fraction cannot.
SuccessResponse(estimate) ==
  IF estimate % Unit = 0 THEN Result(estimate \div Unit) ELSE Error("InternalError")

\* Both calls are awaited together; then the gas of the call is looked at first.
Estimate(c) ==
  /\ At(c, "estimate")
  /\ \E e \in SimulationOutcomes, g \in {"result", "AA23", "garbage"} :
       LET execution == SimulateHandleOp(e)
           callGas == EstimateCallGas(g)
       IN
       CASE "throws" \in {execution.is, callGas.is} -> Throw(c, "-32000")
         [] "throws" \notin {execution.is, callGas.is} /\ callGas.is = "left" ->
              Fail(c, callGas)
         [] callGas.is = "right" /\ execution.is = "left" -> Fail(c, execution)
         [] callGas.is = "right" /\ execution.is = "right" ->
              call' = [call EXCEPT ![c] =
                [@ EXCEPT !.pc = "answered", !.config = gasConfig,
                          !.answer = SuccessResponse(
                            EstimatePreVerificationGas(Op(c), gasConfig))]]
  /\ UNCHANGED <<Environment, pool, trail>>

-----------------------------------------------------------------------------
(* Looking up an operation that is on chain *)

IsOwn(log, hash) == log.kind = "UserOperationEvent" /\ log.hash = hash

\* One log of the transaction: start and end are 0 for -1.
FilterStep(logs, hash, acc, i) ==
  CASE logs[i].kind = "BeforeExecution" -> [start |-> i, end |-> i]
    [] IsOwn(logs[i], hash) -> [acc EXCEPT !.end = i]
    [] logs[i].kind = "UserOperationEvent" /\ logs[i].hash # hash /\ acc.end = 0 ->
         [acc EXCEPT !.start = i]
    [] OTHER -> acc

Boundaries(logs, hash) ==
  LET scan[n \in 0 .. Len(logs)] ==
        IF n = 0 THEN [start |-> 0, end |-> 0] ELSE FilterStep(logs, hash, scan[n - 1], n)
  IN scan[Len(logs)]

\* Seeded bug: the next operation's event moves the start as well.
FilterLogsLastEvent(hash, logs) ==
  LET ends == {i \in DOMAIN logs : logs[i].kind = "UserOperationEvent"}
      b == Boundaries(logs, hash)
  IN IF b.end = 0 THEN Left("-32000")
     ELSE Right({i \in DOMAIN logs : /\ i < b.end
                                     /\ \A j \in ends : j < i \/ j = b.end})

\* The positions of the logs in the answer.
FilterLogs(hash, logs) ==
  LET b == Boundaries(logs, hash)
  IN IF b.end = 0 THEN Left("-32000")
     ELSE Right({i \in DOMAIN logs : b.start < i /\ i < b.end})

\* getUserOperationEvent: a query for the hash over the whole chain, which may
\* not know the operation yet.
Event(c) ==
  /\ At(c, "event")
  /\ \/ call[c].req.hash \in DOMAIN Transactions /\ Goto(c, "fetch")
     \/ Answer(c, Result(Null))
     \/ Throw(c, "-32000")
  /\ UNCHANGED <<Environment, pool, trail>>

Transaction(c) == Transactions[call[c].req.hash]

\* A transaction that a reorganisation took away is null, and using it throws.
FetchReceipt(c) ==
  LET res == FilterLogs(call[c].req.hash, Transaction(c).logs)
  IN
  /\ At(c, "fetch") /\ call[c].req.method = "eth_getUserOperationReceipt"
  /\ \/ IF res.is = "right" THEN Answer(c, Result(res.value)) ELSE Fail(c, res)
     \/ Throw(c, "-32000")
  /\ UNCHANGED <<Environment, pool, trail>>

\* The operation of the transaction with the sender and nonce of the event.
FetchByHash(c) ==
  LET tx == Transaction(c)
      found == {i \in DOMAIN tx.ops : tx.ops[i].senderNonce = tx.event.senderNonce}
  IN
  /\ At(c, "fetch") /\ call[c].req.method = "eth_getUserOperationByHash"
  /\ \/ IF tx.to # EntryPoint \/ found = {} THEN Fail(c, Left("-32000"))
        ELSE Answer(c, Result(UnpackUserOp(
               tx.ops[CHOOSE i \in found : \A j \in found : i <= j].packed)))
     \/ Throw(c, "-32000")
  /\ UNCHANGED <<Environment, pool, trail>>

-----------------------------------------------------------------------------
(* The rest of the world *)

Seen(where, when) ==
  moments' = [c \in Calls |->
    IF Active(c) THEN moments[c] \cup {<<where, when>>} ELSE moments[c]]

\* external: a block in which the stake of the entity changes.
Block ==
  /\ blocks < MaxBlocks
  /\ blocks' = blocks + 1
  /\ chain' = ~chain
  /\ Seen(~chain, now)
  /\ UNCHANGED <<options, call, gasConfig, now, pool, trail>>

Tick ==
  /\ now < MaxTime
  /\ now' = now + 1
  /\ Seen(chain, now + 1)
  /\ UNCHANGED <<options, call, gasConfig, chain, blocks, pool, trail>>

\* debug_bundler_setConfiguration, answered without an await.
SetGasConfig(fields) ==
  /\ gasConfig' = UpdateGasConfig(gasConfig, fields)
  /\ gasConfig' # gasConfig
  /\ UNCHANGED <<options, call, chain, blocks, now, pool, trail, moments>>

Init ==
  /\ options \in [isUnsafeMode : BOOLEAN, eip7702Support : BOOLEAN]
  /\ call = [c \in Calls |-> NewCall]
  /\ gasConfig \in Configs
  /\ chain \in BOOLEAN
  /\ blocks = 0
  /\ now = 0
  /\ pool = {}
  /\ trail = [c \in Calls |-> <<>>]
  /\ moments = [c \in Calls |-> {}]

\* What a call does next.
Proceed(c) ==
  \/ Network(c)
  \/ Received(c) \/ Hash(c) \/ Authorize(c)
  \/ FullSimulate(c) \/ Stakes(c) \/ CodeHash(c)
  \/ PartialSimulate(c)
  \/ Add(c)
  \/ EstimateInput(c) \/ Estimate(c)
  \/ Event(c) \/ FetchReceipt(c) \/ FetchByHash(c)

Next ==
  \/ \E c \in Calls : \E r \in Requests : Arrive(c, r)
  \/ \E c \in Calls : Proceed(c)
  \/ Block \/ Tick
  \/ \E fields \in Updates : SetGasConfig(fields)

\* The node answers or fails every call made of it, so a call goes on.
Spec == Init /\ [][Next]_vars /\ \A c \in Calls : WF_vars(Proceed(c))

-----------------------------------------------------------------------------
(* Properties *)

\* Type invariant.
TypeOK ==
  /\ gasConfig \in GasConfig
  /\ chain \in BOOLEAN /\ blocks \in 0 .. MaxBlocks /\ now \in 0 .. MaxTime
  /\ \A c \in Calls :
       /\ call[c].req \in Requests \cup {Null}
       /\ (call[c].answer = Null) = ~At(c, "answered")
       /\ trail[c] \in {<<>>, <<"userOpReceived">>, <<"userOpReceived", "userOpRejected">>,
                         <<"userOpReceived", "userOpIncludedInMempool">>}
  /\ \A c \in Calls : (call[c].answer # Null /\ call[c].answer.is = "error") =>
       call[c].answer.value \in Codes
  /\ \A e \in pool : e.call \in Calls /\ e.result.validAfter \in Nat

\* The answer, the audit trail and the mempool agree on every operation sent:
\* a hash is answered for exactly those the mempool took and the trail has as
\* included; a verdict of the validation is in the trail as a rejection; and a
\* refusal that only the mempool throws is not in the trail, which then says no
\* more than that the operation was received (sendUserOperation, addUserOp).
Verdicts == {"InvalidSignature", "OpcodeValidation", "NotInTimeRange"}
ThrownByMempool == {"Reputation", "InsufficientStake", "PaymasterDepositTooLow"}

AnswersAgree ==
  \A c \in Calls :
    LET admitted == \E e \in pool : e.call = c
        included == Last(<<"none">> \o trail[c]) = "userOpIncludedInMempool"
    IN /\ admitted = included
       /\ At(c, "answered") /\ trail[c] # <<>> =>
            /\ (call[c].answer.is = "result") = included
            /\ call[c].answer.is = "error" /\ call[c].answer.value \in Verdicts =>
                 Last(trail[c]) = "userOpRejected"
            /\ call[c].answer.is = "error" /\ call[c].answer.value \in ThrownByMempool =>
                 trail[c] = <<"userOpReceived">>

\* An operation that breaks a rule waived for staked entities enters the mempool
\* only if the entity was staked at some moment of the call, although the trace
\* and the stakes are read at different blocks (fullSimulateValidation).
StakeWasReal ==
  \A e \in pool :
    e.op.rules = "stake needed" /\ ~options.isUnsafeMode =>
      \E m \in moments[e.call] : m[1]

\* An operation enters the mempool only if its time range and its paymaster's
\* both held at one moment of the call (mergeValidationData,
\* checkValidationResult).
InRangeOfBoth ==
  \A e \in pool : \E m \in moments[e.call] :
    \A data \in {e.op.validity.account} \cup
                (IF e.op.paymaster = Null THEN {} ELSE {e.op.validity.paymaster}) :
      data.validAfter <= m[2] /\ (data.validUntil = 0 \/ m[2] <= data.validUntil)

\* An operation whose trace stopped before the entry point's innerHandleOp, so
\* that its prefund is unknown, never enters the mempool: the paymaster's
\* deposit check would count nothing for it (generateValidationResult,
\* checkValidationResult).
PrefundIsKnown == \A e \in pool : e.result.preOpGas # Null

\* What the operations of a bundle pay covers what EIP-7623 makes its transaction
\* cost, whatever gas each execution uses above the tenth charged in any case, up
\* to the rounding of half a gas each.  The operations may have been admitted for
\* different sizes of a bundle, if this one is no smaller than any of them
\* (calculate, validatePreVerificationGas, updateGasConfig).
ApartFromSize(config) == [config EXCEPT !.expectedBundleSize = 1]

\* The shares of the stipend and of the overhead divide exactly.
SharesExact(config) ==
  /\ config.transactionGasStipend % config.expectedBundleSize = 0
  /\ config.fixedGasOverhead % config.expectedBundleSize = 0

BundlePays ==
  \A B \in SUBSET pool : \A one \in B :
    (/\ one.config.useEip7623
     /\ \A e \in B : /\ ApartFromSize(e.config) = ApartFromSize(one.config)
                     /\ e.config.expectedBundleSize <= Cardinality(B)
                     /\ SharesExact(e.config))
    => \A more \in [B -> 0 .. 3] :
         LET config == one.config
             gas == [e \in B |-> GetUserOpGasUsed(e.op) + more[e]]
             paid == [e \in B |-> e.op.preVerificationGas + gas[e]]
             tokens == [e \in B |-> CountTokens(e.op, e.config)]
             spent == [e \in B |-> PerUserOpOverhead(e.op, e.config) + Unit * gas[e]]
             execution == config.fixedGasOverhead + SumFunction(spent)
             data == SumFunction(tokens)
         IN 2 * Unit * SumFunction(paid) + Unit * Cardinality(B) >=
              2 * (config.transactionGasStipend
                     + MathMax(config.standardTokenGasCost * data + execution,
                               config.floorPerTokenGasCost * data))

\* An operation that declares what the node estimated for it passes the gas
\* check, if its signature is no longer than the one assumed, the configuration
\* stays, and the estimate has no more non-zero bytes than the value it replaces
\* (estimateUserOperationGas, validateInputParameters).
Declared(c) == [Op(c) EXCEPT !.preVerificationGas = call[c].answer.value]

HasEstimate(c) ==
  /\ At(c, "answered")
  /\ call[c].req.method = "eth_estimateUserOperationGas"
  /\ call[c].answer.is = "result"
  /\ Op(c).signature # Null /\ Op(c).signature <= call[c].config.estimationSignatureSize

EstimateSuffices ==
  \A c \in Calls :
    /\ HasEstimate(c)
    /\ NonzeroBytes(call[c].answer.value) <= NonzeroBytes(Op(c).preVerificationGas)
    /\ call[c].config.tokensPerNonzeroByte >= 1
    => ValidatePreVerificationGas(Declared(c), call[c].config)

\* The comment of estimateUserOperationGas: given an operation without gas
\* limits, it returns the needed ones.
EstimateIsNeededGas ==
  \A c \in Calls : HasEstimate(c) => ValidatePreVerificationGas(Declared(c), call[c].config)

HasReceipt(c) ==
  /\ At(c, "answered")
  /\ call[c].req.method = "eth_getUserOperationReceipt"
  /\ call[c].answer.is = "result" /\ call[c].answer.value # Null

\* The transaction calls handleOps once: the operation has one event, and its
\* logs come after the last BeforeExecution and the event before its own.
OneBundle(logs, hash) ==
  \E end \in DOMAIN logs :
    /\ \A j \in DOMAIN logs : IsOwn(logs[j], hash) <=> j = end
    /\ \A j \in DOMAIN logs : logs[j].kind = "BeforeExecution" => j < end
    /\ \A i \in DOMAIN logs : logs[i] = [kind |-> "log", hash |-> hash] =>
         /\ i < end
         /\ \A j \in DOMAIN logs :
              logs[j].kind \in {"BeforeExecution", "UserOperationEvent"} => j < i \/ end <= j

\* Of a transaction that calls handleOps once, a receipt holds every log of the
\* operation's own execution, none of the validation and none that comes after
\* the operation's event (filterLogs).
ReceiptHasOwnLogs ==
  \A c \in Calls :
    LET logs == Transaction(c).logs
        hash == call[c].req.hash
        kept == call[c].answer.value
    IN HasReceipt(c) /\ OneBundle(logs, hash) =>
         /\ \A i \in DOMAIN logs : logs[i] = [kind |-> "log", hash |-> hash] => i \in kept
         /\ \A i \in kept : \A j \in DOMAIN logs :
              /\ logs[j].kind = "BeforeExecution" => j < i
              /\ IsOwn(logs[j], hash) => i < j

\* The comment on the logs of a receipt, in its two halves: they are the logs
\* generated by this operation, and not those of others in the same bundle.
ReceiptHasAllOwnLogs ==
  \A c \in Calls : HasReceipt(c) =>
    \A i \in DOMAIN Transaction(c).logs :
      Transaction(c).logs[i] = [kind |-> "log", hash |-> call[c].req.hash]
        => i \in call[c].answer.value

ReceiptHasNoOthersLogs ==
  \A c \in Calls : HasReceipt(c) =>
    \A i \in call[c].answer.value :
      Transaction(c).logs[i].hash = call[c].req.hash

\* Every request is answered, whatever fails on the way.
RequestsAnswered == \A c \in Calls : Active(c) ~> At(c, "answered")
=============================================================================
