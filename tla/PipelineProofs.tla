---------------------------- MODULE PipelineProofs ----------------------------
(***************************************************************************)
(* Theorems about SendUserOperation, for any requests and any number of    *)
(* calls, any chain, clock and gas configuration: what an operation in the *)
(* mempool was validated against, although the clock, the stakes and the   *)
(* blocks move between the steps of its call; and what a call is answered. *)
(***************************************************************************)
EXTENDS SendUserOperation, Sums, TLAPS

-----------------------------------------------------------------------------
(* The invariant *)

\* The steps of a call that have an operation to send or to estimate.
Validating == {"hash", "authorize", "simulate", "stakes", "codeHash", "add"}
Elsewhere == {"received", "input", "estimate", "event", "fetch", "network", "answered"}

Fields == {"pc", "req", "trace", "result", "config", "answer"}

\* One of the moments lies within both time ranges of the operation.
InRangeAt(op, m) ==
  \A data \in {op.validity.account} \cup
              (IF op.paymaster = Null THEN {} ELSE {op.validity.paymaster}) :
    data.validAfter <= m[2] /\ (data.validUntil = 0 \/ m[2] <= data.validUntil)

\* Where the rule that a stake waives was broken, the stake was seen.
Staked(op, ms) ==
  op.rules = "stake needed" /\ ~options.isUnsafeMode => \E m \in ms : m[1]

\* The range of a validation result lies within both ranges of the operation.
RangeOf(op, result) ==
  /\ {result.validAfter, result.validUntil} \subseteq Nat
  /\ \A t \in Nat : result.validAfter <= t /\ t <= result.validUntil =>
       \A where : InRangeAt(op, <<where, t>>)

Admissible(op, result, ms) ==
  /\ result.preOpGas # Null
  /\ Staked(op, ms)
  /\ \E m \in ms : InRangeAt(op, m)

CallOK(c) ==
  /\ DOMAIN call[c] = Fields
  /\ call[c].pc \in {"new"} \cup Validating \cup Elsewhere
  /\ ~At(c, "new") => call[c].req \in Requests
  /\ call[c].pc \in Validating => Op(c) # Null
  /\ Active(c) => <<chain, now>> \in moments[c]
  /\ At(c, "codeHash") =>
       RangeOf(Op(c), call[c].result) /\ Staked(Op(c), moments[c])
  /\ At(c, "add") => Admissible(Op(c), call[c].result, moments[c])

\* What was validated stays valid: the moments of a call only grow, and an
\* operation in the mempool belongs to a call that is over.
IInv ==
  /\ now \in Nat
  /\ DOMAIN call = Calls /\ DOMAIN moments = Calls
  /\ \A c \in Calls : CallOK(c)
  /\ \A e \in pool : /\ e.call \in Calls /\ At(e.call, "answered")
                     /\ Admissible(e.op, e.result, moments[e.call])

-----------------------------------------------------------------------------
(* The operators of the simulator *)

LEMMA ParsedRange ==
  ASSUME NEW data \in ValidationData
  PROVE  /\ ParseValidationData(data) \in ValidationData
         /\ ParseValidationData(data).validAfter = data.validAfter
         /\ ParseValidationData(data).aggregator = data.aggregator
         /\ data.validUntil = 0 \/ ParseValidationData(data).validUntil = data.validUntil
BY MaxUint48Assumption DEF ParseValidationData, ValidationData

LEMMA MergedType ==
  ASSUME NEW a \in ValidationData, NEW p \in ValidationData \cup {NoValidationData}
  PROVE  /\ MergeValidationData(a, p).validAfter \in Nat
         /\ MergeValidationData(a, p).validUntil \in Nat
<1>1. /\ {a.validAfter, a.validUntil} \subseteq Nat
      /\ {p.validAfter, p.validUntil} \subseteq Nat
  BY MaxUint48Assumption DEF ValidationData, NoValidationData
<1> QED
  BY <1>1 DEF MergeValidationData, Later, Earlier

\* A time within a merged range is within both ranges.
LEMMA MergedRange ==
  ASSUME NEW a \in ValidationData, NEW p \in ValidationData, NEW t \in Nat,
         MergeValidationData(ParseValidationData(a), ParseValidationData(p)).validAfter <= t,
         t <= MergeValidationData(ParseValidationData(a), ParseValidationData(p)).validUntil,
         NEW data \in {a, p}
  PROVE  data.validAfter <= t /\ (data.validUntil = 0 \/ t <= data.validUntil)
<1> DEFINE pa == ParseValidationData(a)
           pp == ParseValidationData(p)
<1>1. pa \in ValidationData /\ pp \in ValidationData
  BY ParsedRange
<1>2. pa.validAfter <= t /\ pp.validAfter <= t
  BY <1>1, MaxUint48Assumption DEF MergeValidationData, Later, ValidationData
<1>3. t <= pa.validUntil /\ t <= pp.validUntil
  BY <1>1, MaxUint48Assumption DEF MergeValidationData, Earlier, ValidationData
<1> QED
  BY <1>2, <1>3, ParsedRange

\* So is it when the paymaster's range counts as none.
LEMMA MergedAlone ==
  ASSUME NEW a \in ValidationData, NEW t \in Nat,
         MergeValidationData(ParseValidationData(a), NoValidationData).validAfter <= t,
         t <= MergeValidationData(ParseValidationData(a), NoValidationData).validUntil
  PROVE  a.validAfter <= t /\ (a.validUntil = 0 \/ t <= a.validUntil)
<1> DEFINE pa == ParseValidationData(a)
<1>1. pa \in ValidationData
  BY ParsedRange
<1>2. pa.validAfter <= t /\ t <= pa.validUntil
  BY <1>1, MaxUint48Assumption
     DEF MergeValidationData, NoValidationData, Later, Earlier, ValidationData
<1> QED
  BY <1>2, ParsedRange

LEMMA FullRange ==
  ASSUME NEW r \in Requests, r.op # Null, NEW trace, NEW staked,
         GenerateValidationResult(r.op, trace, staked).is = "right"
  PROVE  RangeOf(r.op, GenerateValidationResult(r.op, trace, staked).value)
<1> DEFINE op == r.op
           pp == IF op.paymaster = Null THEN NoValidationData
                 ELSE ParseValidationData(op.validity.paymaster)
           merged == MergeValidationData(ParseValidationData(op.validity.account), pp)
           result == GenerateValidationResult(op, trace, staked).value
<1>1. result.validAfter = merged.validAfter /\ result.validUntil = merged.validUntil
  BY DEF GenerateValidationResult, DecodeErrorReason, Throws, Left, Right
<1>2. op.validity.account \in ValidationData /\ op.validity.paymaster \in ValidationData
  BY ValidityAssumption
<1>3. ASSUME NEW t \in Nat, result.validAfter <= t, t <= result.validUntil, NEW where,
             NEW data \in {op.validity.account} \cup
               (IF op.paymaster = Null THEN {} ELSE {op.validity.paymaster})
      PROVE  data.validAfter <= t /\ (data.validUntil = 0 \/ t <= data.validUntil)
  <2> HIDE DEF result
  <2>1. merged.validAfter <= t /\ t <= merged.validUntil
    BY <1>1, <1>3
  <2>2. CASE op.paymaster = Null
    BY <1>2, <1>3, <2>1, <2>2, MergedAlone
  <2>3. CASE op.paymaster # Null
    BY <1>2, <1>3, <2>1, <2>3, MergedRange
  <2> QED
    BY <2>2, <2>3
<1>4. merged.validAfter \in Nat /\ merged.validUntil \in Nat
  BY <1>2, ParsedRange, MergedType
<1> HIDE DEF result, op
<1> QED
  BY <1>1, <1>3, <1>4 DEF RangeOf, InRangeAt, result, op

LEMMA PartialRange ==
  ASSUME NEW r \in Requests, r.op # Null
  PROVE  /\ RangeOf(r.op, ParseSimulateValidationResult(r.op))
         /\ ParseSimulateValidationResult(r.op).preOpGas = "known"
<1> DEFINE op == r.op
           merged == MergeValidationData(ParseValidationData(op.validity.account),
                                         ParseValidationData(op.validity.paymaster))
           result == ParseSimulateValidationResult(op)
<1>1. /\ result.validAfter = merged.validAfter /\ result.validUntil = merged.validUntil
      /\ result.preOpGas = "known"
  BY DEF ParseSimulateValidationResult
<1>2. op.validity.account \in ValidationData /\ op.validity.paymaster \in ValidationData
  BY ValidityAssumption
<1>3. ASSUME NEW t \in Nat, result.validAfter <= t, t <= result.validUntil, NEW where,
             NEW data \in {op.validity.account, op.validity.paymaster}
      PROVE  data.validAfter <= t /\ (data.validUntil = 0 \/ t <= data.validUntil)
  BY <1>1, <1>2, <1>3, MergedRange
<1>4. merged.validAfter \in Nat /\ merged.validUntil \in Nat
  BY <1>2, ParsedRange, MergedType
<1> HIDE DEF result, op
<1> QED
  BY <1>1, <1>3, <1>4 DEF RangeOf, InRangeAt, result, op

-----------------------------------------------------------------------------
(* The steps *)

\* Moments are only added, so what they witness stays.
LEMMA AdmissibleGrows ==
  ASSUME NEW op, NEW result, NEW ms, NEW more, ms \subseteq more,
         options' = options
  PROVE  /\ Admissible(op, result, ms) => Admissible(op, result, more)
         /\ Staked(op, ms) => Staked(op, more)
         /\ Admissible(op, result, ms) => Admissible(op, result, ms)'
         /\ Staked(op, ms) => Staked(op, ms)'
BY DEF Admissible, Staked

\* A call goes on: nothing changes but its record.
LEMMA CallStep ==
  ASSUME IInv, NEW c \in Calls, NEW r,
         call' = [call EXCEPT ![c] = r],
         UNCHANGED <<options, chain, now, moments, pool>>,
         Active(c),
         DOMAIN r = Fields, r.req = call[c].req, r.pc \in Validating \cup Elsewhere,
         r.pc \in Validating => Op(c) # Null,
         r.pc = "codeHash" => RangeOf(Op(c), r.result) /\ Staked(Op(c), moments[c]),
         r.pc = "add" => Admissible(Op(c), r.result, moments[c])
  PROVE  IInv'
<1>1. /\ call'[c] = r /\ DOMAIN call' = Calls
      /\ \A d \in Calls \ {c} : call'[d] = call[d]
  BY DEF IInv
<1>2. r.pc # "new"
  BY DEF Validating, Elsewhere
<1>3. \A op, ms : Staked(op, ms)' = Staked(op, ms)
  BY DEF Staked
<1>4. \A op, result, ms : Admissible(op, result, ms)' = Admissible(op, result, ms)
  BY <1>3 DEF Admissible
<1>5. CallOK(c)'
  BY <1>1, <1>2, <1>3, <1>4 DEF IInv, CallOK, At, Active, Op
<1>6. ASSUME NEW d \in Calls \ {c} PROVE CallOK(d)'
  BY <1>1, <1>3, <1>4 DEF IInv, CallOK, At, Active, Op
<1>7. ASSUME NEW e \in pool
      PROVE  /\ e.call \in Calls /\ At(e.call, "answered")'
             /\ Admissible(e.op, e.result, moments[e.call])'
  <2>1. e.call \in Calls /\ e.call # c
    BY DEF IInv, At, Active
  <2>2. Admissible(e.op, e.result, moments[e.call])'
    BY <1>4 DEF IInv
  <2> QED
    BY <1>1, <2>1, <2>2 DEF IInv, At
<1> QED
  BY <1>1, <1>5, <1>6, <1>7 DEF IInv

LEMMA AnswerStep ==
  ASSUME IInv, NEW c \in Calls, NEW a, Answer(c, a), Active(c),
         UNCHANGED <<options, chain, now, moments, pool>>
  PROVE  IInv'
<1> DEFINE r == [call[c] EXCEPT !.pc = "answered", !.answer = a]
<1>1. DOMAIN call[c] = Fields /\ call' = [call EXCEPT ![c] = r]
  BY DEF IInv, CallOK, Answer
<1>2. DOMAIN r = Fields /\ r.req = call[c].req /\ r.pc = "answered"
  BY <1>1 DEF Fields
<1> HIDE DEF r
<1> QED
  BY <1>1, <1>2, CallStep DEF Validating, Elsewhere

LEMMA RefusedStep ==
  ASSUME IInv, NEW c \in Calls, NEW e, Fail(c, e) \/ Reject(c, e) \/ Throw(c, e),
         Active(c), UNCHANGED <<options, chain, now, moments, pool>>
  PROVE  IInv'
<1>1. \E a : Answer(c, a)
  BY DEF Fail, Reject, Throw
<1> QED
  BY <1>1, AnswerStep

LEMMA GotoStep ==
  ASSUME IInv, NEW c \in Calls, NEW pc \in Validating \cup Elsewhere, Goto(c, pc),
         Active(c), pc \in Validating => Op(c) # Null, pc \notin {"codeHash", "add"},
         UNCHANGED <<options, chain, now, moments, pool>>
  PROVE  IInv'
<1> DEFINE r == [call[c] EXCEPT !.pc = pc]
<1>1. DOMAIN call[c] = Fields /\ call' = [call EXCEPT ![c] = r]
  BY DEF IInv, CallOK, Goto
<1>2. DOMAIN r = Fields /\ r.req = call[c].req /\ r.pc = pc
  BY <1>1 DEF Fields
<1> HIDE DEF r
<1> QED
  BY <1>1, <1>2, CallStep

LEMMA InitInv == Init => IInv
BY DEF Init, IInv, CallOK, NewCall, Fields, At, Active, Validating, Elsewhere

LEMMA ArriveStep ==
  ASSUME IInv, NEW c \in Calls, NEW r \in Requests, Arrive(c, r)
  PROVE  IInv'
<1> DEFINE rec == call'[c]
<1>1. /\ DOMAIN call' = Calls
      /\ \A d \in Calls \ {c} : call'[d] = call[d] /\ moments'[d] = moments[d]
      /\ DOMAIN moments' = Calls /\ moments'[c] = {<<chain, now>>}
      /\ UNCHANGED <<options, chain, now, pool>>
  BY DEF IInv, Arrive
<1>2. DOMAIN call[c] = Fields /\ At(c, "new")
  BY DEF IInv, CallOK, Arrive
<1>3. /\ DOMAIN rec = Fields /\ rec.req = r
      /\ rec.pc = "answered" \/ rec.pc = Handler(r.method)
  <2> DEFINE answer(a) == [call[c] EXCEPT !.req = r, !.pc = "answered", !.answer = a]
             proceed == [call[c] EXCEPT !.req = r, !.pc = Handler(r.method)]
  <2>1. rec = proceed \/ \E a : rec = answer(a)
    BY <1>2 DEF IInv, Arrive
  <2>2. CASE rec = proceed
    BY <1>2, <2>2 DEF Fields
  <2>3. ASSUME NEW a, rec = answer(a)
        PROVE  DOMAIN rec = Fields /\ rec.req = r /\ rec.pc = "answered"
    BY <1>2, <2>3 DEF Fields
  <2> QED
    BY <2>1, <2>2, <2>3
<1>4. Failing(r) = {} /\ r.method \notin DOMAIN ConstantAnswer => r.method \in DOMAIN Arity
  BY DEF Failing
<1>5. rec.pc \in Elsewhere
  <2>1. r.method \in DOMAIN Arity /\ r.method \notin DOMAIN ConstantAnswer
          => Handler(r.method) \in Elsewhere
    BY DEF Arity, ConstantAnswer, Handler, Elsewhere
  <2>2. CASE Failing(r) # {} \/ r.method \in DOMAIN ConstantAnswer
    <3>1. rec.pc = "answered"
      BY <1>2, <2>2 DEF IInv, Arrive, Fields
    <3> QED
      BY <3>1 DEF Elsewhere
  <2> QED
    BY <1>3, <1>4, <2>1, <2>2 DEF Elsewhere
<1> HIDE DEF rec
<1>6. \A op, ms : Staked(op, ms)' = Staked(op, ms)
  BY <1>1 DEF Staked
<1>7. \A op, result, ms : Admissible(op, result, ms)' = Admissible(op, result, ms)
  BY <1>6 DEF Admissible
<1>8. CallOK(c)'
  BY <1>1, <1>3, <1>5 DEF CallOK, At, Active, Elsewhere, Validating, rec
<1>9. ASSUME NEW d \in Calls \ {c} PROVE CallOK(d)'
  BY <1>1, <1>6, <1>7 DEF IInv, CallOK, At, Active, Op
<1>10. ASSUME NEW e \in pool
       PROVE  /\ e.call \in Calls /\ At(e.call, "answered")'
              /\ Admissible(e.op, e.result, moments[e.call])'
  BY <1>1, <1>2, <1>7 DEF IInv, At
<1> QED
  BY <1>1, <1>8, <1>9, <1>10 DEF IInv

\* The steps that read the chain or look an operation up refuse or go on.
LEMMA SimpleSteps ==
  ASSUME IInv, NEW c \in Calls,
         \/ Network(c) \/ Hash(c) \/ Authorize(c)
         \/ EstimateInput(c) \/ Event(c) \/ FetchReceipt(c) \/ FetchByHash(c)
  PROVE  IInv'
<1>1. Active(c) /\ UNCHANGED <<options, chain, now, moments, pool>>
  BY DEF Active, At, Network, Hash, Authorize, EstimateInput, Event, FetchReceipt,
         FetchByHash, Environment
<1>2. call[c].pc \in Validating => Op(c) # Null
  BY DEF IInv, CallOK
<1>3. \/ \E e : Fail(c, e) \/ Reject(c, e) \/ Throw(c, e) \/ Answer(c, e)
      \/ \E pc \in {"simulate", "authorize"} : Goto(c, pc) /\ call[c].pc \in Validating
      \/ \E pc \in {"estimate", "fetch"} : Goto(c, pc)
  BY DEF Network, Hash, Authorize, EstimateInput, Event, FetchReceipt, FetchByHash,
         Validating, At
<1>4. ASSUME NEW e, Fail(c, e) \/ Reject(c, e) \/ Throw(c, e) PROVE IInv'
  BY <1>1, <1>4, RefusedStep
<1>5. ASSUME NEW a, Answer(c, a) PROVE IInv'
  BY <1>1, <1>5, AnswerStep
<1>6. ASSUME NEW pc \in {"simulate", "authorize"}, Goto(c, pc), call[c].pc \in Validating
      PROVE  IInv'
  BY <1>1, <1>2, <1>6, GotoStep DEF Validating
<1>7. ASSUME NEW pc \in {"estimate", "fetch"}, Goto(c, pc) PROVE IInv'
  BY <1>1, <1>7, GotoStep DEF Validating, Elsewhere
<1> QED
  BY <1>3, <1>4, <1>5, <1>6, <1>7

LEMMA ReceivedStep ==
  ASSUME IInv, NEW c \in Calls, Received(c)
  PROVE  IInv'
<1> DEFINE res == ValidateInputParameters(call[c].req, TRUE, options.eip7702Support,
                                          gasConfig)
           r == [call[c] EXCEPT !.pc = "hash", !.config = gasConfig]
<1>1. Active(c) /\ UNCHANGED <<options, chain, now, moments, pool>>
  BY DEF Received, Active, At, Environment
<1>2. CASE res.is = "right"
  <2>1. Op(c) # Null
    BY <1>2 DEF ValidateInputParameters, Left, Throws, Right, Op
  <2>2. DOMAIN call[c] = Fields /\ call' = [call EXCEPT ![c] = r]
    BY <1>2 DEF IInv, CallOK, Received
  <2>3. DOMAIN r = Fields /\ r.req = call[c].req /\ r.pc = "hash"
    BY <2>2 DEF Fields
  <2> HIDE DEF r
  <2> QED
    BY <1>1, <2>1, <2>2, <2>3, CallStep DEF Validating
<1>3. CASE res.is # "right"
  BY <1>1, <1>3, RefusedStep DEF Received
<1> QED
  BY <1>2, <1>3

LEMMA FullSimulateStep ==
  ASSUME IInv, NEW c \in Calls, FullSimulate(c)
  PROVE  IInv'
<1>1. Active(c) /\ UNCHANGED <<options, chain, now, moments, pool>> /\ Op(c) # Null
  BY DEF FullSimulate, Active, At, Environment, IInv, CallOK, Validating
<1>2. PICK res \in DebugTraceCall(Op(c)) :
        IF res.is = "throws" THEN Fail(c, res)
        ELSE call' = [call EXCEPT ![c] = [@ EXCEPT !.pc = "stakes", !.trace = res]]
  BY DEF FullSimulate
<1>3. CASE res.is = "throws"
  BY <1>1, <1>2, <1>3, RefusedStep
<1>4. CASE res.is # "throws"
  <2> DEFINE r == [call[c] EXCEPT !.pc = "stakes", !.trace = res]
  <2>1. DOMAIN call[c] = Fields /\ call' = [call EXCEPT ![c] = r]
    BY <1>2, <1>4 DEF IInv, CallOK
  <2>2. DOMAIN r = Fields /\ r.req = call[c].req /\ r.pc = "stakes"
    BY <2>1 DEF Fields
  <2> HIDE DEF r
  <2> QED
    BY <1>1, <2>1, <2>2, CallStep DEF Validating
<1> QED
  BY <1>3, <1>4

\* The stakes are those of the block at which they are read, and that block is
\* a moment of the call.
LEMMA StakesStep ==
  ASSUME IInv, NEW c \in Calls, Stakes(c)
  PROVE  IInv'
<1> DEFINE op == Op(c)
           reverted == IF call[c].trace.is = "right"
                       THEN ParseTracerResultCallsForRevert(call[c].trace.value)
                       ELSE call[c].trace
           result == IF reverted.is = "right"
                     THEN GenerateValidationResult(op, reverted.value, chain) ELSE reverted
           parsed == IF result.is = "right" THEN ParseTracerResult(op, chain) ELSE result
           r == [call[c] EXCEPT !.pc = "codeHash", !.trace = Null, !.result = result.value]
<1>1. /\ Active(c) /\ UNCHANGED <<options, chain, now, moments, pool>> /\ Op(c) # Null
      /\ call[c].req \in Requests /\ <<chain, now>> \in moments[c]
  BY DEF Stakes, Active, At, Environment, IInv, CallOK, Validating
<1>2. \/ parsed.is = "right" /\ call' = [call EXCEPT ![c] = r]
      \/ \E e : Reject(c, e)
  BY DEF Stakes
<1>3. CASE \E e : Reject(c, e)
  BY <1>1, <1>3, RefusedStep
<1>4. CASE parsed.is = "right" /\ call' = [call EXCEPT ![c] = r]
  <2>1. DOMAIN call[c] = Fields
    BY DEF IInv, CallOK
  <2>2. DOMAIN r = Fields /\ r.req = call[c].req /\ r.pc = "codeHash"
        /\ r.result = result.value
    BY <2>1 DEF Fields
  <2>3. result.is = "right" /\ ParseTracerResult(op, chain).is = "right"
    BY <1>4
  <2>4. reverted.is = "right" /\ result = GenerateValidationResult(op, reverted.value, chain)
    BY <2>3
  <2>5. RangeOf(Op(c), result.value)
    <3> HIDE DEF reverted
    <3> QED
      BY <1>1, <2>3, <2>4, FullRange DEF Op
  <2>6. Staked(Op(c), moments[c])
    <3>1. op.rules = "stake needed" => chain
      BY <2>3 DEF ParseTracerResult, Left, Right
    <3>2. chain => \E m \in moments[c] : m[1]
      <4>1. <<chain, now>>[1] = chain
        OBVIOUS
      <4> QED
        BY <1>1, <4>1
    <3> QED
      BY <3>1, <3>2 DEF Staked
  <2> HIDE DEF r, result
  <2> QED
    BY <1>1, <1>4, <2>1, <2>2, <2>5, <2>6, CallStep DEF Validating
<1> QED
  BY <1>2, <1>3, <1>4

\* The checks of a validation result: with a range that holds now, and a
\* prefund that is known, the operation may be added.
LEMMA CheckedStep ==
  ASSUME IInv, NEW c \in Calls, NEW result, Checked(c, result), Active(c),
         call[c].pc \in Validating,
         UNCHANGED <<options, chain, now, moments, pool>>,
         RangeOf(Op(c), result), Staked(Op(c), moments[c])
  PROVE  IInv'
<1> DEFINE res == CheckValidationResult(result)
           r == [call[c] EXCEPT !.pc = "add", !.result = result]
<1>1. DOMAIN call[c] = Fields /\ Op(c) # Null /\ <<chain, now>> \in moments[c] /\ now \in Nat
  BY DEF IInv, CallOK
<1>2. CASE res.is = "right"
  <2>1. /\ result.preOpGas # Null
        /\ ~(now < result.validAfter) /\ ~(now > result.validUntil)
    BY <1>2 DEF CheckValidationResult, Left, Throws, Right
  <2>2. InRangeAt(Op(c), <<chain, now>>)
      BY <1>1, <2>1 DEF RangeOf
  <2>3. Admissible(Op(c), result, moments[c])
    BY <1>1, <2>1, <2>2 DEF Admissible
  <2>4. call' = [call EXCEPT ![c] = r]
    BY <1>2 DEF Checked
  <2>5. DOMAIN r = Fields /\ r.req = call[c].req /\ r.pc = "add" /\ r.result = result
    BY <1>1 DEF Fields
  <2> HIDE DEF r
  <2> QED
    BY <1>1, <2>3, <2>4, <2>5, CallStep DEF Validating
<1>3. CASE res.is # "right"
  BY <1>3, RefusedStep DEF Checked
<1> QED
  BY <1>2, <1>3

LEMMA CodeHashStep ==
  ASSUME IInv, NEW c \in Calls, CodeHash(c)
  PROVE  IInv'
<1>1. /\ Active(c) /\ UNCHANGED <<options, chain, now, moments, pool>>
      /\ call[c].pc \in Validating
      /\ RangeOf(Op(c), call[c].result) /\ Staked(Op(c), moments[c])
  BY DEF CodeHash, Active, At, Environment, IInv, CallOK, Validating
<1>2. Checked(c, call[c].result) \/ \E e : Reject(c, e)
  BY DEF CodeHash
<1>3. CASE Checked(c, call[c].result)
  BY <1>1, <1>3, CheckedStep
<1>4. CASE \E e : Reject(c, e)
  BY <1>1, <1>4, RefusedStep
<1> QED
  BY <1>2, <1>3, <1>4

LEMMA PartialSimulateStep ==
  ASSUME IInv, NEW c \in Calls, PartialSimulate(c)
  PROVE  IInv'
<1>1. /\ Active(c) /\ UNCHANGED <<options, chain, now, moments, pool>>
      /\ call[c].pc \in Validating /\ Op(c) # Null /\ call[c].req \in Requests
      /\ options.isUnsafeMode
  BY DEF PartialSimulate, Active, At, Environment, IInv, CallOK, Validating
<1>2. PICK outcome \in SimulationOutcomes :
        LET res == PartialSimulateValidation(Op(c), outcome)
        IN IF res.is = "right" THEN Checked(c, res.value) ELSE Reject(c, res)
  BY DEF PartialSimulate
<1> DEFINE res == PartialSimulateValidation(Op(c), outcome)
<1>3. CASE res.is = "right"
  <2>1. res.value = ParseSimulateValidationResult(Op(c))
    BY <1>3 DEF PartialSimulateValidation, Left, Throws, Right
  <2>2. RangeOf(Op(c), res.value)
    BY <1>1, <2>1, PartialRange DEF Op
  <2>3. Staked(Op(c), moments[c])
    BY <1>1 DEF Staked
  <2>4. Checked(c, res.value)
    BY <1>2, <1>3
  <2> HIDE DEF res
  <2> QED
    BY <1>1, <2>2, <2>3, <2>4, CheckedStep
<1>4. CASE res.is # "right"
  BY <1>1, <1>2, <1>4, RefusedStep
<1> QED
  BY <1>3, <1>4

LEMMA AddStep ==
  ASSUME IInv, NEW c \in Calls, Add(c)
  PROVE  IInv'
<1>1. Active(c) /\ UNCHANGED <<options, chain, now, moments>>
  BY DEF Add, Active, At, Environment
<1>2. CASE pool' = pool
  <2>1. \E e : Answer(c, e) \/ Reject(c, e)
    BY DEF Add
  <2> QED
    BY <1>1, <1>2, <2>1, AnswerStep, RefusedStep
<1>3. CASE pool' # pool
  <2> DEFINE new == [call |-> c, op |-> Op(c), result |-> call[c].result,
                     config |-> call[c].config]
             rest == [call[c] EXCEPT !.pc = "answered", !.answer = Result("userOpHash")]
  <2>1. /\ Answer(c, Result("userOpHash")) /\ pool' = pool \cup {new}
        /\ Admissible(Op(c), call[c].result, moments[c])
    BY <1>3 DEF Add, IInv, CallOK
  <2>2. /\ DOMAIN call[c] = Fields /\ call' = [call EXCEPT ![c] = rest]
        /\ DOMAIN call = Calls
    BY <2>1 DEF IInv, CallOK, Answer
  <2>3. DOMAIN rest = Fields /\ rest.req = call[c].req /\ rest.pc = "answered"
    BY <2>2 DEF Fields
  <2> HIDE DEF rest
  <2>4. /\ DOMAIN call' = Calls /\ call'[c] = rest
        /\ \A d \in Calls \ {c} : call'[d] = call[d]
    BY <2>2
  <2>5. \A op, ms : Staked(op, ms)' = Staked(op, ms)
    BY <1>1 DEF Staked
  <2>6. \A op, result, ms : Admissible(op, result, ms)' = Admissible(op, result, ms)
    BY <2>5 DEF Admissible
  <2>7. CallOK(c)'
    BY <1>1, <2>3, <2>4 DEF IInv, CallOK, At, Active, Elsewhere, Validating
  <2>8. ASSUME NEW d \in Calls \ {c} PROVE CallOK(d)'
    BY <1>1, <2>4, <2>5, <2>6 DEF IInv, CallOK, At, Active, Op
  <2>9. ASSUME NEW e \in pool'
        PROVE  /\ e.call \in Calls /\ At(e.call, "answered")'
               /\ Admissible(e.op, e.result, moments[e.call])'
    <3>1. CASE e = new
      BY <1>1, <2>1, <2>3, <2>4, <2>6, <3>1 DEF At
    <3>2. CASE e \in pool
      BY <1>1, <2>3, <2>4, <2>6, <3>2 DEF IInv, At
    <3> QED
      BY <2>1, <3>1, <3>2
  <2> QED
    BY <1>1, <2>4, <2>7, <2>8, <2>9 DEF IInv
<1> QED
  BY <1>2, <1>3

LEMMA EstimateOutcome ==
  ASSUME NEW c \in Calls, Estimate(c)
  PROVE  \/ \E e : Fail(c, e) \/ Throw(c, e)
         \/ call' = [call EXCEPT ![c] =
              [@ EXCEPT !.pc = "answered", !.config = gasConfig,
                        !.answer = SuccessResponse(EstimatePreVerificationGas(Op(c), gasConfig))]]
<1>1. PICK e \in SimulationOutcomes, g \in {"result", "AA23", "garbage"} :
        LET execution == SimulateHandleOp(e)
            callGas == EstimateCallGas(g)
        IN
        CASE "throws" \in {execution.is, callGas.is} -> Throw(c, "-32000")
          [] "throws" \notin {execution.is, callGas.is} /\ callGas.is = "left" ->
               Fail(c, callGas)
          [] callGas.is = "right" /\ execution.is = "left" -> Fail(c, execution)
          [] callGas.is = "right" /\ execution.is = "right" ->
               call' = [call EXCEPT ![c] =
                 [@ EXCEPT !.pc = "answered", !.config = gasConfig,
                           !.answer = SuccessResponse(
                             EstimatePreVerificationGas(Op(c), gasConfig))]]
  BY DEF Estimate
<1>2. /\ SimulateHandleOp(e).is \in {"left", "right", "throws"}
      /\ EstimateCallGas(g).is \in {"left", "right", "throws"}
  BY DEF SimulateHandleOp, EstimateCallGas, Left, Right, Throws
<1> QED
  BY <1>1, <1>2

LEMMA EstimateStep ==
  ASSUME IInv, NEW c \in Calls, Estimate(c)
  PROVE  IInv'
<1>1. Active(c) /\ UNCHANGED <<options, chain, now, moments, pool>>
  BY DEF Estimate, Active, At, Environment
<1>2. \/ \E e : Fail(c, e) \/ Throw(c, e)
      \/ \E a : call' = [call EXCEPT ![c] =
           [@ EXCEPT !.pc = "answered", !.config = gasConfig, !.answer = a]]
  BY EstimateOutcome
<1>3. CASE \E e : Fail(c, e) \/ Throw(c, e)
  BY <1>1, <1>3, RefusedStep
<1>4. ASSUME NEW a, call' = [call EXCEPT ![c] =
               [@ EXCEPT !.pc = "answered", !.config = gasConfig, !.answer = a]]
      PROVE  IInv'
  <2> DEFINE r == [call[c] EXCEPT !.pc = "answered", !.config = gasConfig, !.answer = a]
  <2>1. DOMAIN call[c] = Fields /\ call' = [call EXCEPT ![c] = r]
    BY <1>4 DEF IInv, CallOK
  <2>2. DOMAIN r = Fields /\ r.req = call[c].req /\ r.pc = "answered"
    BY <2>1 DEF Fields
  <2> HIDE DEF r
  <2> QED
    BY <1>1, <2>1, <2>2, CallStep DEF Validating, Elsewhere
<1> QED
  BY <1>2, <1>3, <1>4

\* The world moves: every call at work gets one more moment.
LEMMA WorldStep ==
  ASSUME IInv, Block \/ Tick
  PROVE  IInv'
<1>1. /\ UNCHANGED <<options, call, pool>> /\ now' \in Nat
      /\ Seen(chain', now')
  BY DEF IInv, Block, Tick
<1>2. /\ DOMAIN moments' = Calls
      /\ \A c \in Calls : /\ moments[c] \subseteq moments'[c]
                          /\ Active(c) => <<chain', now'>> \in moments'[c]
  BY <1>1 DEF Seen
<1>3. ASSUME NEW c \in Calls PROVE CallOK(c)'
  <2>1. /\ Staked(Op(c), moments[c]) => Staked(Op(c), moments[c])'
        /\ Admissible(Op(c), call[c].result, moments[c])
             => Admissible(Op(c), call[c].result, moments[c])'
    BY <1>1, <1>2 DEF Staked, Admissible, Op
  <2> QED
    BY <1>1, <1>2, <2>1 DEF IInv, CallOK, At, Active, Op
<1>4. ASSUME NEW e \in pool
      PROVE  Admissible(e.op, e.result, moments[e.call])'
  <2>1. e.call \in Calls /\ Admissible(e.op, e.result, moments[e.call])
    BY DEF IInv
  <2> QED
    BY <1>1, <1>2, <2>1 DEF Staked, Admissible
<1> QED
  BY <1>1, <1>2, <1>3, <1>4 DEF IInv, At

LEMMA NextInv == IInv /\ [Next]_vars => IInv'
<1> SUFFICES ASSUME IInv, [Next]_vars PROVE IInv'
  OBVIOUS
<1>1. CASE UNCHANGED vars
  BY <1>1 DEF vars, IInv, CallOK, Admissible, Staked, At, Active, Op
<1>2. ASSUME NEW fields, SetGasConfig(fields) PROVE IInv'
  BY <1>2 DEF SetGasConfig, IInv, CallOK, Admissible, Staked, At, Active, Op
<1>3. ASSUME NEW c \in Calls, NEW r \in Requests, Arrive(c, r) PROVE IInv'
  BY <1>3, ArriveStep
<1>4. ASSUME NEW c \in Calls, Proceed(c) PROVE IInv'
  BY <1>4, SimpleSteps, ReceivedStep, FullSimulateStep, StakesStep, CodeHashStep,
     PartialSimulateStep, AddStep, EstimateStep DEF Proceed
<1>5. CASE Block \/ Tick
  BY <1>5, WorldStep
<1> QED
  BY <1>1, <1>2, <1>3, <1>4, <1>5 DEF Next

-----------------------------------------------------------------------------
(* The theorems *)

\* The invariant holds in every reachable state.
LEMMA InvHolds == Spec => []IInv
<1>1. Init => IInv
  BY InitInv
<1>2. IInv /\ [Next]_vars => IInv'
  BY NextInv
<1> QED
  BY <1>1, <1>2, PTL DEF Spec

\* No operation enters the mempool with an unknown prefund, although the trace
\* of a simulation may stop anywhere (checkValidationResult).
THEOREM PrefundKnown == Spec => []PrefundIsKnown
<1>1. IInv => PrefundIsKnown
  BY DEF IInv, Admissible, PrefundIsKnown
<1> QED
  BY <1>1, InvHolds, PTL

\* A rule that a stake waives was waived for an entity that had the stake at a
\* moment of the call (fullSimulateValidation).
THEOREM StakeSeen == Spec => []StakeWasReal
<1>1. IInv => StakeWasReal
  BY DEF IInv, Admissible, Staked, StakeWasReal
<1> QED
  BY <1>1, InvHolds, PTL

\* The range of the account and the one of the paymaster held at one moment of
\* the call (mergeValidationData, checkValidationResult).
THEOREM InBothRanges == Spec => []InRangeOfBoth
<1>1. IInv => InRangeOfBoth
  BY DEF IInv, Admissible, InRangeAt, InRangeOfBoth
<1> QED
  BY <1>1, InvHolds, PTL

-----------------------------------------------------------------------------
(* The answer, the audit trail and the mempool *)

ReceivedOnly == <<"userOpReceived">>
ThenRejected == <<"userOpReceived", "userOpRejected">>
ThenIncluded == <<"userOpReceived", "userOpIncludedInMempool">>
Trails == {<<>>, ReceivedOnly, ThenRejected, ThenIncluded}

\* What refuses an operation sent: a verdict is never thrown, and what the mempool
\* throws is never returned.
Refusal(e) ==
  \/ e.is = "left" /\ e.code \notin ThrownByMempool
  \/ e.is = "throws" /\ e.code \notin Verdicts

\* What a step returns, for the next one to go on with.
Returned(res) == res.is = "right" \/ (res.is = "left" /\ res.code \notin ThrownByMempool)

\* An answer and a trail that agree.
Agreeing(answer, t) ==
  \/ t = <<>>
  \/ t = ReceivedOnly /\ answer.is = "error" /\ answer.value \notin Verdicts
  \/ t = ThenRejected /\ answer.is = "error" /\ answer.value \notin ThrownByMempool
  \/ t = ThenIncluded /\ answer.is = "result"

TrailOK(c) ==
  /\ DOMAIN call[c] = Fields
  /\ call[c].pc \in {"new"} \cup Validating \cup Elsewhere
  /\ call[c].pc \in {"received"} \cup Validating => trail[c] = ReceivedOnly
  /\ call[c].pc \in {"new", "input", "estimate", "event", "fetch", "network"} =>
       trail[c] = <<>>
  /\ At(c, "answered") => Agreeing(call[c].answer, trail[c])
  /\ At(c, "stakes") => Returned(call[c].trace)
  /\ (\E e \in pool : e.call = c) <=> trail[c] = ThenIncluded

AgreeInv ==
  /\ DOMAIN call = Calls /\ trail \in [Calls -> Trails]
  /\ \A c \in Calls : TrailOK(c)

LEMMA AppendToOne ==
  ASSUME NEW S, NEW x \in S, NEW y \in S
  PROVE  Append(<<x>>, y) = <<x, y>>
<1> DEFINE s == Append(<<x>>, y)
           t == <<x, y>>
<1>1. <<x>> \in Seq(S) /\ Len(<<x>>) = 1 /\ t \in Seq(S) /\ Len(t) = 2
  OBVIOUS
<1>2. s \in Seq(S) /\ Len(s) = 2
  BY <1>1
<1>3. s[1] = x /\ s[2] = y
  BY <1>1
<1>4. t[1] = x /\ t[2] = y
  OBVIOUS
<1>5. s = [i \in 1 .. 2 |-> s[i]] /\ t = [i \in 1 .. 2 |-> t[i]]
  BY <1>1, <1>2
<1>6. \A i \in 1 .. 2 : s[i] = t[i]
  BY <1>3, <1>4
<1> QED
  BY <1>5, <1>6

LEMMA TrailsDiffer ==
  /\ ReceivedOnly # ThenRejected /\ ReceivedOnly # ThenIncluded /\ ThenRejected # ThenIncluded
  /\ <<>> \notin {ReceivedOnly, ThenRejected, ThenIncluded}
  /\ Append(ReceivedOnly, "userOpRejected") = ThenRejected
  /\ Append(ReceivedOnly, "userOpIncludedInMempool") = ThenIncluded
<1>1. Len(ReceivedOnly) = 1 /\ Len(ThenRejected) = 2 /\ Len(ThenIncluded) = 2 /\ Len(<<>>) = 0
  BY DEF ReceivedOnly, ThenRejected, ThenIncluded
<1>2. ThenRejected[2] # ThenIncluded[2]
  BY DEF ThenRejected, ThenIncluded
<1>3. /\ Append(ReceivedOnly, "userOpRejected") = ThenRejected
      /\ Append(ReceivedOnly, "userOpIncludedInMempool") = ThenIncluded
  <2>1. \A x, y \in {"userOpReceived", "userOpRejected", "userOpIncludedInMempool"} :
          Append(<<x>>, y) = <<x, y>>
    BY AppendToOne
  <2>2. Append(<<"userOpReceived">>, "userOpRejected")
          = <<"userOpReceived", "userOpRejected">>
    BY <2>1, Zenon
  <2>3. Append(<<"userOpReceived">>, "userOpIncludedInMempool")
          = <<"userOpReceived", "userOpIncludedInMempool">>
    BY <2>1, Zenon
  <2> QED
    BY <2>2, <2>3, Zenon DEF ReceivedOnly, ThenRejected, ThenIncluded
<1> QED
  BY <1>1, <1>2, <1>3

\* A step of one call that leaves the mempool alone.
LEMMA OneCall ==
  ASSUME AgreeInv, NEW c \in Calls, NEW r, NEW t \in Trails,
         call' = [call EXCEPT ![c] = r], trail' = [trail EXCEPT ![c] = t],
         pool' = pool,
         DOMAIN r = Fields, r.pc \in Validating \cup Elsewhere,
         r.pc \in {"received"} \cup Validating => t = ReceivedOnly,
         r.pc \in {"input", "estimate", "event", "fetch", "network"} => t = <<>>,
         r.pc = "answered" => Agreeing(r.answer, t),
         r.pc = "stakes" => Returned(r.trace),
         t = ThenIncluded <=> trail[c] = ThenIncluded
  PROVE  AgreeInv'
<1>1. /\ DOMAIN call' = Calls /\ call'[c] = r /\ \A d \in Calls \ {c} : call'[d] = call[d]
      /\ trail' \in [Calls -> Trails] /\ trail'[c] = t
      /\ \A d \in Calls \ {c} : trail'[d] = trail[d]
  BY DEF AgreeInv
<1>2. r.pc # "new"
  BY DEF Validating, Elsewhere
<1>3. TrailOK(c)'
  BY <1>1, <1>2 DEF AgreeInv, TrailOK, At
<1>4. ASSUME NEW d \in Calls \ {c} PROVE TrailOK(d)'
  BY <1>1 DEF AgreeInv, TrailOK, At
<1> QED
  BY <1>1, <1>3, <1>4 DEF AgreeInv

LEMMA NoOneElse ==
  ASSUME AgreeInv, NEW c \in Calls, NEW r,
         call' = [call EXCEPT ![c] = r], UNCHANGED <<trail, pool>>,
         DOMAIN r = Fields, r.pc \in Validating \cup Elsewhere,
         r.pc \in {"received"} \cup Validating => trail[c] = ReceivedOnly,
         r.pc \in {"input", "estimate", "event", "fetch", "network"} => trail[c] = <<>>,
         r.pc = "answered" => Agreeing(r.answer, trail[c]),
         r.pc = "stakes" => Returned(r.trace)
  PROVE  AgreeInv'
<1>1. trail' = [trail EXCEPT ![c] = trail[c]] /\ trail[c] \in Trails
  BY DEF AgreeInv
<1> QED
  BY <1>1, OneCall

LEMMA AnswerAgrees ==
  ASSUME AgreeInv, NEW c \in Calls, NEW a, Answer(c, a), UNCHANGED <<trail, pool>>,
         Agreeing(a, trail[c])
  PROVE  AgreeInv'
<1> DEFINE r == [call[c] EXCEPT !.pc = "answered", !.answer = a]
<1>1. DOMAIN call[c] = Fields /\ call' = [call EXCEPT ![c] = r]
  BY DEF AgreeInv, TrailOK, Answer
<1>2. DOMAIN r = Fields /\ r.pc = "answered" /\ r.answer = a
  BY <1>1 DEF Fields
<1> HIDE DEF r
<1> QED
  BY <1>1, <1>2, NoOneElse DEF Validating, Elsewhere

LEMMA GotoAgrees ==
  ASSUME AgreeInv, NEW c \in Calls, NEW pc \in Validating \cup Elsewhere, Goto(c, pc),
         UNCHANGED <<trail, pool>>,
         pc \notin {"answered", "stakes"},
         pc \in {"received"} \cup Validating => trail[c] = ReceivedOnly,
         pc \in {"input", "estimate", "event", "fetch", "network"} => trail[c] = <<>>
  PROVE  AgreeInv'
<1> DEFINE r == [call[c] EXCEPT !.pc = pc]
<1>1. DOMAIN call[c] = Fields /\ call' = [call EXCEPT ![c] = r]
  BY DEF AgreeInv, TrailOK, Goto
<1>2. DOMAIN r = Fields /\ r.pc = pc
  BY <1>1 DEF Fields
<1> HIDE DEF r
<1> QED
  BY <1>1, <1>2, NoOneElse

\* A refusal of an operation sent.
LEMMA RejectAgrees ==
  ASSUME AgreeInv, NEW c \in Calls, NEW e, Reject(c, e), Refusal(e), pool' = pool,
         trail[c] = ReceivedOnly
  PROVE  AgreeInv'
<1> DEFINE r == [call[c] EXCEPT !.pc = "answered", !.answer = Error(e.code)]
           t == IF e.is = "left" THEN ThenRejected ELSE ReceivedOnly
<1>1. DOMAIN call[c] = Fields /\ call' = [call EXCEPT ![c] = r]
  BY DEF AgreeInv, TrailOK, Reject, Fail, Throw, Answer
<1>2. DOMAIN r = Fields /\ r.pc = "answered" /\ r.answer = Error(e.code)
  BY <1>1 DEF Fields
<1>3. trail' = [trail EXCEPT ![c] = t]
  BY TrailsDiffer DEF AgreeInv, Reject
<1>4. Agreeing(Error(e.code), t)
  BY DEF Agreeing, Refusal, Error
<1>5. t # ThenIncluded /\ trail[c] # ThenIncluded /\ t \in Trails
  BY TrailsDiffer DEF Trails
<1> HIDE DEF r, t
<1> QED
  BY <1>1, <1>2, <1>3, <1>4, <1>5, OneCall DEF Validating, Elsewhere

LEMMA AgreeInit == Init => AgreeInv
<1> SUFFICES ASSUME Init PROVE AgreeInv
  OBVIOUS
<1>1. /\ DOMAIN call = Calls /\ trail \in [Calls -> Trails] /\ pool = {}
      /\ \A c \in Calls : call[c] = NewCall /\ trail[c] = <<>>
  BY DEF Init, Trails
<1> QED
  BY <1>1, TrailsDiffer DEF AgreeInv, TrailOK, NewCall, Fields, At, Validating, Elsewhere

LEMMA ArriveAgrees ==
  ASSUME AgreeInv, NEW c \in Calls, NEW r \in Requests, Arrive(c, r)
  PROVE  AgreeInv'
<1> DEFINE rec == call'[c]
           t == trail'[c]
           sends == Failing(r) = {} /\ r.method = "eth_sendUserOperation"
<1>1. DOMAIN call[c] = Fields /\ trail[c] = <<>> /\ trail \in [Calls -> Trails]
  BY DEF AgreeInv, TrailOK, Arrive, At
<1>2. /\ t = IF sends THEN ReceivedOnly ELSE <<>>
      /\ trail' = [trail EXCEPT ![c] = t]
      /\ pool' = pool
  BY <1>1 DEF Arrive, ReceivedOnly
<1>3. /\ rec.pc = IF \/ Failing(r) # {} \/ r.method \in DOMAIN ConstantAnswer
                     \/ HasHash(r.method) /\ ~r.hexHash
                  THEN "answered" ELSE Handler(r.method)
      /\ DOMAIN rec = Fields /\ call' = [call EXCEPT ![c] = rec]
  BY <1>1 DEF AgreeInv, Arrive, Fields
<1>4. r.method \notin DOMAIN Arity => Failing(r) # {}
  BY DEF Failing
<1>5. CASE sends
  <2>1. r.method \notin DOMAIN ConstantAnswer /\ ~HasHash(r.method)
        /\ Handler(r.method) = "received"
    BY <1>5 DEF ConstantAnswer, HasHash, Handler
  <2>2. rec.pc = "received" /\ t = ReceivedOnly /\ t \in Trails
    BY <1>2, <1>3, <1>5, <2>1 DEF Trails
  <2> HIDE DEF rec, t
  <2> QED
    BY <1>1, <1>2, <1>3, <2>2, OneCall, TrailsDiffer DEF Validating, Elsewhere
<1>6. CASE ~sends
  <2>1. rec.pc \in {"input", "event", "network", "answered"}
    <3>1. r.method \in DOMAIN Arity /\ r.method # "eth_sendUserOperation"
          /\ r.method \notin DOMAIN ConstantAnswer
          => Handler(r.method) \in {"input", "event", "network"}
      BY DEF Arity, ConstantAnswer, Handler
    <3> QED
      BY <1>3, <1>4, <1>6, <3>1
  <2>2. t = <<>> /\ t \in Trails
    BY <1>2, <1>6 DEF Trails
  <2>3. Agreeing(rec.answer, t)
    BY <2>2 DEF Agreeing
  <2> HIDE DEF rec, t
  <2> QED
    BY <1>1, <1>2, <1>3, <2>1, <2>2, <2>3, OneCall, TrailsDiffer DEF Validating, Elsewhere
<1> QED
  BY <1>5, <1>6

\* The steps of the calls that send nothing.
LEMMA OtherAgree ==
  ASSUME AgreeInv, NEW c \in Calls,
         \/ Network(c) \/ EstimateInput(c) \/ Estimate(c)
         \/ Event(c) \/ FetchReceipt(c) \/ FetchByHash(c)
  PROVE  AgreeInv'
<1>1. /\ call[c].pc \in {"input", "estimate", "event", "fetch", "network"}
      /\ UNCHANGED <<trail, pool>>
  BY DEF Network, EstimateInput, Estimate, Event, FetchReceipt, FetchByHash, At
<1>2. trail[c] = <<>> /\ DOMAIN call[c] = Fields
  BY <1>1 DEF AgreeInv, TrailOK
<1>3. \A a : Agreeing(a, trail[c])
  BY <1>2 DEF Agreeing
<1>4. ASSUME NEW a, Answer(c, a) PROVE AgreeInv'
  BY <1>1, <1>3, <1>4, AnswerAgrees
<1>5. ASSUME NEW e, Fail(c, e) \/ Throw(c, e) PROVE AgreeInv'
  BY <1>4, <1>5 DEF Fail, Throw
<1>6. ASSUME NEW pc \in {"estimate", "fetch"}, Goto(c, pc) PROVE AgreeInv'
  BY <1>1, <1>2, <1>6, GotoAgrees DEF Validating, Elsewhere
<1>7. ASSUME NEW a, call' = [call EXCEPT ![c] =
               [@ EXCEPT !.pc = "answered", !.config = gasConfig, !.answer = a]]
      PROVE  AgreeInv'
  <2> DEFINE r == [call[c] EXCEPT !.pc = "answered", !.config = gasConfig, !.answer = a]
  <2>1. call' = [call EXCEPT ![c] = r]
    BY <1>7
  <2>2. DOMAIN r = Fields /\ r.pc = "answered"
    BY <1>2 DEF Fields
  <2> HIDE DEF r
  <2> QED
    BY <1>1, <1>3, <2>1, <2>2, NoOneElse DEF Validating, Elsewhere
<1>8. CASE Estimate(c)
  BY <1>5, <1>7, <1>8, EstimateOutcome
<1>9. CASE Network(c) \/ EstimateInput(c) \/ Event(c) \/ FetchReceipt(c) \/ FetchByHash(c)
  <2>1. \/ \E e : Fail(c, e) \/ Throw(c, e) \/ Answer(c, e)
        \/ \E pc \in {"estimate", "fetch"} : Goto(c, pc)
    BY <1>9 DEF Network, EstimateInput, Event, FetchReceipt, FetchByHash
  <2> QED
    BY <1>4, <1>5, <1>6, <2>1
<1> QED
  BY <1>8, <1>9

\* The steps of a call that sends an operation: what each may refuse with.
LEMMA InputRefusal ==
  ASSUME NEW r, NEW checkGas, NEW eip7702Support, NEW config,
         ValidateInputParameters(r, checkGas, eip7702Support, config).is # "right"
  PROVE  Refusal(ValidateInputParameters(r, checkGas, eip7702Support, config))
<1> DEFINE res == ValidateInputParameters(r, checkGas, eip7702Support, config)
<1>1. \/ res = Left("InvalidFields")
      \/ res = Throws("-32000") \/ res = Throws("InvalidFields")
  <2>1. res.is # "right"
    OBVIOUS
  <2>2. res = Right(r.op) => res.is = "right"
    BY DEF Right
  <2>3. CASE r.entryPoint = ""
    BY <2>3 DEF ValidateInputParameters
  <2>4. CASE r.entryPoint # "" /\ r.op = Null
    BY <2>4 DEF ValidateInputParameters
  <2>5. CASE r.entryPoint # "" /\ r.op # Null
    BY <2>2, <2>1, <2>5 DEF ValidateInputParameters
  <2> QED
    BY <2>3, <2>4, <2>5
<1> QED
  BY <1>1 DEF Refusal, Left, Throws, Verdicts, ThrownByMempool

LEMMA ReceivedAgrees ==
  ASSUME AgreeInv, NEW c \in Calls, Received(c)
  PROVE  AgreeInv'
<1> DEFINE res == ValidateInputParameters(call[c].req, TRUE, options.eip7702Support,
                                          gasConfig)
           r == [call[c] EXCEPT !.pc = "hash", !.config = gasConfig]
<1>1. trail[c] = ReceivedOnly /\ DOMAIN call[c] = Fields /\ pool' = pool
  BY DEF AgreeInv, TrailOK, Received, At
<1>2. CASE res.is = "right"
  <2>1. call' = [call EXCEPT ![c] = r] /\ trail' = trail
    BY <1>2 DEF Received
  <2>2. DOMAIN r = Fields /\ r.pc = "hash"
    BY <1>1 DEF Fields
  <2> HIDE DEF r
  <2> QED
    BY <1>1, <2>1, <2>2, NoOneElse DEF Validating
<1>3. CASE res.is # "right"
  BY <1>1, <1>3, RejectAgrees, InputRefusal DEF Received
<1> QED
  BY <1>2, <1>3

LEMMA HashAuthorizeAgree ==
  ASSUME AgreeInv, NEW c \in Calls, Hash(c) \/ Authorize(c)
  PROVE  AgreeInv'
<1>1. trail[c] = ReceivedOnly /\ pool' = pool
  BY DEF AgreeInv, TrailOK, Hash, Authorize, At, Validating
<1>2. \/ \E pc \in {"simulate", "authorize"} : Goto(c, pc) /\ trail' = trail
      \/ \E e : Refusal(e) /\ Reject(c, e)
  <2>1. /\ Refusal(Throws("InvalidFields")) /\ Refusal(Throws("-32000"))
        /\ \A e \in Send("eth_call") : e.is # "right" => Refusal(e)
    BY DEF Refusal, Throws, Send, Left, Right, Verdicts, ThrownByMempool
  <2> QED
    BY <2>1 DEF Hash, Authorize
<1>3. ASSUME NEW pc \in {"simulate", "authorize"}, Goto(c, pc), trail' = trail PROVE AgreeInv'
  BY <1>1, <1>3, GotoAgrees DEF Validating
<1>4. ASSUME NEW e, Refusal(e), Reject(c, e) PROVE AgreeInv'
  BY <1>1, <1>4, RejectAgrees
<1> QED
  BY <1>2, <1>3, <1>4

LEMMA FullSimulateAgrees ==
  ASSUME AgreeInv, NEW c \in Calls, FullSimulate(c)
  PROVE  AgreeInv'
<1>1. /\ trail[c] = ReceivedOnly /\ DOMAIN call[c] = Fields
      /\ UNCHANGED <<trail, pool>>
  BY DEF AgreeInv, TrailOK, FullSimulate, At, Validating
<1>2. PICK res \in DebugTraceCall(Op(c)) :
        IF res.is = "throws" THEN Fail(c, res)
        ELSE call' = [call EXCEPT ![c] = [@ EXCEPT !.pc = "stakes", !.trace = res]]
  BY DEF FullSimulate
<1>3. Returned(res) \/ res = Throws("-32000")
  BY DEF DebugTraceCall, Right, Left, Throws, Returned, ThrownByMempool
<1>4. CASE res.is = "throws"
  <2>1. res = Throws("-32000")
    BY <1>3, <1>4 DEF Returned
  <2>2. Answer(c, Error("-32000")) /\ Agreeing(Error("-32000"), trail[c])
    BY <1>1, <1>2, <1>4, <2>1
       DEF Fail, Throw, Throws, Error, Agreeing, Verdicts, ThrownByMempool
  <2> QED
    BY <1>1, <2>2, AnswerAgrees
<1>5. CASE res.is # "throws"
  <2> DEFINE r == [call[c] EXCEPT !.pc = "stakes", !.trace = res]
  <2>1. call' = [call EXCEPT ![c] = r]
    BY <1>2, <1>5
  <2>2. DOMAIN r = Fields /\ r.pc = "stakes" /\ r.trace = res
    BY <1>1 DEF Fields
  <2>3. Returned(r.trace)
    BY <1>3, <1>5, <2>2 DEF Throws
  <2> HIDE DEF r
  <2> QED
    BY <1>1, <2>1, <2>2, <2>3, NoOneElse DEF Validating
<1> QED
  BY <1>4, <1>5

LEMMA StakesAgree ==
  ASSUME AgreeInv, NEW c \in Calls, Stakes(c)
  PROVE  AgreeInv'
<1> DEFINE op == Op(c)
           reverted == IF call[c].trace.is = "right"
                       THEN ParseTracerResultCallsForRevert(call[c].trace.value)
                       ELSE call[c].trace
           result == IF reverted.is = "right"
                     THEN GenerateValidationResult(op, reverted.value, chain) ELSE reverted
           parsed == IF result.is = "right" THEN ParseTracerResult(op, chain) ELSE result
           r == [call[c] EXCEPT !.pc = "codeHash", !.trace = Null, !.result = result.value]
<1>1. /\ trail[c] = ReceivedOnly /\ DOMAIN call[c] = Fields /\ pool' = pool
      /\ Returned(call[c].trace)
  BY DEF AgreeInv, TrailOK, Stakes, At, Validating
<1>2. Returned(reverted)
  BY <1>1 DEF ParseTracerResultCallsForRevert, Left, Right, Returned, ThrownByMempool
<1>3. result.is = "right" \/ Refusal(result)
  <2>1. \/ Returned(GenerateValidationResult(op, reverted.value, chain))
        \/ GenerateValidationResult(op, reverted.value, chain) = Throws("-32000")
    BY DEF GenerateValidationResult, DecodeErrorReason, Left, Right, Returned, ThrownByMempool
  <2> HIDE DEF reverted
  <2> QED
    BY <1>2, <2>1 DEF Refusal, Throws, Verdicts, Returned
<1>4. parsed.is = "right" \/ Refusal(parsed)
  <2>1. Returned(ParseTracerResult(op, chain))
    BY DEF ParseTracerResult, Left, Right, Returned, ThrownByMempool
  <2> HIDE DEF result
  <2> QED
    BY <1>3, <2>1 DEF Refusal, Returned
<1>5. \/ call' = [call EXCEPT ![c] = r] /\ trail' = trail
      \/ parsed.is # "right" /\ Reject(c, parsed)
      \/ Reject(c, Throws("-32000"))
  BY DEF Stakes
<1>6. CASE call' = [call EXCEPT ![c] = r] /\ trail' = trail
  <2>1. DOMAIN r = Fields /\ r.pc = "codeHash"
    BY <1>1 DEF Fields
  <2> HIDE DEF r
  <2> QED
    BY <1>1, <1>6, <2>1, NoOneElse DEF Validating
<1>7. ASSUME NEW e, Refusal(e), Reject(c, e) PROVE AgreeInv'
  BY <1>1, <1>7, RejectAgrees
<1>8. Refusal(Throws("-32000"))
  BY DEF Refusal, Throws, Verdicts
<1> HIDE DEF parsed
<1> QED
  BY <1>4, <1>5, <1>6, <1>7, <1>8

LEMMA CheckedAgrees ==
  ASSUME AgreeInv, NEW c \in Calls, NEW result, Checked(c, result), pool' = pool,
         trail[c] = ReceivedOnly
  PROVE  AgreeInv'
<1> DEFINE res == CheckValidationResult(result)
           r == [call[c] EXCEPT !.pc = "add", !.result = result]
<1>1. res.is = "right" \/ Refusal(res)
  BY DEF CheckValidationResult, Left, Right, Throws, Refusal, Verdicts, ThrownByMempool
<1>2. CASE res.is = "right"
  <2>1. call' = [call EXCEPT ![c] = r] /\ trail' = trail
    BY <1>2 DEF Checked
  <2>2. DOMAIN r = Fields /\ r.pc = "add"
    BY DEF AgreeInv, TrailOK, Fields
  <2> HIDE DEF r
  <2> QED
    BY <2>1, <2>2, NoOneElse DEF Validating
<1>3. CASE res.is # "right"
  <2>1. Reject(c, res)
    BY <1>3 DEF Checked
  <2> HIDE DEF res
  <2> QED
    BY <1>1, <1>3, <2>1, RejectAgrees
<1> QED
  BY <1>2, <1>3

LEMMA SimulatedAgree ==
  ASSUME AgreeInv, NEW c \in Calls, CodeHash(c) \/ PartialSimulate(c)
  PROVE  AgreeInv'
<1>1. trail[c] = ReceivedOnly /\ pool' = pool
  BY DEF AgreeInv, TrailOK, CodeHash, PartialSimulate, At, Validating
<1>2. /\ \A res \in RunContractScript : res.is # "right" => Refusal(res)
      /\ \A outcome : LET res == PartialSimulateValidation(Op(c), outcome)
                      IN res.is # "right" => Refusal(res)
  BY DEF RunContractScript, PartialSimulateValidation, Left, Right, Throws, Refusal,
         Verdicts, ThrownByMempool
<1>3. \/ \E result : Checked(c, result)
      \/ \E e : Refusal(e) /\ Reject(c, e)
  BY <1>2 DEF CodeHash, PartialSimulate
<1> QED
  BY <1>1, <1>3, CheckedAgrees, RejectAgrees

LEMMA AddAgrees ==
  ASSUME AgreeInv, NEW c \in Calls, Add(c)
  PROVE  AgreeInv'
<1>1. trail[c] = ReceivedOnly /\ DOMAIN call[c] = Fields /\ trail \in [Calls -> Trails]
  BY DEF AgreeInv, TrailOK, Add, At, Validating
<1> DEFINE Refused == pool' = pool /\ \E e : Reject(c, e) /\ Refusal(e)
<1>2. CASE Refused
  BY <1>1, <1>2, RejectAgrees
<1>4. Add(c) /\ ~ Refused =>
        /\ Answer(c, Result("userOpHash"))
        /\ pool' = pool \cup {[call |-> c, op |-> Op(c), result |-> call[c].result,
                               config |-> call[c].config]}
        /\ trail' = [trail EXCEPT ![c] = Append(@, "userOpIncludedInMempool")]
  <2>1. /\ \A code \in {"InvalidFields", "OpcodeValidation"} : Refusal(Left(code))
        /\ \A code \in AddThrows : Refusal(Throws(code))
    BY DEF Refusal, Left, Throws, AddThrows, Verdicts, ThrownByMempool
  <2> QED
    BY <2>1 DEF Add
<1> HIDE DEF Refused
<1>3. CASE ~ Refused
  <2> DEFINE new == [call |-> c, op |-> Op(c), result |-> call[c].result,
                     config |-> call[c].config]
             r == [call[c] EXCEPT !.pc = "answered", !.answer = Result("userOpHash")]
  <2>1. /\ call' = [call EXCEPT ![c] = r]
        /\ pool' = pool \cup {new}
        /\ trail' = [trail EXCEPT ![c] = Append(@, "userOpIncludedInMempool")]
    BY <1>3, <1>4 DEF Answer
  <2>2. DOMAIN r = Fields /\ r.pc = "answered" /\ r.answer = Result("userOpHash")
    BY <1>1 DEF Fields
  <2>3. /\ trail' \in [Calls -> Trails] /\ trail'[c] = ThenIncluded
        /\ \A d \in Calls \ {c} : trail'[d] = trail[d]
    BY <1>1, <2>1, TrailsDiffer DEF Trails
  <2> HIDE DEF r
  <2>4. /\ DOMAIN call' = Calls /\ call'[c] = r
        /\ \A d \in Calls \ {c} : call'[d] = call[d]
    BY <2>1 DEF AgreeInv
  <2>5. \A d : (\E e \in pool' : e.call = d) <=> (d = c \/ \E e \in pool : e.call = d)
    <3>1. new.call = c /\ pool' = pool \cup {new}
      BY <2>1
    <3> HIDE DEF new
    <3> QED
      BY <3>1
  <2> HIDE DEF new
  <2>6. TrailOK(c)'
    <3>1. Agreeing(r.answer, ThenIncluded)
      BY <2>2 DEF Agreeing, Result
    <3> QED
      BY <2>2, <2>3, <2>4, <2>5, <3>1 DEF TrailOK, At, Validating, Elsewhere
  <2>7. ASSUME NEW d \in Calls \ {c} PROVE TrailOK(d)'
    <3>1. TrailOK(d)
      BY DEF AgreeInv
    <3> QED
      BY <2>3, <2>4, <2>5, <3>1 DEF TrailOK, At
  <2> QED
    BY <2>3, <2>4, <2>6, <2>7 DEF AgreeInv
<1> QED
  BY <1>2, <1>3

LEMMA AgreeStep == AgreeInv /\ [Next]_vars => AgreeInv'
<1> SUFFICES ASSUME AgreeInv, [Next]_vars PROVE AgreeInv'
  OBVIOUS
<1>1. CASE UNCHANGED vars \/ Block \/ Tick \/ \E fields \in Updates : SetGasConfig(fields)
  <2>1. UNCHANGED <<call, trail, pool>>
    BY <1>1 DEF vars, Block, Tick, SetGasConfig
  <2> QED
    BY <2>1 DEF AgreeInv, TrailOK, At
<1>2. ASSUME NEW c \in Calls, NEW r \in Requests, Arrive(c, r) PROVE AgreeInv'
  BY <1>2, ArriveAgrees
<1>3. ASSUME NEW c \in Calls, Proceed(c) PROVE AgreeInv'
  BY <1>3, OtherAgree, ReceivedAgrees, HashAuthorizeAgree, FullSimulateAgrees,
     StakesAgree, SimulatedAgree, AddAgrees DEF Proceed
<1> QED
  BY <1>1, <1>2, <1>3 DEF Next

\* The last audit event of each trail, as AnswersAgree reads it.
LEMMA LastOf ==
  /\ Last(<<"none">> \o <<>>) = "none"
  /\ Last(<<"none">> \o ReceivedOnly) = "userOpReceived"
  /\ Last(<<"none">> \o ThenRejected) = "userOpRejected"
  /\ Last(<<"none">> \o ThenIncluded) = "userOpIncludedInMempool"
  /\ Last(ThenRejected) = "userOpRejected"
<1>1. /\ Len(<<"none">> \o ReceivedOnly) = 2 /\ Len(<<"none">> \o ThenRejected) = 3
      /\ Len(<<"none">> \o ThenIncluded) = 3 /\ Len(<<"none">> \o <<>>) = 1
  BY DEF ReceivedOnly, ThenRejected, ThenIncluded
<1>2. /\ (<<"none">> \o <<>>)[1] = "none"
      /\ (<<"none">> \o ReceivedOnly)[2] = "userOpReceived"
      /\ (<<"none">> \o ThenRejected)[3] = "userOpRejected"
      /\ (<<"none">> \o ThenIncluded)[3] = "userOpIncludedInMempool"
      /\ ThenRejected[2] = "userOpRejected" /\ Len(ThenRejected) = 2
  BY DEF ReceivedOnly, ThenRejected, ThenIncluded
<1> QED
  BY <1>1, <1>2 DEF Last

\* A hash is answered for exactly the operations that the mempool took and the
\* audit trail has as included; a verdict of the validation is in the trail as a
\* rejection, and a refusal that addUserOp throws is not (sendUserOperation).
THEOREM AnswersAndTrailAgree == Spec => []AnswersAgree
<1>1. AgreeInv => AnswersAgree
  <2> SUFFICES ASSUME AgreeInv, NEW c \in Calls
               PROVE  LET admitted == \E e \in pool : e.call = c
                          included == Last(<<"none">> \o trail[c]) = "userOpIncludedInMempool"
                      IN /\ admitted = included
                         /\ At(c, "answered") /\ trail[c] # <<>> =>
                              /\ (call[c].answer.is = "result") = included
                              /\ call[c].answer.is = "error"
                                   /\ call[c].answer.value \in Verdicts =>
                                   Last(trail[c]) = "userOpRejected"
                              /\ call[c].answer.is = "error"
                                   /\ call[c].answer.value \in ThrownByMempool =>
                                   trail[c] = ReceivedOnly
    BY DEF AnswersAgree, ReceivedOnly
  <2> DEFINE admitted == \E e \in pool : e.call = c
             included == Last(<<"none">> \o trail[c]) = "userOpIncludedInMempool"
  <2>1. /\ trail[c] \in Trails /\ (admitted <=> trail[c] = ThenIncluded)
        /\ At(c, "answered") => Agreeing(call[c].answer, trail[c])
    BY DEF AgreeInv, TrailOK
  <2>2. included <=> trail[c] = ThenIncluded
    BY <2>1, LastOf, TrailsDiffer DEF Trails
  <2>3. At(c, "answered") /\ trail[c] # <<>> =>
          ((call[c].answer.is = "result") <=> trail[c] = ThenIncluded)
    BY <2>1, TrailsDiffer DEF Agreeing
  <2>4. At(c, "answered") /\ trail[c] # <<>> /\ call[c].answer.is = "error"
          /\ call[c].answer.value \in Verdicts => Last(trail[c]) = "userOpRejected"
    BY <2>1, LastOf DEF Agreeing
  <2>5. At(c, "answered") /\ trail[c] # <<>> /\ call[c].answer.is = "error"
          /\ call[c].answer.value \in ThrownByMempool => trail[c] = ReceivedOnly
    BY <2>1 DEF Agreeing, Result
  <2> QED
    BY <2>1, <2>2, <2>3, <2>4, <2>5
<1>2. Init => AgreeInv
  BY AgreeInit
<1>3. AgreeInv /\ [Next]_vars => AgreeInv'
  BY AgreeStep
<1> QED
  BY <1>1, <1>2, <1>3, PTL DEF Spec

-----------------------------------------------------------------------------
(* Arithmetic of the pre-verification gas *)

LEMMA Quotient ==
  ASSUME NEW n \in Nat, NEW d \in Nat \ {0}
  PROVE  /\ n \div d \in Nat
         /\ d * (n \div d) <= n
         /\ n < d * (n \div d) + d
<1>1. n = d * (n \div d) + (n % d) /\ n % d \in 0 .. d - 1 /\ n \div d \in Int
  OBVIOUS
<1>2. n \div d \in Nat
  OBVIOUS
<1> QED
  BY <1>1, <1>2

LEMMA ProductGrows ==
  ASSUME NEW a \in Nat, NEW x \in Nat, NEW y \in Nat, x <= y
  PROVE  a * x \in Nat /\ a * x <= a * y
OBVIOUS

LEMMA QuotientGrows ==
  ASSUME NEW d \in Nat \ {0}, NEW m \in Nat, NEW n \in Nat, m <= n
  PROVE  m \div d <= n \div d
<1> DEFINE x == m \div d
           y == n \div d
<1>1. x \in Nat /\ y \in Nat /\ d * x <= m /\ n < d * y + d
  BY Quotient
<1> SUFFICES ASSUME x > y PROVE FALSE
  BY <1>1
<1> HIDE DEF x, y
<1>2. d * (y + 1) <= d * x /\ d * (y + 1) = d * y + d
  BY <1>1, ProductGrows
<1>3. d * y \in Nat /\ d * x \in Nat
  BY <1>1, ProductGrows
<1> QED
  BY <1>1, <1>2, <1>3

\* Rounding loses less than half a gas.
LEMMA Rounded ==
  ASSUME NEW x \in Nat
  PROVE  /\ MathRound(x) \in Nat
         /\ 2 * x < (2 * Unit) * MathRound(x) + Unit
<1> DEFINE n == 2 * x + Unit
           d == 2 * Unit
           q == n \div d
<1>1. Unit \in Nat /\ Unit > 0
  BY UnitAssumption
<1>2. n \in Nat /\ d \in Nat \ {0}
  BY <1>1
<1>3. q \in Nat /\ n < d * q + d
  <2> HIDE DEF n, d
  <2> QED
    BY <1>2, Quotient
<1>4. MathRound(x) = q
  BY DEF MathRound
<1>5. d * q \in Nat
  BY <1>2, <1>3, ProductGrows
<1> HIDE DEF q
<1>6. 2 * x + Unit < d * q + 2 * Unit
  BY <1>3
<1> HIDE DEF d
<1>7. 2 * x < d * q + Unit
  BY <1>1, <1>5, <1>6
<1> QED
  BY <1>3, <1>4, <1>7 DEF d

LEMMA RoundedGrows ==
  ASSUME NEW x \in Nat, NEW y \in Nat, x <= y
  PROVE  MathRound(x) <= MathRound(y)
<1>1. Unit \in Nat /\ Unit > 0
  BY UnitAssumption
<1> DEFINE m == 2 * x + Unit
           n == 2 * y + Unit
           d == 2 * Unit
<1>2. m \in Nat /\ n \in Nat /\ m <= n /\ d \in Nat \ {0}
  BY <1>1
<1> HIDE DEF m, n, d
<1>3. m \div d <= n \div d
  BY <1>2, QuotientGrows
<1> QED
  BY <1>3 DEF MathRound, m, n, d

\* What is declared above the tenth charged in any case covers the gas used.
LEMMA Refunded ==
  ASSUME NEW S \in Nat, NEW A \in Nat, NEW B \in Nat, NEW O \in Nat,
         NEW used \in Nat, NEW p \in Nat, NEW gas \in Nat, used <= gas,
         NEW q, q = MathRound(S + MathMax(A + (O + Unit * used), B)),
         Unit * (q - used) <= Unit * p
  PROVE  /\ (2 * Unit) * (p + gas) + Unit >= 2 * (S + B)
         /\ (2 * Unit) * (p + gas) + Unit >= 2 * (((S + A) + O) + Unit * gas)
<1>1. Unit \in Nat /\ Unit > 0 /\ 2 * Unit \in Nat
  BY UnitAssumption
<1> DEFINE U == Unit
           g == gas - used
           a1 == U * used
           a2 == U * g
           a3 == (2 * U) * (p + used)
           X == S + MathMax(A + (O + a1), B)
<1>2. /\ g \in Nat /\ a1 \in Nat /\ a2 \in Nat /\ a3 \in Nat
      /\ Unit * gas = a1 + a2
      /\ (2 * Unit) * (p + gas) = a3 + 2 * a2
  BY <1>1
<1>3. X \in Nat /\ X >= S + B /\ X >= S + (A + (O + a1))
  BY <1>2 DEF MathMax
<1>4. q \in Nat /\ 2 * X < (2 * Unit) * q + Unit
  <2> HIDE DEF X
  <2>1. q = MathRound(X)
    BY DEF X
  <2> QED
    BY <1>3, <2>1, Rounded
<1>5. q <= p + used
  <2> SUFFICES ASSUME q > p + used PROVE FALSE
    BY <1>4
  <2>1. /\ q - used \in Nat /\ p + 1 <= q - used
    BY <1>4
  <2>2. Unit * (p + 1) <= Unit * (q - used)
    BY <1>1, <2>1, ProductGrows
  <2>3. Unit * (p + 1) = Unit * p + Unit /\ Unit * p \in Nat /\ Unit * (q - used) \in Nat
    BY <1>1, <2>1, ProductGrows
  <2> QED
    BY <1>1, <2>2, <2>3
<1>6. (2 * Unit) * q <= a3 /\ (2 * Unit) * q \in Nat
  BY <1>1, <1>4, <1>5, ProductGrows
<1> DEFINE r == (2 * Unit) * q
           paid == (2 * Unit) * (p + gas)
           spent == Unit * gas
<1>7. /\ r <= a3 /\ r \in Nat /\ 2 * X < r + Unit
      /\ paid = a3 + 2 * a2 /\ spent = a1 + a2
  BY <1>2, <1>4, <1>6
<1> HIDE DEF X, a1, a2, a3, r, paid, spent, g, U
<1>8. paid + Unit >= 2 * (S + B) /\ paid + Unit >= 2 * (((S + A) + O) + spent)
  BY <1>1, <1>2, <1>3, <1>7
<1> QED
  BY <1>8 DEF paid, spent

\* The fields of an operation the calculator reads are numbers.
Numeric(op) ==
  /\ {op.zeroBytes, op.nonzeroBytes, op.callGasLimit, op.callData.length} \subseteq Nat
  /\ op.signature \in {Null} \cup Nat
  /\ op.paymasterPostOpGasLimit \in {Null} \cup Nat

\* A word has no more non-zero bytes than bytes.
LEMMA WordBytes ==
  ASSUME NEW n
  PROVE  NonzeroBytes(n) \in 0 .. WordSize
<1> DEFINE K == 0 .. WordSize - 1
           S == {k \in K : (n \div ByteBase ^ k) % ByteBase # 0}
<1>1. WordSize \in Nat
  BY WordAssumption
<1>2. IsFiniteSet(K) /\ Cardinality(K) = WordSize
  BY <1>1, FS_Interval
<1>3. S \in SUBSET K
  OBVIOUS
<1> HIDE DEF K, S
<1>4. IsFiniteSet(S) /\ Cardinality(S) \in Nat /\ Cardinality(S) <= Cardinality(K)
  BY <1>2, <1>3, FS_Subset, FS_CardinalityType
<1>5. NonzeroBytes(n) = Cardinality(S)
  BY DEF NonzeroBytes, S, K
<1> QED
  BY <1>1, <1>2, <1>4, <1>5

LEMMA GasParts ==
  ASSUME NEW op, Numeric(op), NEW config \in GasConfig
  PROVE  /\ SignatureSize(op, config) \in Nat
         /\ CountTokens(op, config) \in Nat
         /\ GetUserOpGasUsed(op) \in Nat
         /\ ShareOfStipend(config) \in Nat
         /\ PerUserOpOverhead(op, config) \in Nat
         /\ ShareOfOverhead(op, config) \in Nat
<1>1. SignatureSize(op, config) \in Nat
  BY DEF Numeric, SignatureSize, Or, GasConfig
<1>2. CountTokens(op, config) \in Nat
  <2>1. config.tokensPerNonzeroByte \in Nat
    BY DEF GasConfig
  <2> DEFINE b == NonzeroBytes(op.preVerificationGas)
             n == op.nonzeroBytes + b + SignatureSize(op, config)
  <2>2. b \in Nat /\ WordSize - b \in Nat
    BY WordBytes, WordAssumption
  <2>3. n \in Nat /\ op.zeroBytes \in Nat
    BY <1>1, <2>2 DEF Numeric
  <2> HIDE DEF b, n
  <2>4. config.tokensPerNonzeroByte * n \in Nat
    BY <2>1, <2>3, ProductGrows
  <2>5. CountTokens(op, config) = op.zeroBytes + (WordSize - b) + config.tokensPerNonzeroByte * n
    BY DEF CountTokens, b, n
  <2> QED
    BY <2>2, <2>3, <2>4, <2>5
<1>3. GetUserOpGasUsed(op) \in Nat
  <2> DEFINE n == op.callGasLimit + Or(op.paymasterPostOpGasLimit, 0)
  <2>1. n \in Nat
    BY DEF Numeric, Or
  <2> HIDE DEF n
  <2> QED
    BY <2>1 DEF GetUserOpGasUsed, n
<1>4. ShareOfStipend(config) \in Nat /\ config.fixedGasOverhead \div config.expectedBundleSize \in Nat
  <2>1. /\ config.transactionGasStipend \in Nat /\ config.fixedGasOverhead \in Nat
        /\ config.expectedBundleSize \in Nat \ {0}
    BY DEF GasConfig
  <2> QED
    BY <2>1, Quotient DEF ShareOfStipend
<1>5. PerUserOpOverhead(op, config) \in Nat
  <2>1. /\ config.perUserOpGasOverhead \in Nat /\ config.eip7702AuthGas \in Nat
        /\ config.executeUserOpGasOverhead \in Nat
        /\ config.executeUserOpPerWordGasOverhead \in Nat
        /\ config.perUserOpWordGasOverhead \in Nat
    BY DEF GasConfig
  <2> DEFINE n == EncodedLength(op, config) + 31
             w == (op.callData.length + 31) \div 32
  <2>2. n \in Nat /\ w \in Nat
    BY <1>1, WordAssumption DEF Numeric, EncodedLength
  <2> HIDE DEF n, w
  <2>3. config.executeUserOpPerWordGasOverhead * n \in Nat
    BY <2>1, <2>2, ProductGrows
  <2>4. (config.executeUserOpPerWordGasOverhead * n) \div 32 \in Nat
    BY <2>3, Quotient
  <2>5. config.perUserOpWordGasOverhead * w \in Nat
    BY <2>1, <2>2, ProductGrows
  <2> QED
    BY <2>1, <2>4, <2>5 DEF PerUserOpOverhead, n, w
<1> QED
  BY <1>1, <1>2, <1>3, <1>4, <1>5 DEF ShareOfOverhead

\* A longer signature costs more, and so do more non-zero bytes in the word of the
\* declared gas.
LEMMA SignatureCosts ==
  ASSUME NEW a, NEW b, NEW config \in GasConfig, Numeric(a), Numeric(b),
         a.callData = b.callData, a.callGasLimit = b.callGasLimit,
         a.paymasterPostOpGasLimit = b.paymasterPostOpGasLimit, a.auth = b.auth,
         a.zeroBytes = b.zeroBytes, a.nonzeroBytes = b.nonzeroBytes,
         SignatureSize(a, config) <= SignatureSize(b, config),
         NonzeroBytes(a.preVerificationGas) <= NonzeroBytes(b.preVerificationGas),
         config.tokensPerNonzeroByte >= 1
  PROVE  CalculatePreVerificationGas(a, config) <= CalculatePreVerificationGas(b, config)
<1> DEFINE m == CountTokens(a, config)
           n == CountTokens(b, config)
           v == ShareOfOverhead(a, config)
           w == ShareOfOverhead(b, config)
           used == GetUserOpGasUsed(a)
           S == ShareOfStipend(config)
           rate == config.standardTokenGasCost
           floor == config.floorPerTokenGasCost
<1>1. /\ m \in Nat /\ n \in Nat /\ v \in Nat /\ w \in Nat /\ used \in Nat /\ S \in Nat
      /\ rate \in Nat /\ floor \in Nat
      /\ SignatureSize(a, config) \in Nat /\ SignatureSize(b, config) \in Nat
  BY GasParts DEF GasConfig
<1>2. m <= n
  <2> DEFINE j == NonzeroBytes(a.preVerificationGas)
             k == NonzeroBytes(b.preVerificationGas)
             x == a.nonzeroBytes + j + SignatureSize(a, config)
             y == b.nonzeroBytes + k + SignatureSize(b, config)
             t == config.tokensPerNonzeroByte
  <2>1. j \in Nat /\ k \in Nat /\ j <= k /\ WordSize \in Nat
    BY WordBytes, WordAssumption
  <2>2. /\ x \in Nat /\ y \in Nat /\ t \in Nat /\ t >= 1
        /\ a.zeroBytes \in Nat /\ b.zeroBytes = a.zeroBytes
        /\ y - x >= k - j
    BY <1>1, <2>1 DEF Numeric, GasConfig
  <2>3. /\ m = a.zeroBytes + (WordSize - j) + t * x
        /\ n = a.zeroBytes + (WordSize - k) + t * y
    BY <2>2 DEF CountTokens
  <2> HIDE DEF j, k, x, y, t, m, n
  <2> DEFINE d == y - x
  <2>4. d \in Nat /\ t * y = t * x + t * d /\ t * x \in Nat /\ t * d \in Nat
    BY <2>1, <2>2, ProductGrows
  <2>5. t * d >= d
    <3>1. d * 1 <= d * t /\ d * t = t * d
      BY <2>2, <2>4, ProductGrows
    <3> QED
      BY <2>4, <3>1
  <2>6. d >= k - j
    BY <2>2
  <2> HIDE DEF d
  <2> DEFINE u == t * d
             v1 == t * x
             v2 == t * y
  <2>7. /\ u \in Nat /\ v1 \in Nat /\ v2 = v1 + u /\ u >= d
        /\ m = a.zeroBytes + (WordSize - j) + v1 /\ n = a.zeroBytes + (WordSize - k) + v2
    BY <2>3, <2>4, <2>5
  <2> HIDE DEF u, v1, v2
  <2> QED
    BY <2>1, <2>2, <2>4, <2>6, <2>7
<1>3. v <= w
  <2> DEFINE x == EncodedLength(a, config) + 31
             y == EncodedLength(b, config) + 31
             c == config.executeUserOpPerWordGasOverhead
  <2>1. x \in Nat /\ y \in Nat /\ x <= y /\ c \in Nat
    BY <1>1, WordAssumption DEF Numeric, EncodedLength, GasConfig
  <2> HIDE DEF x, y, c
  <2>2. c * x <= c * y /\ c * x \in Nat /\ c * y \in Nat
    BY <2>1, ProductGrows
  <2>3. /\ (c * x) \div 32 <= (c * y) \div 32
        /\ (c * x) \div 32 \in Nat /\ (c * y) \div 32 \in Nat
    BY <2>2, Quotient, QuotientGrows
  <2>4. PerUserOpOverhead(a, config) <= PerUserOpOverhead(b, config)
    <3> DEFINE rest == config.perUserOpGasOverhead
                         + (IF a.auth # Null THEN config.eip7702AuthGas ELSE 0)
               calls == config.executeUserOpGasOverhead
               words == config.perUserOpWordGasOverhead * ((a.callData.length + 31) \div 32)
    <3>1. rest \in Nat /\ calls \in Nat
      BY DEF GasConfig
    <3>2. /\ PerUserOpOverhead(a, config) =
               rest + (IF a.callData.executes THEN calls + ((c * x) \div 32) ELSE words)
          /\ PerUserOpOverhead(b, config) =
               rest + (IF a.callData.executes THEN calls + ((c * y) \div 32) ELSE words)
      BY DEF PerUserOpOverhead, x, y, c
    <3>3. PerUserOpOverhead(a, config) \in Nat /\ PerUserOpOverhead(b, config) \in Nat
      BY GasParts
    <3> HIDE DEF rest, calls, words
    <3> QED
      BY <2>3, <3>1, <3>2, <3>3
  <2>5. config.fixedGasOverhead \div config.expectedBundleSize \in Nat
    BY Quotient DEF GasConfig
  <2>6. PerUserOpOverhead(a, config) \in Nat /\ PerUserOpOverhead(b, config) \in Nat
    BY GasParts
  <2> QED
    BY <2>4, <2>5, <2>6 DEF ShareOfOverhead
<1>4. GetUserOpGasUsed(b) = used
  BY DEF GetUserOpGasUsed
<1>5. rate * m <= rate * n /\ floor * m <= floor * n
      /\ rate * m \in Nat /\ rate * n \in Nat /\ floor * m \in Nat /\ floor * n \in Nat
  <2> HIDE DEF m, n, rate, floor
  <2> QED
    BY <1>1, <1>2, ProductGrows
<1>6. CASE config.useEip7623
  <2> DEFINE e == Unit * used
             x == S + MathMax(rate * m + (v + e), floor * m)
             y == S + MathMax(rate * n + (w + e), floor * n)
  <2>1. e \in Nat
    BY <1>1, UnitAssumption, ProductGrows
  <2>2. x \in Nat /\ y \in Nat /\ x <= y
    <3> HIDE DEF m, n, v, w, used, S, rate, floor, e
    <3> QED
      BY <1>1, <1>3, <1>5, <2>1 DEF MathMax
  <2>3. /\ CalculatePreVerificationGas(a, config) = Unit * (MathRound(x) - used)
        /\ CalculatePreVerificationGas(b, config) = Unit * (MathRound(y) - used)
    BY <1>4, <1>6 DEF CalculatePreVerificationGas, Eip7623TransactionGasCost
  <2> HIDE DEF x, y
  <2>4. MathRound(x) <= MathRound(y) /\ MathRound(x) \in Nat /\ MathRound(y) \in Nat
    BY <2>2, Rounded, RoundedGrows
  <2>5. Unit * MathRound(x) <= Unit * MathRound(y)
        /\ Unit * MathRound(x) \in Nat /\ Unit * MathRound(y) \in Nat
    BY <2>4, UnitAssumption, ProductGrows
  <2>6. \A k \in Nat : Unit * (k - used) = Unit * k - e
    <3> HIDE DEF used
    <3> QED
      BY <1>1, UnitAssumption
  <2> HIDE DEF e
  <2> QED
    BY <2>1, <2>3, <2>4, <2>5, <2>6
<1>7. CASE ~ config.useEip7623
  <2>1. /\ CalculatePreVerificationGas(a, config) = ((rate * m) + S) + v
        /\ CalculatePreVerificationGas(b, config) = ((rate * n) + S) + w
    BY <1>7 DEF CalculatePreVerificationGas
  <2> HIDE DEF m, n, v, w, S, rate, floor
  <2> QED
    BY <1>1, <1>3, <1>5, <2>1
<1> QED
  BY <1>6, <1>7

-----------------------------------------------------------------------------
(* What was charged and what was answered *)

\* An operation that passed validateInputParameters.
Valid(op) == op # Null /\ op.fieldsAreHex /\ \E r \in Requests : r.op = op

\* Its gas was checked against this configuration.
Priced(op, config) ==
  Valid(op) /\ config \in GasConfig /\ ValidatePreVerificationGas(op, config)

\* The steps of a call belong to its method.
StepOf(pc, method) ==
  /\ pc \in Validating \cup Elsewhere
  /\ pc \in {"received"} \cup Validating => method = "eth_sendUserOperation"
  /\ pc \in {"input", "estimate"} => method = "eth_estimateUserOperationGas"
  /\ pc \in {"event", "fetch"} => HasHash(method)
  /\ pc = "network" => method = "eth_chainId"

\* An estimate is what the configuration at its last step asks for.
Estimated(r) ==
  /\ Valid(r.req.op) /\ r.config \in GasConfig
  /\ EstimatePreVerificationGas(r.req.op, r.config) = Unit * r.answer.value

AnswerOK(r) ==
  r.req.method = "eth_estimateUserOperationGas" /\ r.answer.is = "result" => Estimated(r)

RecordOK(r) ==
  /\ DOMAIN r = Fields
  /\ r.pc # "new" => r.req \in Requests /\ StepOf(r.pc, r.req.method)
  /\ r.pc \in Validating => Priced(r.req.op, r.config)
  /\ r.pc = "estimate" => Valid(r.req.op)
  /\ r.pc = "answered" => AnswerOK(r)

PriceInv ==
  /\ gasConfig \in GasConfig
  /\ DOMAIN call = Calls
  /\ \A c \in Calls : RecordOK(call[c])
  /\ IsFiniteSet(pool)
  /\ \A e \in pool : Priced(e.op, e.config)

LEMMA OneRecord ==
  ASSUME PriceInv, NEW c \in Calls, NEW r, call' = [call EXCEPT ![c] = r], RecordOK(r),
         UNCHANGED <<gasConfig, pool>>
  PROVE  PriceInv'
BY DEF PriceInv

LEMMA AnswerPriced ==
  ASSUME PriceInv, NEW c \in Calls, NEW a, Answer(c, a), ~ At(c, "new"),
         a.is = "error" \/ call[c].req.method # "eth_estimateUserOperationGas",
         UNCHANGED <<gasConfig, pool>>
  PROVE  PriceInv'
<1> DEFINE r == [call[c] EXCEPT !.pc = "answered", !.answer = a]
<1>1. RecordOK(call[c]) /\ call' = [call EXCEPT ![c] = r]
  BY DEF PriceInv, Answer
<1>2. DOMAIN r = Fields /\ r.pc = "answered" /\ r.answer = a /\ r.req = call[c].req
  BY <1>1 DEF RecordOK, Fields
<1> HIDE DEF r
<1>3. RecordOK(r)
  BY <1>1, <1>2 DEF RecordOK, AnswerOK, StepOf, Validating, Elsewhere, At
<1> QED
  BY <1>1, <1>3, OneRecord

LEMMA RefusedPriced ==
  ASSUME PriceInv, NEW c \in Calls, NEW e, Fail(c, e) \/ Throw(c, e) \/ Reject(c, e),
         ~ At(c, "new"), UNCHANGED <<gasConfig, pool>>
  PROVE  PriceInv'
<1>1. \E code : Answer(c, Error(code))
  BY DEF Fail, Throw, Reject
<1>2. \A code : Error(code).is = "error"
  BY DEF Error
<1> QED
  BY <1>1, <1>2, AnswerPriced

\* A call that sends an operation goes on: neither the operation nor the
\* configuration it was priced with changes.
LEMMA ValidatedPriced ==
  ASSUME PriceInv, NEW c \in Calls, NEW r, call' = [call EXCEPT ![c] = r],
         call[c].pc \in Validating, r.pc \in Validating, DOMAIN r = Fields,
         r.req = call[c].req, r.config = call[c].config, UNCHANGED <<gasConfig, pool>>
  PROVE  PriceInv'
<1>1. RecordOK(call[c])
  BY DEF PriceInv
<1>2. RecordOK(r)
  BY <1>1 DEF RecordOK, StepOf, Validating, Elsewhere
<1> QED
  BY <1>2, OneRecord

LEMMA InitPriced == Init => PriceInv
BY RequestAssumption, FS_EmptySet DEF Init, PriceInv, RecordOK, NewCall, Fields, Validating

LEMMA ArrivePriced ==
  ASSUME PriceInv, NEW c \in Calls, NEW r \in Requests, Arrive(c, r)
  PROVE  PriceInv'
<1> DEFINE rec == call'[c]
<1>1. DOMAIN call[c] = Fields /\ UNCHANGED <<gasConfig, pool>>
  BY DEF PriceInv, RecordOK, Arrive
<1>2. /\ DOMAIN rec = Fields /\ call' = [call EXCEPT ![c] = rec] /\ rec.req = r
      /\ rec.pc = IF \/ Failing(r) # {} \/ r.method \in DOMAIN ConstantAnswer
                     \/ HasHash(r.method) /\ ~r.hexHash
                  THEN "answered" ELSE Handler(r.method)
  BY <1>1 DEF PriceInv, Arrive, Fields
<1>3. r.method \notin DOMAIN Arity => Failing(r) # {}
  BY DEF Failing
<1>4. CASE rec.pc = "answered"
  <2>1. rec.answer.is = "error" \/ r.method # "eth_estimateUserOperationGas"
    <3>1. \/ r.method \in DOMAIN ConstantAnswer
          \/ HasHash(r.method)
          \/ rec.answer = Error(MiddlewareCode(FirstFailing(Failing(r))))
      <4>1. CASE Failing(r) # {}
        BY <1>1, <4>1 DEF PriceInv, Arrive, Fields
      <4>2. CASE Failing(r) = {} /\ r.method \notin DOMAIN ConstantAnswer /\ ~HasHash(r.method)
        <5>1. rec.pc = Handler(r.method)
          BY <1>2, <4>2
        <5>2. r.method \in {"eth_sendUserOperation", "eth_estimateUserOperationGas", "eth_chainId"}
          BY <1>3, <4>2 DEF Arity, ConstantAnswer, HasHash
        <5>3. Handler(r.method) # "answered"
          BY <5>2 DEF Handler
        <5> QED
          BY <1>4, <5>1, <5>3
      <4> QED
        BY <4>1, <4>2
    <3> QED
      BY <3>1 DEF ConstantAnswer, HasHash, Error
  <2>2. RecordOK(rec)
    <3> HIDE DEF rec
    <3> QED
      BY <1>2, <1>4, <2>1 DEF RecordOK, AnswerOK, StepOf, Validating, Elsewhere
  <2> HIDE DEF rec
  <2> QED
    BY <1>1, <1>2, <2>2, OneRecord
<1>5. CASE rec.pc # "answered"
  <2>1. rec.pc = Handler(r.method) /\ r.method \in DOMAIN Arity \ DOMAIN ConstantAnswer
    BY <1>2, <1>3, <1>5
  <2>2. StepOf(rec.pc, r.method) /\ rec.pc \in {"received", "input", "event", "network"}
    <3> HIDE DEF rec
    <3>1. r.method \in {"eth_sendUserOperation", "eth_estimateUserOperationGas", "eth_chainId",
                       "eth_getUserOperationReceipt", "eth_getUserOperationByHash"}
      BY <2>1 DEF Arity, ConstantAnswer
    <3> QED
      BY <2>1, <3>1 DEF Handler, StepOf, HasHash, Validating, Elsewhere
  <2> HIDE DEF rec
  <2>3. RecordOK(rec)
    BY <1>2, <2>2 DEF RecordOK, Validating
  <2> QED
    BY <1>1, <1>2, <2>3, OneRecord
<1> QED
  BY <1>4, <1>5

LEMMA InputValid ==
  ASSUME NEW r \in Requests, NEW checkGas \in BOOLEAN, NEW support, NEW config,
         ValidateInputParameters(r, checkGas, support, config).is = "right"
  PROVE  Valid(r.op) /\ (checkGas => ValidatePreVerificationGas(r.op, config))
<1>1. r.op # Null /\ r.entryPoint # ""
  BY DEF ValidateInputParameters, Left, Throws
<1>2. /\ r.op.fieldsAreHex
      /\ ~ (checkGas /\ ~ ValidatePreVerificationGas(r.op, config))
  BY <1>1 DEF ValidateInputParameters, Left, Throws
<1> QED
  BY <1>1, <1>2 DEF Valid

LEMMA ReceivedPriced ==
  ASSUME PriceInv, NEW c \in Calls, Received(c)
  PROVE  PriceInv'
<1> DEFINE res == ValidateInputParameters(call[c].req, TRUE, options.eip7702Support, gasConfig)
           r == [call[c] EXCEPT !.pc = "hash", !.config = gasConfig]
<1>1. RecordOK(call[c]) /\ At(c, "received") /\ UNCHANGED <<gasConfig, pool>>
  BY DEF PriceInv, Received, Environment
<1>2. CASE res.is = "right"
  <2>1. call' = [call EXCEPT ![c] = r]
    BY <1>2 DEF Received
  <2>2. DOMAIN r = Fields /\ r.pc = "hash" /\ r.config = gasConfig /\ r.req = call[c].req
    BY <1>1 DEF RecordOK, Fields
  <2>3. Priced(r.req.op, r.config)
    BY <1>1, <1>2, <2>2, InputValid DEF PriceInv, RecordOK, At, Priced
  <2> HIDE DEF r
  <2>4. RecordOK(r)
    BY <1>1, <2>2, <2>3 DEF RecordOK, StepOf, At, Validating, Elsewhere
  <2> QED
    BY <1>1, <2>1, <2>4, OneRecord
<1>3. CASE res.is # "right"
  BY <1>1, <1>3, RefusedPriced DEF Received, At
<1> QED
  BY <1>2, <1>3

\* The steps between the gas check and the mempool.
LEMMA ValidatingPriced ==
  ASSUME PriceInv, NEW c \in Calls,
         \/ Hash(c) \/ Authorize(c) \/ FullSimulate(c) \/ Stakes(c)
         \/ CodeHash(c) \/ PartialSimulate(c)
  PROVE  PriceInv'
<1>1. /\ RecordOK(call[c]) /\ UNCHANGED <<gasConfig, pool>>
      /\ call[c].pc \in Validating /\ ~ At(c, "new")
  BY DEF PriceInv, Hash, Authorize, FullSimulate, Stakes, CodeHash, PartialSimulate,
         Environment, At, Validating
<1>2. ASSUME NEW e, Fail(c, e) \/ Reject(c, e) PROVE PriceInv'
  BY <1>1, <1>2, RefusedPriced
<1>3. ASSUME NEW pc \in {"simulate", "authorize"}, Goto(c, pc) PROVE PriceInv'
  <2> DEFINE r == [call[c] EXCEPT !.pc = pc]
  <2>1. call' = [call EXCEPT ![c] = r]
    BY <1>3 DEF Goto
  <2>2. DOMAIN r = Fields /\ r.pc \in Validating /\ r.config = call[c].config
        /\ r.req = call[c].req
    BY <1>1 DEF RecordOK, Fields, Validating
  <2> HIDE DEF r
  <2> QED
    BY <1>1, <2>1, <2>2, ValidatedPriced
<1>4. ASSUME NEW t, call' = [call EXCEPT ![c] = [@ EXCEPT !.pc = "stakes", !.trace = t]]
      PROVE  PriceInv'
  <2> DEFINE r == [call[c] EXCEPT !.pc = "stakes", !.trace = t]
  <2>1. call' = [call EXCEPT ![c] = r]
    BY <1>4
  <2>2. DOMAIN r = Fields /\ r.pc \in Validating /\ r.config = call[c].config
        /\ r.req = call[c].req
    BY <1>1 DEF RecordOK, Fields, Validating
  <2> HIDE DEF r
  <2> QED
    BY <1>1, <2>1, <2>2, ValidatedPriced
<1>5. ASSUME NEW t, call' = [call EXCEPT ![c] =
               [@ EXCEPT !.pc = "codeHash", !.trace = Null, !.result = t]]
      PROVE  PriceInv'
  <2> DEFINE r == [call[c] EXCEPT !.pc = "codeHash", !.trace = Null, !.result = t]
  <2>1. call' = [call EXCEPT ![c] = r]
    BY <1>5
  <2>2. DOMAIN r = Fields /\ r.pc \in Validating /\ r.config = call[c].config
        /\ r.req = call[c].req
    BY <1>1 DEF RecordOK, Fields, Validating
  <2> HIDE DEF r
  <2> QED
    BY <1>1, <2>1, <2>2, ValidatedPriced
<1>6. ASSUME NEW result, Checked(c, result) PROVE PriceInv'
  <2> DEFINE r == [call[c] EXCEPT !.pc = "add", !.result = result]
  <2>1. call' = [call EXCEPT ![c] = r] \/ \E e : Reject(c, e)
    BY <1>6 DEF Checked
  <2>2. DOMAIN r = Fields /\ r.pc \in Validating /\ r.config = call[c].config
        /\ r.req = call[c].req
    BY <1>1 DEF RecordOK, Fields, Validating
  <2> HIDE DEF r
  <2> QED
    BY <1>1, <1>2, <2>1, <2>2, ValidatedPriced
<1>7. CASE Hash(c) \/ Authorize(c)
  <2>1. \/ \E pc \in {"simulate", "authorize"} : Goto(c, pc)
        \/ \E e : Reject(c, e)
    BY <1>7 DEF Hash, Authorize
  <2> QED
    BY <1>2, <1>3, <2>1
<1>8. CASE FullSimulate(c)
  BY <1>2, <1>4, <1>8 DEF FullSimulate
<1>9. CASE Stakes(c)
  <2>1. \/ \E t : call' = [call EXCEPT ![c] =
                    [@ EXCEPT !.pc = "codeHash", !.trace = Null, !.result = t]]
        \/ \E e : Reject(c, e)
    BY <1>9, Zenon DEF Stakes
  <2> QED
    BY <1>2, <1>5, <2>1
<1>10. CASE CodeHash(c) \/ PartialSimulate(c)
  <2>1. (\E result : Checked(c, result)) \/ \E e : Reject(c, e)
    BY <1>10, Zenon DEF CodeHash, PartialSimulate
  <2> QED
    BY <1>2, <1>6, <2>1
<1> QED
  BY <1>7, <1>8, <1>9, <1>10

LEMMA AddPriced ==
  ASSUME PriceInv, NEW c \in Calls, Add(c)
  PROVE  PriceInv'
<1>1. /\ RecordOK(call[c]) /\ UNCHANGED gasConfig /\ At(c, "add")
      /\ Priced(Op(c), call[c].config) /\ call[c].req.method = "eth_sendUserOperation"
  BY DEF PriceInv, RecordOK, StepOf, Add, Environment, At, Op, Validating
<1>2. CASE \E e : Reject(c, e) /\ UNCHANGED pool
  BY <1>1, <1>2, RefusedPriced DEF At
<1>3. CASE Answer(c, Result("userOpHash"))
           /\ pool' = pool \cup {[call |-> c, op |-> Op(c), result |-> call[c].result,
                                  config |-> call[c].config]}
  <2> DEFINE r == [call[c] EXCEPT !.pc = "answered", !.answer = Result("userOpHash")]
  <2>1. call' = [call EXCEPT ![c] = r]
    BY <1>3 DEF Answer
  <2>2. DOMAIN r = Fields /\ r.pc = "answered" /\ r.req = call[c].req
    BY <1>1 DEF RecordOK, Fields
  <2> HIDE DEF r
  <2>3. RecordOK(r)
    BY <1>1, <2>2 DEF RecordOK, AnswerOK, StepOf, At, Validating, Elsewhere
  <2>4. \A e \in pool' : Priced(e.op, e.config)
    BY <1>1, <1>3 DEF PriceInv
  <2>5. IsFiniteSet(pool')
    BY <1>3, FS_AddElement DEF PriceInv
  <2> QED
    BY <1>1, <2>1, <2>3, <2>4, <2>5 DEF PriceInv
<1> QED
  BY <1>2, <1>3 DEF Add

\* An operation whose fields are hexadecimal has numbers in them.
LEMMA ValidNumeric ==
  ASSUME NEW op, Valid(op)
  PROVE  /\ Numeric(op) /\ op.preVerificationGas \in Nat
         /\ {"callData", "auth", "zeroBytes", "nonzeroBytes", "signature", "callGasLimit",
             "paymasterPostOpGasLimit", "preVerificationGas"} \subseteq DOMAIN op
BY OperationAssumption DEF Valid, Numeric

\* The answer of an estimate, in whole gas.
LEMMA EstimateAnswered ==
  ASSUME NEW estimate \in Int, SuccessResponse(estimate).is = "result"
  PROVE  /\ SuccessResponse(estimate).value \in Int
         /\ estimate = Unit * SuccessResponse(estimate).value
<1>1. estimate % Unit = 0 /\ SuccessResponse(estimate).value = estimate \div Unit
  BY DEF SuccessResponse, Error, Result
<1>2. estimate = Unit * (estimate \div Unit) + (estimate % Unit)
      /\ estimate \div Unit \in Int
  BY UnitAssumption
<1> DEFINE q == estimate \div Unit
           p == Unit * q
<1>3. p \in Int /\ q \in Int
  BY <1>2, UnitAssumption
<1>4. estimate = p + 0
  BY <1>1, <1>2
<1> HIDE DEF p
<1>5. estimate = p
  BY <1>3, <1>4
<1> QED
  BY <1>1, <1>3, <1>5 DEF p

LEMMA PriceIsNumber ==
  ASSUME NEW op, Numeric(op), NEW config \in GasConfig
  PROVE  CalculatePreVerificationGas(op, config) \in Int
<1> DEFINE m == CountTokens(op, config)
           v == ShareOfOverhead(op, config)
           used == GetUserOpGasUsed(op)
           S == ShareOfStipend(config)
           a == config.standardTokenGasCost * m
           b == config.floorPerTokenGasCost * m
<1>1. m \in Nat /\ v \in Nat /\ used \in Nat /\ S \in Nat
  BY GasParts
<1>2. a \in Nat /\ b \in Nat
  <2>1. config.standardTokenGasCost \in Nat /\ config.floorPerTokenGasCost \in Nat
    BY DEF GasConfig
  <2> HIDE DEF m
  <2> QED
    BY <1>1, <2>1, ProductGrows
<1>3. CASE config.useEip7623
  <2> DEFINE e == Unit * used
             x == S + MathMax(a + (v + e), b)
  <2>1. e \in Nat
    BY <1>1, UnitAssumption, ProductGrows
  <2>2. x \in Nat
    <3> HIDE DEF a, b, v, S, e
    <3> QED
      BY <1>1, <1>2, <2>1 DEF MathMax
  <2>3. CalculatePreVerificationGas(op, config) = Unit * (MathRound(x) - used)
    BY <1>3 DEF CalculatePreVerificationGas, Eip7623TransactionGasCost
  <2> HIDE DEF x, used
  <2>4. MathRound(x) \in Nat
    BY <2>2, Rounded
  <2> QED
    BY <1>1, <2>3, <2>4, UnitAssumption
<1>4. CASE ~ config.useEip7623
  <2>1. CalculatePreVerificationGas(op, config) = (a + S) + v
    BY <1>4 DEF CalculatePreVerificationGas
  <2> HIDE DEF a, b, v, S
  <2> QED
    BY <1>1, <1>2, <2>1
<1> QED
  BY <1>3, <1>4

\* The operation an estimate is made for.
LEMMA Unsigned ==
  ASSUME NEW op, Valid(op), NEW config \in GasConfig
  PROVE  /\ Numeric([op EXCEPT !.signature = Null])
         /\ EstimatePreVerificationGas(op, config) \in Int
<1> DEFINE o == [op EXCEPT !.signature = Null]
<1>1. /\ o.callData = op.callData /\ o.callGasLimit = op.callGasLimit
      /\ o.paymasterPostOpGasLimit = op.paymasterPostOpGasLimit
      /\ o.zeroBytes = op.zeroBytes /\ o.nonzeroBytes = op.nonzeroBytes
      /\ o.signature = Null
  BY ValidNumeric
<1> HIDE DEF o
<1>2. Numeric(o)
  BY <1>1, ValidNumeric DEF Numeric
<1> QED
  BY <1>2, PriceIsNumber DEF EstimatePreVerificationGas, o

LEMMA EstimatePriced ==
  ASSUME PriceInv, NEW c \in Calls, Estimate(c)
  PROVE  PriceInv'
<1>1. /\ RecordOK(call[c]) /\ At(c, "estimate") /\ UNCHANGED <<gasConfig, pool>>
      /\ Valid(Op(c)) /\ gasConfig \in GasConfig
      /\ call[c].req.method = "eth_estimateUserOperationGas"
  BY DEF PriceInv, RecordOK, StepOf, Estimate, Environment, At, Op
<1>2. CASE \E e : Fail(c, e) \/ Throw(c, e)
  BY <1>1, <1>2, RefusedPriced DEF At
<1> DEFINE estimate == EstimatePreVerificationGas(Op(c), gasConfig)
           r == [call[c] EXCEPT !.pc = "answered", !.config = gasConfig,
                                !.answer = SuccessResponse(estimate)]
<1>3. CASE call' = [call EXCEPT ![c] = r]
  <2>1. /\ DOMAIN r = Fields /\ r.pc = "answered" /\ r.req = call[c].req
        /\ r.config = gasConfig /\ r.answer = SuccessResponse(estimate)
    BY <1>1 DEF RecordOK, Fields
  <2>2. estimate \in Int
    BY <1>1, Unsigned
  <2>3. r.answer.is = "result" => Estimated(r)
    <3> HIDE DEF r
    <3> QED
      BY <1>1, <2>1, <2>2, EstimateAnswered DEF Estimated, Op
  <2> HIDE DEF r
  <2>4. RecordOK(r)
    BY <1>1, <2>1, <2>3 DEF RecordOK, AnswerOK, StepOf, Validating, Elsewhere, At
  <2> QED
    BY <1>1, <1>3, <2>4, OneRecord
<1> QED
  BY <1>2, <1>3, EstimateOutcome

\* The calls that read, and the input of an estimate.
LEMMA OthersPriced ==
  ASSUME PriceInv, NEW c \in Calls,
         \/ Network(c) \/ EstimateInput(c)
         \/ Event(c) \/ FetchReceipt(c) \/ FetchByHash(c)
  PROVE  PriceInv'
<1>1. /\ RecordOK(call[c]) /\ UNCHANGED <<gasConfig, pool>> /\ ~ At(c, "new")
      /\ call[c].pc \in {"network", "input", "event", "fetch"}
  BY DEF PriceInv, Network, EstimateInput, Event, FetchReceipt, FetchByHash, Environment, At
<1>2. ASSUME NEW e, Fail(c, e) \/ Throw(c, e) PROVE PriceInv'
  BY <1>1, <1>2, RefusedPriced
<1>3. CASE EstimateInput(c)
  <2> DEFINE r == [call[c] EXCEPT !.pc = "estimate"]
             res == IF Op(c) = Null THEN Left("InvalidFields")
                    ELSE ValidateInputParameters(call[c].req, FALSE, options.eip7702Support,
                                                 gasConfig)
  <2>1. At(c, "input") /\ IF res.is = "right" THEN Goto(c, "estimate") ELSE Fail(c, res)
    BY <1>3 DEF EstimateInput, Op
  <2>2. CASE res.is = "right"
    <3>1. call' = [call EXCEPT ![c] = r]
      BY <2>1, <2>2 DEF Goto
    <3>2. DOMAIN r = Fields /\ r.pc = "estimate" /\ r.req = call[c].req
      BY <1>1 DEF RecordOK, Fields
    <3>3. call[c].req \in Requests /\ Op(c) # Null
      BY <1>1, <2>1, <2>2 DEF RecordOK, At, Left
    <3>4. Valid(r.req.op)
      BY <2>2, <3>2, <3>3, InputValid DEF Op
    <3> HIDE DEF r
    <3>5. RecordOK(r)
      BY <1>1, <2>1, <3>2, <3>3, <3>4 DEF RecordOK, StepOf, At, Validating, Elsewhere
    <3> QED
      BY <1>1, <3>1, <3>5, OneRecord
  <2>3. CASE res.is # "right"
    BY <1>2, <2>1, <2>3
  <2> QED
    BY <2>2, <2>3
<1>4. CASE Network(c) \/ Event(c) \/ FetchReceipt(c) \/ FetchByHash(c)
  <2>1. call[c].req.method # "eth_estimateUserOperationGas"
    BY <1>1, <1>4 DEF RecordOK, StepOf, HasHash, Network, Event, FetchReceipt, FetchByHash, At
  <2>2. \/ \E e : Fail(c, e) \/ Throw(c, e) \/ Answer(c, e)
        \/ Goto(c, "fetch") /\ At(c, "event")
    BY <1>4 DEF Network, Event, FetchReceipt, FetchByHash
  <2>3. ASSUME NEW a, Answer(c, a) PROVE PriceInv'
    BY <1>1, <2>1, <2>3, AnswerPriced
  <2>4. CASE Goto(c, "fetch") /\ At(c, "event")
    <3> DEFINE r == [call[c] EXCEPT !.pc = "fetch"]
    <3>1. call' = [call EXCEPT ![c] = r]
      BY <2>4 DEF Goto
    <3>2. DOMAIN r = Fields /\ r.pc = "fetch" /\ r.req = call[c].req
      BY <1>1 DEF RecordOK, Fields
    <3> HIDE DEF r
    <3>3. RecordOK(r)
      BY <1>1, <2>4, <3>2 DEF RecordOK, StepOf, At, Validating, Elsewhere
    <3> QED
      BY <1>1, <3>1, <3>3, OneRecord
  <2> QED
    BY <1>2, <2>2, <2>3, <2>4
<1> QED
  BY <1>3, <1>4

\* debug_bundler_setConfiguration keeps the type of the configuration.
LEMMA UpdatedConfig ==
  ASSUME NEW config \in GasConfig, NEW fields \in Updates
  PROVE  UpdateGasConfig(config, fields) \in GasConfig
<1> DEFINE new == UpdateGasConfig(config, fields)
           names == {"transactionGasStipend", "fixedGasOverhead", "perUserOpGasOverhead",
                     "perUserOpWordGasOverhead", "executeUserOpGasOverhead",
                     "executeUserOpPerWordGasOverhead", "standardTokenGasCost",
                     "floorPerTokenGasCost", "tokensPerNonzeroByte", "eip7702AuthGas",
                     "expectedBundleSize", "estimationSignatureSize", "useEip7623"}
<1>1. DOMAIN config = names
  BY DEF GasConfig
<1>2. new = [f \in names |-> IF f \in DOMAIN fields THEN fields[f] ELSE config[f]]
  BY <1>1 DEF UpdateGasConfig
<1>3. \A f \in names : f \in DOMAIN fields =>
        fields[f] \in (IF f = "useEip7623" THEN BOOLEAN
                       ELSE IF f = "expectedBundleSize" THEN Nat \ {0} ELSE Nat)
  BY UpdateAssumption
<1>4. \A f \in names : config[f] \in (IF f = "useEip7623" THEN BOOLEAN
                                     ELSE IF f = "expectedBundleSize" THEN Nat \ {0} ELSE Nat)
  BY DEF GasConfig
<1>5. \A f \in names : new[f] \in (IF f = "useEip7623" THEN BOOLEAN
                                  ELSE IF f = "expectedBundleSize" THEN Nat \ {0} ELSE Nat)
  BY <1>2, <1>3, <1>4
<1>6. DOMAIN new = names
  BY <1>2
<1> QED
  BY <1>2, <1>5, <1>6 DEF GasConfig

LEMMA PricedStep == PriceInv /\ [Next]_vars => PriceInv'
<1> SUFFICES ASSUME PriceInv, [Next]_vars PROVE PriceInv'
  OBVIOUS
<1>1. CASE UNCHANGED vars \/ Block \/ Tick
  <2>1. UNCHANGED <<gasConfig, call, pool>>
    BY <1>1 DEF vars, Block, Tick
  <2> QED
    BY <2>1 DEF PriceInv
<1>2. ASSUME NEW fields \in Updates, SetGasConfig(fields) PROVE PriceInv'
  BY <1>2, UpdatedConfig DEF PriceInv, SetGasConfig
<1>3. ASSUME NEW c \in Calls, NEW r \in Requests, Arrive(c, r) PROVE PriceInv'
  BY <1>3, ArrivePriced
<1>4. ASSUME NEW c \in Calls, Proceed(c) PROVE PriceInv'
  BY <1>4, ReceivedPriced, ValidatingPriced, AddPriced, EstimatePriced, OthersPriced DEF Proceed
<1> QED
  BY <1>1, <1>2, <1>3, <1>4 DEF Next

LEMMA PriceHolds == Spec => []PriceInv
<1>1. Init => PriceInv
  BY InitPriced
<1>2. PriceInv /\ [Next]_vars => PriceInv'
  BY PricedStep
<1> QED
  BY <1>1, <1>2, PTL DEF Spec

\* The fold of the model is the sum of the lemmas.
LEMMA FoldIsSum ==
  ASSUME NEW B, NEW f, DOMAIN f = B
  PROVE  SumFunction(f) = Sum(f, B)
BY DEF SumFunction, SumFunctionOnSet, FoldFunctionOnSet, MapThenFoldSet, SumFcn, Sum, Pick

\* Twice a share times a size no smaller than the configured one is at least twice
\* the whole.
LEMMA ShareTimesSize ==
  ASSUME NEW whole \in Nat, NEW d \in Nat \ {0}, whole % d = 0, NEW n \in Nat, d <= n
  PROVE  n * (whole \div d) >= whole
<1> DEFINE q == whole \div d
<1>1. q \in Nat /\ whole = d * q
  <2>1. whole = d * (whole \div d) + (whole % d) /\ d * q \in Nat
    BY Quotient
  <2>2. d * q = d * (whole \div d) /\ q \in Nat
    BY Quotient
  <2> HIDE DEF q
  <2> QED
    BY <2>1, <2>2
<1> HIDE DEF q
<1>2. q * d <= q * n /\ q * d = d * q /\ q * n = n * q
  BY <1>1, ProductGrows
<1> QED
  BY <1>1, <1>2 DEF q

\* The shares of a finite set, each at least a part of the whole in its size.
LEMMA SharesCover ==
  ASSUME NEW B, IsFiniteSet(B), B # {}, NEW f, NEW whole \in Nat,
         \A e \in B : f[e] \in Nat /\ Cardinality(B) * f[e] >= whole
  PROVE  Sum(f, B) >= whole
<1> DEFINE n == Cardinality(B)
           g == [e \in B |-> n * f[e]]
           h == [e \in B |-> whole]
<1>1. n \in Nat /\ n # 0
  BY FS_CardinalityType, FS_EmptySet
<1> HIDE DEF n
<1>2. \A e \in B : f[e] \in Int /\ g[e] = n * f[e] + 0 * f[e]
  <2> SUFFICES ASSUME NEW e \in B PROVE f[e] \in Int /\ g[e] = n * f[e] + 0 * f[e]
    OBVIOUS
  <2>1. f[e] \in Nat /\ n * f[e] \in Nat /\ 0 * f[e] = 0
    BY <1>1, ProductGrows
  <2> QED
    BY <2>1
<1>3. Sum(g, B) = n * Sum(f, B) + 0 * Sum(f, B) /\ Sum(f, B) \in Int
  BY <1>1, <1>2, SumLinear, SumIsInt
<1>4. Sum(h, B) = whole * n
  BY SumOfEqual DEF n
<1>5. Sum(h, B) <= Sum(g, B)
  <2>1. \A e \in B : h[e] \in Int /\ g[e] \in Int /\ h[e] <= g[e]
    <3> SUFFICES ASSUME NEW e \in B PROVE h[e] \in Int /\ g[e] \in Int /\ h[e] <= g[e]
      OBVIOUS
    <3>1. n * f[e] \in Nat /\ n * f[e] >= whole
      BY <1>1, ProductGrows DEF n
    <3> QED
      BY <3>1
  <2> HIDE DEF g, h
  <2> QED
    BY <2>1, SumBelow
<1> DEFINE s == Sum(f, B)
<1>6. s \in Int /\ whole * n <= n * s
  <2>1. Sum(g, B) = n * s + 0 * s /\ s \in Int
    BY <1>3
  <2> HIDE DEF s
  <2>2. 0 * s = 0 /\ n * s \in Int
    BY <1>1, <2>1
  <2> QED
    BY <1>4, <1>5, <2>1, <2>2
<1> HIDE DEF s
<1>7. ASSUME s < whole PROVE FALSE
  <2>1. n * (whole - s) >= 1
    <3> DEFINE rest == whole - s
    <3>1. rest \in Nat /\ 1 <= rest
      BY <1>6, <1>7
    <3> HIDE DEF rest
    <3>2. n * 1 <= n * rest /\ n * rest \in Nat
      BY <1>1, <3>1, ProductGrows
    <3>3. n * 1 = n /\ n >= 1
      BY <1>1
    <3> QED
      BY <1>1, <3>2, <3>3 DEF rest
  <2>2. n * (whole - s) = whole * n - n * s
    BY <1>1, <1>6
  <2> QED
    BY <1>1, <1>6, <2>1, <2>2
<1> QED
  BY <1>6, <1>7 DEF s

\* What one operation in the mempool pays for the gas it uses covers its shares of
\* both prices.
LEMMA Admitted ==
  ASSUME NEW e, Priced(e.op, e.config), e.config.useEip7623,
         NEW gas \in Nat, GetUserOpGasUsed(e.op) <= gas
  PROVE  LET paid == (2 * Unit) * (e.op.preVerificationGas + gas) + Unit
             S == ShareOfStipend(e.config)
             m == CountTokens(e.op, e.config)
         IN /\ paid >= 2 * (S + e.config.floorPerTokenGasCost * m)
            /\ paid >= 2 * (((S + e.config.standardTokenGasCost * m)
                               + ShareOfOverhead(e.op, e.config)) + Unit * gas)
<1> DEFINE S == ShareOfStipend(e.config)
           m == CountTokens(e.op, e.config)
           A == e.config.standardTokenGasCost * m
           B == e.config.floorPerTokenGasCost * m
           O == ShareOfOverhead(e.op, e.config)
           used == GetUserOpGasUsed(e.op)
           p == e.op.preVerificationGas
           q == MathRound(S + MathMax(A + (O + Unit * used), B))
<1>2. Numeric(e.op) /\ p \in Nat /\ e.config \in GasConfig
  BY ValidNumeric DEF Priced
<1>3. S \in Nat /\ m \in Nat /\ O \in Nat /\ used \in Nat
  BY <1>2, GasParts
<1>4. A \in Nat /\ B \in Nat
  <2>1. e.config.standardTokenGasCost \in Nat /\ e.config.floorPerTokenGasCost \in Nat
    BY <1>2 DEF GasConfig
  <2> HIDE DEF m
  <2> QED
    BY <1>3, <2>1, ProductGrows
<1>5. used <= gas
  OBVIOUS
<1>6. Unit * (q - used) <= Unit * p
  BY DEF Priced, ValidatePreVerificationGas, CalculatePreVerificationGas,
         Eip7623TransactionGasCost
<1> HIDE DEF S, m, A, B, O, used, p, q
<1>7. /\ (2 * Unit) * (p + gas) + Unit >= 2 * (S + B)
      /\ (2 * Unit) * (p + gas) + Unit >= 2 * (((S + A) + O) + Unit * gas)
  <2>1. q = MathRound(S + MathMax(A + (O + Unit * used), B))
    BY DEF q
  <2> QED
    BY <1>2, <1>3, <1>4, <1>5, <1>6, <2>1, Refunded
<1> QED
  BY <1>7 DEF S, m, A, B, O, p

\* Whatever the configurations were when the gas was checked, what the operations
\* of a bundle no smaller than they were admitted for pay covers its cost.
THEOREM BundlesPay == Spec => []BundlePays
<1>1. PriceInv => BundlePays
  <2> SUFFICES ASSUME PriceInv, NEW B \in SUBSET pool, NEW one \in B,
                      one.config.useEip7623,
                      \A e \in B : /\ ApartFromSize(e.config) = ApartFromSize(one.config)
                                   /\ e.config.expectedBundleSize <= Cardinality(B)
                                   /\ SharesExact(e.config),
                      NEW more \in [B -> 0 .. 3]
               PROVE  LET config == one.config
                          gas == [e \in B |-> GetUserOpGasUsed(e.op) + more[e]]
                          paid == [e \in B |-> e.op.preVerificationGas + gas[e]]
                          tokens == [e \in B |-> CountTokens(e.op, e.config)]
                          spent == [e \in B |-> PerUserOpOverhead(e.op, e.config) + Unit * gas[e]]
                          execution == config.fixedGasOverhead + SumFunction(spent)
                          data == SumFunction(tokens)
                      IN 2 * Unit * SumFunction(paid) + Unit * Cardinality(B) >=
                           2 * (config.transactionGasStipend
                                  + MathMax(config.standardTokenGasCost * data + execution,
                                            config.floorPerTokenGasCost * data))
    BY DEF BundlePays
  <2> DEFINE config == one.config
             n == Cardinality(B)
             gas == [e \in B |-> GetUserOpGasUsed(e.op) + more[e]]
             paid == [e \in B |-> e.op.preVerificationGas + gas[e]]
             tokens == [e \in B |-> CountTokens(e.op, e.config)]
             spent == [e \in B |-> PerUserOpOverhead(e.op, e.config) + Unit * gas[e]]
             share == [e \in B |-> ShareOfStipend(e.config)]
             fixed == [e \in B |-> e.config.fixedGasOverhead \div e.config.expectedBundleSize]
             unit == [e \in B |-> Unit]
             std == config.standardTokenGasCost
             floor == config.floorPerTokenGasCost
  <2>1. IsFiniteSet(B) /\ n \in Nat
    BY FS_Subset, FS_CardinalityType DEF PriceInv
  <2>2. /\ config \in GasConfig /\ Unit \in Nat /\ Unit > 0
        /\ std \in Nat /\ floor \in Nat
        /\ config.transactionGasStipend \in Nat /\ config.fixedGasOverhead \in Nat
    BY UnitAssumption DEF PriceInv, Priced, GasConfig
  <2>3. ASSUME NEW e \in B
        PROVE  /\ Priced(e.op, e.config) /\ e.config \in GasConfig
               /\ e.config.useEip7623 /\ e.config.standardTokenGasCost = std
               /\ e.config.floorPerTokenGasCost = floor
               /\ e.config.transactionGasStipend = config.transactionGasStipend
               /\ e.config.fixedGasOverhead = config.fixedGasOverhead
    <3>1. Priced(e.op, e.config) /\ e.config \in GasConfig
      BY DEF PriceInv, Priced
    <3>2. ApartFromSize(e.config) = ApartFromSize(config)
      OBVIOUS
    <3> HIDE DEF config, std, floor
    <3>3. \A c1, c2 \in GasConfig : ApartFromSize(c1) = ApartFromSize(c2) =>
            /\ c1.useEip7623 = c2.useEip7623
            /\ c1.standardTokenGasCost = c2.standardTokenGasCost
            /\ c1.floorPerTokenGasCost = c2.floorPerTokenGasCost
            /\ c1.transactionGasStipend = c2.transactionGasStipend
            /\ c1.fixedGasOverhead = c2.fixedGasOverhead
      <4> SUFFICES ASSUME NEW c1 \in GasConfig, NEW c2 \in GasConfig,
                          ApartFromSize(c1) = ApartFromSize(c2)
                   PROVE  /\ c1.useEip7623 = c2.useEip7623
                          /\ c1.standardTokenGasCost = c2.standardTokenGasCost
                          /\ c1.floorPerTokenGasCost = c2.floorPerTokenGasCost
                          /\ c1.transactionGasStipend = c2.transactionGasStipend
                          /\ c1.fixedGasOverhead = c2.fixedGasOverhead
        OBVIOUS
      <4>1. \A c \in GasConfig : LET a == ApartFromSize(c) IN
              /\ a.useEip7623 = c.useEip7623
              /\ a.standardTokenGasCost = c.standardTokenGasCost
              /\ a.floorPerTokenGasCost = c.floorPerTokenGasCost
              /\ a.transactionGasStipend = c.transactionGasStipend
              /\ a.fixedGasOverhead = c.fixedGasOverhead
        BY DEF ApartFromSize, GasConfig
      <4> QED
        BY <4>1
    <3> QED
      BY <2>2, <3>1, <3>2, <3>3 DEF config, std, floor
  <2>4. ASSUME NEW e \in B
        PROVE  /\ gas[e] \in Nat /\ paid[e] \in Nat /\ tokens[e] \in Nat /\ spent[e] \in Nat
               /\ share[e] \in Nat /\ fixed[e] \in Nat
               /\ n * share[e] >= config.transactionGasStipend
               /\ n * fixed[e] >= config.fixedGasOverhead
               /\ (2 * Unit) * paid[e] + Unit >= 2 * (share[e] + floor * tokens[e])
               /\ (2 * Unit) * paid[e] + Unit >=
                    2 * (((share[e] + std * tokens[e]) + fixed[e]) + spent[e])
    <3>1. /\ GetUserOpGasUsed(e.op) \in Nat /\ CountTokens(e.op, e.config) \in Nat
          /\ PerUserOpOverhead(e.op, e.config) \in Nat /\ ShareOfStipend(e.config) \in Nat
          /\ e.op.preVerificationGas \in Nat
      BY <2>3, GasParts, ValidNumeric DEF Priced
    <3>2. gas[e] \in Nat /\ GetUserOpGasUsed(e.op) <= gas[e]
      <4>1. more[e] \in Nat
        OBVIOUS
      <4> QED
        BY <3>1, <4>1
    <3> DEFINE g == gas[e]
    <3>3. g \in Nat /\ GetUserOpGasUsed(e.op) <= g
      BY <3>2
    <3>4. /\ paid[e] = e.op.preVerificationGas + g
          /\ spent[e] = PerUserOpOverhead(e.op, e.config) + Unit * g
          /\ tokens[e] = CountTokens(e.op, e.config) /\ share[e] = ShareOfStipend(e.config)
          /\ fixed[e] = e.config.fixedGasOverhead \div e.config.expectedBundleSize
      OBVIOUS
    <3> HIDE DEF g
    <3>5. Unit * g \in Nat
      BY <2>2, <3>3, ProductGrows
    <3>6. /\ e.config.expectedBundleSize \in Nat \ {0}
          /\ e.config.expectedBundleSize <= n
          /\ config.transactionGasStipend % e.config.expectedBundleSize = 0
          /\ config.fixedGasOverhead % e.config.expectedBundleSize = 0
      BY <2>3 DEF SharesExact, GasConfig
    <3>7. /\ n * share[e] >= config.transactionGasStipend
          /\ n * fixed[e] >= config.fixedGasOverhead
          /\ fixed[e] \in Nat
      <4>1. /\ share[e] = config.transactionGasStipend \div e.config.expectedBundleSize
            /\ fixed[e] = config.fixedGasOverhead \div e.config.expectedBundleSize
        BY <2>3, <3>4 DEF ShareOfStipend
      <4> HIDE DEF config, n, share, fixed
      <4> QED
        BY <2>1, <2>2, <3>6, <4>1, ShareTimesSize, Quotient
    <3>8. /\ (2 * Unit) * (e.op.preVerificationGas + g) + Unit >=
               2 * (ShareOfStipend(e.config) + e.config.floorPerTokenGasCost * CountTokens(e.op, e.config))
          /\ (2 * Unit) * (e.op.preVerificationGas + g) + Unit >=
               2 * (((ShareOfStipend(e.config)
                        + e.config.standardTokenGasCost * CountTokens(e.op, e.config))
                       + ShareOfOverhead(e.op, e.config)) + Unit * g)
      BY <2>3, <3>3, Admitted
    <3>9. ShareOfOverhead(e.op, e.config) = fixed[e] + PerUserOpOverhead(e.op, e.config)
      BY <3>4 DEF ShareOfOverhead
    <3>10. g = gas[e] /\ paid[e] \in Nat /\ spent[e] \in Nat
      BY <3>1, <3>3, <3>4, <3>5 DEF g
    <3>11. /\ std * tokens[e] \in Nat
           /\ e.config.standardTokenGasCost * CountTokens(e.op, e.config) = std * tokens[e]
           /\ e.config.floorPerTokenGasCost * CountTokens(e.op, e.config) = floor * tokens[e]
      <4>1. std * tokens[e] \in Nat
        <5> DEFINE k == tokens[e]
        <5>1. k \in Nat
          BY <3>1, <3>4
        <5> HIDE DEF k, std
        <5> QED
          BY <2>2, <5>1, ProductGrows DEF k
      <4> QED
        BY <2>3, <3>4, <4>1
    <3> DEFINE pe == paid[e]
               se == spent[e]
               te == tokens[e]
               he == share[e]
               fe == fixed[e]
               oe == PerUserOpOverhead(e.op, e.config)
               ug == Unit * g
               w == std * te
    <3>12. /\ (2 * Unit) * pe + Unit >= 2 * (he + floor * te)
           /\ (2 * Unit) * pe + Unit >= 2 * (((he + w) + (fe + oe)) + ug)
           /\ se = oe + ug
      BY <3>4, <3>8, <3>9, <3>11
    <3>13. he \in Nat /\ w \in Nat /\ fe \in Nat /\ oe \in Nat /\ ug \in Nat /\ te \in Nat
      BY <3>1, <3>4, <3>5, <3>7, <3>11
    <3>14. ((he + w) + (fe + oe)) + ug = ((he + w) + fe) + se
      <4> HIDE DEF he, w, fe, oe, ug, se
      <4> QED
        BY <3>12, <3>13
    <3>15. (2 * Unit) * pe + Unit >= 2 * (((he + w) + fe) + se)
      BY ONLY <3>12, <3>14
    <3>16. /\ (2 * Unit) * paid[e] + Unit >= 2 * (share[e] + floor * tokens[e])
           /\ (2 * Unit) * paid[e] + Unit >=
                2 * (((share[e] + std * tokens[e]) + fixed[e]) + spent[e])
      BY ONLY <3>12, <3>15 DEF pe, he, te, w, fe, se
    <3>17. share[e] \in Nat /\ tokens[e] \in Nat
      BY ONLY <3>13 DEF he, te
    <3>18. gas[e] \in Nat
      BY ONLY <3>3 DEF g
    <3> HIDE DEF config, n, gas, paid, tokens, spent, share, fixed, std, floor
    <3> QED
      BY <3>7, <3>10, <3>16, <3>17, <3>18
  <2> HIDE DEF config, n, gas, paid, tokens, spent, share, fixed, std, floor
  <2>5. /\ Sum(share, B) >= config.transactionGasStipend
        /\ Sum(fixed, B) >= config.fixedGasOverhead
    <3>1. B # {}
      OBVIOUS
    <3>2. /\ \A e \in B : share[e] \in Nat /\ Cardinality(B) * share[e] >= config.transactionGasStipend
          /\ \A e \in B : fixed[e] \in Nat /\ Cardinality(B) * fixed[e] >= config.fixedGasOverhead
      BY <2>4 DEF n
    <3> QED
      BY <2>1, <2>2, <3>1, <3>2, SharesCover
  <2> DEFINE pay == [e \in B |-> (2 * Unit) * paid[e] + 1 * unit[e]]
             bare == [e \in B |-> 1 * share[e] + floor * tokens[e]]
             low == [e \in B |-> 2 * bare[e] + 0 * bare[e]]
             work == [e \in B |-> 1 * fixed[e] + 1 * spent[e]]
             data == [e \in B |-> 1 * share[e] + std * tokens[e]]
             both == [e \in B |-> 1 * data[e] + 1 * work[e]]
             high == [e \in B |-> 2 * both[e] + 0 * both[e]]
  <2>6. \A e \in B : /\ paid[e] \in Int /\ unit[e] \in Int /\ share[e] \in Int
                     /\ tokens[e] \in Int /\ fixed[e] \in Int /\ spent[e] \in Int
    BY <2>2, <2>4
  <2>7. \A e \in B : /\ pay[e] \in Int /\ bare[e] \in Int /\ work[e] \in Int
                     /\ data[e] \in Int /\ both[e] \in Int /\ low[e] \in Int /\ high[e] \in Int
    <3> SUFFICES ASSUME NEW e \in B
                 PROVE  /\ pay[e] \in Int /\ bare[e] \in Int /\ work[e] \in Int
                        /\ data[e] \in Int /\ both[e] \in Int /\ low[e] \in Int /\ high[e] \in Int
      OBVIOUS
    <3>1. /\ (2 * Unit) * paid[e] \in Int /\ floor * tokens[e] \in Int /\ std * tokens[e] \in Int
      BY <2>2, <2>6
    <3> QED
      BY <2>2, <2>6, <3>1
  <2>8. /\ Sum(pay, B) = (2 * Unit) * Sum(paid, B) + 1 * Sum(unit, B)
        /\ Sum(bare, B) = 1 * Sum(share, B) + floor * Sum(tokens, B)
        /\ Sum(low, B) = 2 * Sum(bare, B) + 0 * Sum(bare, B)
        /\ Sum(work, B) = 1 * Sum(fixed, B) + 1 * Sum(spent, B)
        /\ Sum(data, B) = 1 * Sum(share, B) + std * Sum(tokens, B)
        /\ Sum(both, B) = 1 * Sum(data, B) + 1 * Sum(work, B)
        /\ Sum(high, B) = 2 * Sum(both, B) + 0 * Sum(both, B)
    <3>1. /\ \A e \in B : pay[e] = (2 * Unit) * paid[e] + 1 * unit[e]
          /\ \A e \in B : bare[e] = 1 * share[e] + floor * tokens[e]
          /\ \A e \in B : low[e] = 2 * bare[e] + 0 * bare[e]
          /\ \A e \in B : work[e] = 1 * fixed[e] + 1 * spent[e]
          /\ \A e \in B : data[e] = 1 * share[e] + std * tokens[e]
          /\ \A e \in B : both[e] = 1 * data[e] + 1 * work[e]
          /\ \A e \in B : high[e] = 2 * both[e] + 0 * both[e]
      OBVIOUS
    <3>2. 2 * Unit \in Int /\ floor \in Int /\ std \in Int
      BY <2>2
    <3> HIDE DEF pay, bare, low, work, data, both, high, unit
    <3>3. Sum(pay, B) = (2 * Unit) * Sum(paid, B) + 1 * Sum(unit, B)
      BY <2>1, <2>6, <3>1, <3>2, SumLinear
    <3>4. Sum(bare, B) = 1 * Sum(share, B) + floor * Sum(tokens, B)
      BY <2>1, <2>6, <3>1, <3>2, SumLinear
    <3>5. Sum(low, B) = 2 * Sum(bare, B) + 0 * Sum(bare, B)
      BY <2>1, <2>7, <3>1, SumLinear
    <3>6. Sum(work, B) = 1 * Sum(fixed, B) + 1 * Sum(spent, B)
      BY <2>1, <2>6, <3>1, SumLinear
    <3>7. Sum(data, B) = 1 * Sum(share, B) + std * Sum(tokens, B)
      BY <2>1, <2>6, <3>1, <3>2, SumLinear
    <3>8. Sum(both, B) = 1 * Sum(data, B) + 1 * Sum(work, B)
      BY <2>1, <2>7, <3>1, SumLinear
    <3>9. Sum(high, B) = 2 * Sum(both, B) + 0 * Sum(both, B)
      BY <2>1, <2>7, <3>1, SumLinear
    <3> QED
      BY <3>3, <3>4, <3>5, <3>6, <3>7, <3>8, <3>9
  <2>9. Sum(low, B) <= Sum(pay, B) /\ Sum(high, B) <= Sum(pay, B)
    <3>1. \A e \in B : low[e] <= pay[e] /\ high[e] <= pay[e]
      <4> SUFFICES ASSUME NEW e \in B PROVE low[e] <= pay[e] /\ high[e] <= pay[e]
        OBVIOUS
      <4> DEFINE r == (2 * Unit) * paid[e]
                 ft == floor * tokens[e]
                 st == std * tokens[e]
                 se == share[e]
                 fe == fixed[e]
                 ve == spent[e]
      <4>1. /\ r \in Int /\ ft \in Int /\ st \in Int /\ se \in Int /\ fe \in Int /\ ve \in Int
        BY <2>2, <2>6
      <4>2. /\ pay[e] = r + 1 * Unit
            /\ low[e] = 2 * (1 * se + ft) + 0 * (1 * se + ft)
            /\ high[e] = 2 * (1 * (1 * se + st) + 1 * (1 * fe + 1 * ve))
                           + 0 * (1 * (1 * se + st) + 1 * (1 * fe + 1 * ve))
        OBVIOUS
      <4>3. r + Unit >= 2 * (se + ft) /\ r + Unit >= 2 * (((se + st) + fe) + ve)
        BY <2>4
      <4> HIDE DEF r, ft, st, se, fe, ve, pay, low, high
      <4> QED
        BY <2>2, <4>1, <4>2, <4>3
    <3> HIDE DEF pay, low, high
    <3> QED
      BY <2>1, <2>7, <3>1, SumBelow
  <2>10. Sum(unit, B) = Unit * n
    <3>1. \A e \in B : unit[e] = Unit
      OBVIOUS
    <3> HIDE DEF unit
    <3> QED
      BY <2>1, <2>2, <3>1, SumOfEqual DEF n
  <2>11. /\ Sum(paid, B) \in Int /\ Sum(share, B) \in Int /\ Sum(tokens, B) \in Int
         /\ Sum(fixed, B) \in Int /\ Sum(spent, B) \in Int
    BY <2>1, <2>6, SumIsInt
  <2>12. /\ SumFunction(paid) = Sum(paid, B) /\ SumFunction(spent) = Sum(spent, B)
         /\ SumFunction(tokens) = Sum(tokens, B)
    <3>1. DOMAIN paid = B /\ DOMAIN spent = B /\ DOMAIN tokens = B
      BY DEF paid, spent, tokens
    <3> QED
      BY <3>1, FoldIsSum
  <2> DEFINE P == (2 * Unit) * Sum(paid, B)
             U == Unit * n
             H == Sum(share, B)
             F == Sum(fixed, B)
             V == Sum(spent, B)
             ft == floor * Sum(tokens, B)
             st == std * Sum(tokens, B)
             stipend == config.transactionGasStipend
             overhead == config.fixedGasOverhead
  <2>13. /\ P \in Int /\ U \in Int /\ H \in Int /\ F \in Int /\ V \in Int
         /\ ft \in Int /\ st \in Int /\ stipend \in Int /\ overhead \in Int
    BY <2>1, <2>2, <2>11
  <2>14. /\ 2 * (1 * H + ft) + 0 * (1 * H + ft) <= P + 1 * U
         /\ 2 * (1 * (1 * H + st) + 1 * (1 * F + 1 * V))
              + 0 * (1 * (1 * H + st) + 1 * (1 * F + 1 * V)) <= P + 1 * U
         /\ H >= stipend /\ F >= overhead
    BY <2>5, <2>8, <2>9, <2>10
  <2> HIDE DEF P, U, H, F, V, ft, st, stipend, overhead
  <2>15. P + U >= 2 * (stipend + MathMax(st + (overhead + V), ft))
    BY <2>13, <2>14 DEF MathMax
  <2>16. 2 * Unit * SumFunction(paid) + Unit * n >=
           2 * (config.transactionGasStipend
                  + MathMax(std * SumFunction(tokens)
                              + (config.fixedGasOverhead + SumFunction(spent)),
                            floor * SumFunction(tokens)))
    BY <2>12, <2>15 DEF P, U, V, ft, st, stipend, overhead
  <2> QED
    BY <2>16 DEF config, n, gas, paid, tokens, spent, std, floor
<1> QED
  BY <1>1, PriceHolds, PTL

\* An estimate declared as it was answered passes the check of the same
\* configuration, with any signature no longer than the one assumed and no more
\* non-zero bytes in the estimate than in the value it replaces.
THEOREM EstimatesSuffice == Spec => []EstimateSuffices
<1>1. PriceInv => EstimateSuffices
  <2> SUFFICES ASSUME PriceInv, NEW c \in Calls, At(c, "answered"),
                      call[c].req.method = "eth_estimateUserOperationGas",
                      call[c].answer.is = "result", Op(c).signature # Null,
                      Op(c).signature <= call[c].config.estimationSignatureSize,
                      NonzeroBytes(call[c].answer.value)
                        <= NonzeroBytes(Op(c).preVerificationGas),
                      call[c].config.tokensPerNonzeroByte >= 1
               PROVE  ValidatePreVerificationGas(
                        [Op(c) EXCEPT !.preVerificationGas = call[c].answer.value],
                        call[c].config)
    BY DEF EstimateSuffices, HasEstimate, Declared
  <2> DEFINE op == Op(c)
             config == call[c].config
             v == call[c].answer.value
             a == [op EXCEPT !.preVerificationGas = v]
             b == [op EXCEPT !.signature = Null]
  <2>1. Valid(op) /\ config \in GasConfig /\ CalculatePreVerificationGas(b, config) = Unit * v
    BY DEF PriceInv, RecordOK, AnswerOK, Estimated, EstimatePreVerificationGas, At, Op
  <2>2. /\ a.callData = op.callData /\ a.callGasLimit = op.callGasLimit
        /\ a.paymasterPostOpGasLimit = op.paymasterPostOpGasLimit /\ a.auth = op.auth
        /\ a.zeroBytes = op.zeroBytes /\ a.nonzeroBytes = op.nonzeroBytes
        /\ a.signature = op.signature /\ a.preVerificationGas = v
        /\ b.callData = op.callData /\ b.callGasLimit = op.callGasLimit
        /\ b.paymasterPostOpGasLimit = op.paymasterPostOpGasLimit /\ b.auth = op.auth
        /\ b.zeroBytes = op.zeroBytes /\ b.nonzeroBytes = op.nonzeroBytes
        /\ b.signature = Null /\ b.preVerificationGas = op.preVerificationGas
    BY <2>1, ValidNumeric
  <2>3. /\ op.signature <= config.estimationSignatureSize
        /\ NonzeroBytes(v) <= NonzeroBytes(op.preVerificationGas)
        /\ config.tokensPerNonzeroByte >= 1
    OBVIOUS
  <2> HIDE DEF a, b, op, config, v
  <2>4. Numeric(op) /\ Numeric(a) /\ Numeric(b)
    BY <2>1, <2>2, ValidNumeric DEF Numeric
  <2>5. SignatureSize(a, config) <= SignatureSize(b, config)
    <3>1. config.estimationSignatureSize \in Nat
      BY <2>1 DEF GasConfig
    <3> QED
      BY <2>2, <2>3, <3>1 DEF SignatureSize, Or
  <2>6. CalculatePreVerificationGas(a, config) <= CalculatePreVerificationGas(b, config)
    BY <2>1, <2>2, <2>3, <2>4, <2>5, SignatureCosts
  <2>7. ValidatePreVerificationGas(a, config)
    BY <2>1, <2>2, <2>6 DEF ValidatePreVerificationGas
  <2> QED
    BY <2>7 DEF a, op, config, v
<1> QED
  BY <1>1, PriceHolds, PTL

-----------------------------------------------------------------------------
(* The logs of a receipt *)

Bounds == [start : Nat, end : Nat]

\* g is the scan of the logs, position by position.
Scan(g, logs, hash) ==
  g = [n \in 0 .. Len(logs) |->
         IF n = 0 THEN [start |-> 0, end |-> 0] ELSE FilterStep(logs, hash, g[n - 1], n)]

LEMMA FilterStepType ==
  ASSUME NEW logs, NEW hash, NEW acc \in Bounds, NEW i \in Nat
  PROVE  FilterStep(logs, hash, acc, i) \in Bounds
BY DEF FilterStep, IsOwn, Bounds

\* Boundaries is the end of a scan.
LEMMA ScanExists ==
  ASSUME NEW logs, NEW hash, Len(logs) \in Nat
  PROVE  \E g : Scan(g, logs, hash) /\ Boundaries(logs, hash) = g[Len(logs)]
<1> DEFINE N == Len(logs)
           zero == [start |-> 0, end |-> 0]
           Upto(n, g) == g[0] = zero /\ \A m \in 1 .. n : g[m] = FilterStep(logs, hash, g[m - 1], m)
           S == {n \in 0 .. N : \E g \in [0 .. n -> Bounds] : Upto(n, g)}
<1>1. 0 \in S
  <2>1. [n \in 0 .. 0 |-> zero] \in [0 .. 0 -> Bounds]
    BY DEF Bounds
  <2>2. Upto(0, [n \in 0 .. 0 |-> zero])
    OBVIOUS
  <2>3. \E g \in [0 .. 0 -> Bounds] : Upto(0, g)
    <3> HIDE DEF Upto
    <3> QED
      BY <2>1, <2>2
  <2> QED
    BY <2>3
<1>2. ASSUME NEW n \in 1 .. N, n - 1 \in S PROVE n \in S
  <2>1. PICK g \in [0 .. n - 1 -> Bounds] : Upto(n - 1, g)
    BY <1>2
  <2> DEFINE h == [m \in 0 .. n |-> IF m = n THEN FilterStep(logs, hash, g[n - 1], n) ELSE g[m]]
  <2>2. FilterStep(logs, hash, g[n - 1], n) \in Bounds
    BY FilterStepType
  <2>3. h \in [0 .. n -> Bounds]
    BY <2>2
  <2>4. Upto(n, h)
    BY <2>1
  <2>5. \E f \in [0 .. n -> Bounds] : Upto(n, f)
    <3> HIDE DEF Upto, h
    <3> QED
      BY <2>3, <2>4
  <2> QED
    BY <2>5
<1>3. N \in S
  <2>1. 0 .. N \subseteq S
    <3> HIDE DEF S
    <3> QED
      BY <1>1, <1>2, UpTo
  <2> QED
    BY <2>1
<1>4. PICK g \in [0 .. N -> Bounds] : Upto(N, g)
  BY <1>3
<1>5. Scan(g, logs, hash)
  BY <1>4 DEF Scan
<1> DEFINE f == CHOOSE f : Scan(f, logs, hash)
<1>6. Scan(f, logs, hash)
  BY <1>5
<1>7. Boundaries(logs, hash) = f[N]
  BY DEF Boundaries, Scan
<1> QED
  BY <1>6, <1>7

\* A log that comes after BeforeExecution and every event before it, and before
\* the operation's only event, is within the boundaries.
LEMMA OwnLogWithin ==
  ASSUME NEW logs, NEW hash, Len(logs) \in Nat, NEW i \in 1 .. Len(logs),
         NEW k \in 1 .. Len(logs), i < k,
         logs[i].kind \notin {"BeforeExecution", "UserOperationEvent"},
         \A j \in 1 .. Len(logs) : logs[j].kind = "BeforeExecution" => j < i,
         IsOwn(logs[k], hash),
         \A j \in 1 .. Len(logs) : IsOwn(logs[j], hash) => j = k,
         \A j \in 1 .. Len(logs) : logs[j].kind = "UserOperationEvent" => j < i \/ k <= j
  PROVE  Boundaries(logs, hash).start < i /\ Boundaries(logs, hash).end = k
<1> DEFINE N == Len(logs)
<1>1. PICK g : Scan(g, logs, hash) /\ Boundaries(logs, hash) = g[N]
  BY ScanExists
<1> DEFINE Good(n) == g[n] \in Bounds /\ g[n].start < i /\ (k <= n => g[n].end = k)
           S == {n \in 0 .. N : Good(n)}
<1>2. 0 \in S
  BY <1>1 DEF Scan, Bounds
<1>3. ASSUME NEW n \in 1 .. N, n - 1 \in S PROVE n \in S
  <2>1. g[n - 1] \in Bounds /\ g[n - 1].start < i /\ (k < n => g[n - 1].end = k)
    BY <1>3
  <2>2. g[n] = FilterStep(logs, hash, g[n - 1], n)
    <3>1. g = [m \in 0 .. N |->
                 IF m = 0 THEN [start |-> 0, end |-> 0]
                 ELSE FilterStep(logs, hash, g[m - 1], m)]
      BY <1>1 DEF Scan
    <3>2. n \in 0 .. N /\ n # 0
      OBVIOUS
    <3> QED
      BY ONLY <3>1, <3>2
  <2>3. g[n] \in Bounds
    BY <2>1, <2>2, FilterStepType
  <2>4. CASE logs[n].kind = "BeforeExecution"
    <3>1. n < i /\ g[n] = [start |-> n, end |-> n]
      BY <2>2, <2>4 DEF FilterStep, IsOwn
    <3> QED
      BY <2>3, <3>1
  <2>5. CASE IsOwn(logs[n], hash)
    <3>1. n = k /\ g[n] = [g[n - 1] EXCEPT !.end = n]
      BY <2>2, <2>5 DEF FilterStep, IsOwn
    <3> QED
      BY <2>1, <2>3, <3>1 DEF Bounds
  <2>6. CASE /\ logs[n].kind = "UserOperationEvent" /\ logs[n].hash # hash
             /\ g[n - 1].end = 0
    <3>1. n < i /\ g[n] = [g[n - 1] EXCEPT !.start = n]
      <4>1. n # k
        BY <2>6 DEF IsOwn
      <4>2. n < i
        BY <2>1, <2>6, <4>1
      <4> QED
        BY <2>2, <2>6, <4>2 DEF FilterStep, IsOwn
    <3> QED
      BY <2>1, <2>3, <3>1 DEF Bounds
  <2>7. CASE /\ logs[n].kind # "BeforeExecution" /\ ~ IsOwn(logs[n], hash)
             /\ ~ (/\ logs[n].kind = "UserOperationEvent" /\ logs[n].hash # hash
                   /\ g[n - 1].end = 0)
    <3>1. g[n] = g[n - 1] /\ n # k
      BY <2>2, <2>7 DEF FilterStep
    <3> QED
      BY <2>1, <2>3, <3>1
  <2> QED
    BY <2>4, <2>5, <2>6, <2>7
<1>4. 0 .. N \subseteq S
  <2> HIDE DEF S
  <2> QED
    BY <1>2, <1>3, UpTo
<1>5. Good(N)
  BY <1>4
<1> QED
  BY <1>1, <1>5

\* Of an operation with one event, at k, before which all BeforeExecution come,
\* the boundaries are the event and some place after every BeforeExecution.
LEMMA ExecutionWithin ==
  ASSUME NEW logs, NEW hash, Len(logs) \in Nat, NEW k \in 1 .. Len(logs),
         \A j \in 1 .. Len(logs) : logs[j].kind = "BeforeExecution" => j < k,
         \A j \in 1 .. Len(logs) : IsOwn(logs[j], hash) <=> j = k
  PROVE  /\ Boundaries(logs, hash) \in Bounds
         /\ Boundaries(logs, hash).end = k
         /\ \A j \in 1 .. Len(logs) :
              logs[j].kind = "BeforeExecution" => j <= Boundaries(logs, hash).start
<1> DEFINE N == Len(logs)
<1>1. PICK g : Scan(g, logs, hash) /\ Boundaries(logs, hash) = g[N]
  BY ScanExists
<1> DEFINE After(n) == \A j \in 1 .. N : j <= n /\ logs[j].kind = "BeforeExecution" => j <= g[n].start
           Good(n) == g[n] \in Bounds /\ (k <= n => g[n].end = k) /\ After(n)
           S == {n \in 0 .. N : Good(n)}
<1>2. 0 \in S
  BY <1>1 DEF Scan, Bounds
<1>3. ASSUME NEW n \in 1 .. N, n - 1 \in S PROVE n \in S
  <2>1. g[n - 1] \in Bounds /\ (k < n => g[n - 1].end = k) /\ After(n - 1)
    BY <1>3
  <2>2. g[n] = FilterStep(logs, hash, g[n - 1], n)
    <3>1. g = [m \in 0 .. N |->
                 IF m = 0 THEN [start |-> 0, end |-> 0]
                 ELSE FilterStep(logs, hash, g[m - 1], m)]
      BY <1>1 DEF Scan
    <3>2. n \in 0 .. N /\ n # 0
      OBVIOUS
    <3> QED
      BY ONLY <3>1, <3>2
  <2>3. g[n] \in Bounds
    BY <2>1, <2>2, FilterStepType
  <2>4. CASE logs[n].kind = "BeforeExecution"
    <3>1. n < k /\ g[n].start = n
      BY <2>2, <2>4 DEF FilterStep
    <3>2. After(n)
      BY <3>1
    <3> QED
      BY <2>3, <3>1, <3>2
  <2>5. ASSUME logs[n].kind # "BeforeExecution", g[n].start = g[n - 1].start
        PROVE  After(n)
    <3> SUFFICES ASSUME NEW j \in 1 .. N, j <= n, logs[j].kind = "BeforeExecution"
                 PROVE  j <= g[n].start
      OBVIOUS
    <3>1. j <= n - 1
      BY <2>5
    <3> QED
      BY <2>1, <2>5, <3>1
  <2>6. CASE IsOwn(logs[n], hash)
    <3>1. n = k /\ logs[n].kind # "BeforeExecution" /\ g[n] = [g[n - 1] EXCEPT !.end = n]
      BY <2>2, <2>6 DEF FilterStep, IsOwn
    <3>2. g[n].start = g[n - 1].start /\ g[n].end = n
      BY <2>1, <3>1 DEF Bounds
    <3>3. After(n)
      BY <2>5, <3>1, <3>2
    <3>4. k <= n => g[n].end = k
      BY <3>1, <3>2
    <3> HIDE DEF After
    <3> QED
      BY <2>3, <3>3, <3>4
  <2>7. CASE /\ logs[n].kind = "UserOperationEvent" /\ logs[n].hash # hash
             /\ g[n - 1].end = 0
    <3>1. g[n] = [g[n - 1] EXCEPT !.start = n] /\ n # k
      BY <2>2, <2>7 DEF FilterStep, IsOwn
    <3>2. g[n].start = n /\ g[n].end = g[n - 1].end
      BY <2>1, <3>1 DEF Bounds
    <3>3. After(n)
      BY <3>2
    <3>4. k <= n => g[n].end = k
      BY <2>1, <3>1, <3>2
    <3> HIDE DEF After
    <3> QED
      BY <2>3, <3>3, <3>4
  <2>8. CASE /\ logs[n].kind # "BeforeExecution" /\ ~ IsOwn(logs[n], hash)
             /\ ~ (/\ logs[n].kind = "UserOperationEvent" /\ logs[n].hash # hash
                   /\ g[n - 1].end = 0)
    <3>1. g[n] = g[n - 1] /\ n # k
      BY <2>2, <2>8 DEF FilterStep
    <3>2. After(n)
      BY <2>5, <2>8, <3>1
    <3> QED
      BY <2>1, <2>3, <3>1, <3>2
  <2> QED
    BY <2>4, <2>6, <2>7, <2>8
<1>4. 0 .. N \subseteq S
  <2> HIDE DEF S
  <2> QED
    BY <1>2, <1>3, UpTo
<1>5. Good(N)
  BY <1>4
<1> QED
  BY <1>1, <1>5

\* What filterLogs returns for an operation of a transaction with one handleOps.
LEMMA OwnLogsFiltered ==
  ASSUME NEW hash \in DOMAIN Transactions, NEW value,
         OneBundle(Transactions[hash].logs, hash),
         FilterLogs(hash, Transactions[hash].logs) = Right(value)
  PROVE  LET logs == Transactions[hash].logs
         IN /\ \A i \in DOMAIN logs : logs[i] = [kind |-> "log", hash |-> hash] => i \in value
            /\ \A i \in value : \A j \in DOMAIN logs :
                 /\ logs[j].kind = "BeforeExecution" => j < i
                 /\ IsOwn(logs[j], hash) => i < j
<1> DEFINE logs == Transactions[hash].logs
           b == Boundaries(logs, hash)
<1>1. Len(logs) \in Nat /\ DOMAIN logs = 1 .. Len(logs)
  BY TransactionAssumption
<1>2. PICK k \in 1 .. Len(logs) :
        /\ \A j \in 1 .. Len(logs) : IsOwn(logs[j], hash) <=> j = k
        /\ \A j \in 1 .. Len(logs) : logs[j].kind = "BeforeExecution" => j < k
        /\ \A i \in 1 .. Len(logs) : logs[i] = [kind |-> "log", hash |-> hash] =>
             /\ i < k
             /\ \A j \in 1 .. Len(logs) :
                  logs[j].kind \in {"BeforeExecution", "UserOperationEvent"} => j < i \/ k <= j
  <2>1. OneBundle(logs, hash)
    OBVIOUS
  <2> HIDE DEF logs
  <2> QED
    BY <1>1, <2>1 DEF OneBundle
<1> HIDE DEF logs
<1>3. /\ b \in Bounds /\ b.end = k
      /\ \A j \in 1 .. Len(logs) : logs[j].kind = "BeforeExecution" => j <= b.start
  BY <1>1, <1>2, ExecutionWithin
<1>4. value = {j \in DOMAIN logs : b.start < j /\ j < b.end}
  <2>1. FilterLogs(hash, logs) = Right(value)
    BY DEF logs
  <2>2. b.end # 0
    BY <1>3
  <2> QED
    BY <2>1, <2>2 DEF FilterLogs, Right
<1>5. ASSUME NEW i \in DOMAIN logs, logs[i] = [kind |-> "log", hash |-> hash]
      PROVE  i \in value
  <2>1. logs[i].kind \notin {"BeforeExecution", "UserOperationEvent"}
    BY <1>5
  <2>2. /\ i \in 1 .. Len(logs) /\ i < k
        /\ \A j \in 1 .. Len(logs) :
             logs[j].kind \in {"BeforeExecution", "UserOperationEvent"} => j < i \/ k <= j
    BY <1>1, <1>2, <1>5
  <2>3. \A j \in 1 .. Len(logs) : logs[j].kind = "BeforeExecution" => j < i
    BY <1>2, <2>2
  <2>4. b.start < i
    BY <1>1, <1>2, <2>1, <2>2, <2>3, OwnLogWithin
  <2> QED
    BY <1>1, <1>3, <1>4, <2>2, <2>4
<1>6. ASSUME NEW i \in value, NEW j \in DOMAIN logs
      PROVE  /\ logs[j].kind = "BeforeExecution" => j < i
             /\ IsOwn(logs[j], hash) => i < j
  <2>1. i \in Nat /\ j \in Nat /\ b.start \in Nat /\ b.start < i /\ i < k
    BY <1>1, <1>3, <1>4 DEF Bounds
  <2>2. /\ logs[j].kind = "BeforeExecution" => j <= b.start
        /\ IsOwn(logs[j], hash) => j = k
    BY <1>1, <1>2, <1>3
  <2> QED
    BY ONLY <2>1, <2>2
<1> QED
  BY <1>5, <1>6 DEF logs

\* A receipt is of a transaction that exists, and has the logs filterLogs gives.
ReceiptOK(r) ==
  /\ r.pc = "fetch" => r.req.hash \in DOMAIN Transactions
  /\ /\ r.pc = "answered" /\ r.req.method = "eth_getUserOperationReceipt"
     /\ r.answer.is = "result" /\ r.answer.value # Null
     => /\ r.req.hash \in DOMAIN Transactions
        /\ FilterLogs(r.req.hash, Transactions[r.req.hash].logs) = Right(r.answer.value)

ReceiptInv == PriceInv /\ \A c \in Calls : ReceiptOK(call[c])

LEMMA OneReceipt ==
  ASSUME ReceiptInv, PriceInv', NEW c \in Calls, NEW r, call' = [call EXCEPT ![c] = r],
         ReceiptOK(r)
  PROVE  ReceiptInv'
BY DEF ReceiptInv, PriceInv

LEMMA ReceiptAnswer ==
  ASSUME ReceiptInv, PriceInv', NEW c \in Calls, NEW a, Answer(c, a),
         \/ a.is = "error" \/ a.value = Null \/ call[c].req.method # "eth_getUserOperationReceipt"
         \/ /\ call[c].req.hash \in DOMAIN Transactions
            /\ FilterLogs(call[c].req.hash, Transaction(c).logs) = Right(a.value)
  PROVE  ReceiptInv'
<1> DEFINE r == [call[c] EXCEPT !.pc = "answered", !.answer = a]
<1>1. RecordOK(call[c]) /\ call' = [call EXCEPT ![c] = r]
  BY DEF ReceiptInv, PriceInv, Answer
<1>2. r.pc = "answered" /\ r.answer = a /\ r.req = call[c].req
  BY <1>1 DEF RecordOK, Fields
<1> HIDE DEF r
<1>3. ReceiptOK(r)
  BY <1>2 DEF ReceiptOK, Transaction
<1> QED
  BY <1>1, <1>3, OneReceipt

LEMMA ReceiptRefused ==
  ASSUME ReceiptInv, PriceInv', NEW c \in Calls, NEW e, Fail(c, e) \/ Throw(c, e)
  PROVE  ReceiptInv'
<1>1. \E code : Answer(c, Error(code))
  BY DEF Fail, Throw
<1>2. \A code : Error(code).is = "error"
  BY DEF Error
<1> QED
  BY <1>1, <1>2, ReceiptAnswer

\* A step of a call keeps its request.
Changed(c) == \E r : call' = [call EXCEPT ![c] = r] /\ r.req = call[c].req

LEMMA RecordChanges ==
  ASSUME PriceInv, NEW c \in Calls, NEW pc, NEW x, NEW y,
         \/ call' = [call EXCEPT ![c].pc = pc]
         \/ call' = [call EXCEPT ![c] = [@ EXCEPT !.pc = pc, !.answer = x]]
         \/ call' = [call EXCEPT ![c] = [@ EXCEPT !.pc = pc, !.config = x]]
         \/ call' = [call EXCEPT ![c] = [@ EXCEPT !.pc = pc, !.trace = x]]
         \/ call' = [call EXCEPT ![c] = [@ EXCEPT !.pc = pc, !.result = x]]
         \/ call' = [call EXCEPT ![c] = [@ EXCEPT !.pc = pc, !.trace = x, !.result = y]]
         \/ call' = [call EXCEPT ![c] = [@ EXCEPT !.pc = pc, !.config = x, !.answer = y]]
  PROVE  Changed(c)
<1> DEFINE r == call'[c]
<1>1. DOMAIN call[c] = Fields /\ DOMAIN call = Calls
  BY DEF PriceInv, RecordOK
<1>2. call' = [call EXCEPT ![c] = r]
  BY <1>1
<1>3. r.req = call[c].req
  BY <1>1 DEF Fields
<1> HIDE DEF r
<1> QED
  BY <1>2, <1>3 DEF Changed

LEMMA AnswerChanges ==
  ASSUME PriceInv, NEW c \in Calls, NEW a,
         \/ Answer(c, a) \/ Goto(c, a)
         \/ Fail(c, a) \/ Throw(c, a) \/ Reject(c, a)
  PROVE  Changed(c)
<1>1. ASSUME NEW x, Answer(c, x) PROVE Changed(c)
  BY <1>1, RecordChanges DEF Answer
<1>2. CASE Goto(c, a)
  BY <1>2, RecordChanges DEF Goto
<1>3. CASE Fail(c, a) \/ Throw(c, a) \/ Reject(c, a)
  BY <1>1, <1>3 DEF Fail, Throw, Reject
<1> QED
  BY <1>1, <1>2, <1>3

\* The steps of a call that looks nothing up.
LEMMA OthersKeep ==
  ASSUME PriceInv, NEW c \in Calls, Proceed(c),
         ~ (Event(c) \/ FetchReceipt(c) \/ FetchByHash(c))
  PROVE  Changed(c)
<1>1. ASSUME NEW x, \/ Answer(c, x) \/ Goto(c, x)
                    \/ Fail(c, x) \/ Throw(c, x) \/ Reject(c, x)
      PROVE  Changed(c)
  BY <1>1, AnswerChanges
<1>2. CASE Network(c) \/ Hash(c) \/ Authorize(c) \/ Add(c)
  BY <1>1, <1>2 DEF Network, Hash, Authorize, Add
<1>3. CASE Received(c)
  <2>1. \/ \E x : Reject(c, x)
        \/ call' = [call EXCEPT ![c] = [@ EXCEPT !.pc = "hash", !.config = gasConfig]]
    BY <1>3 DEF Received
  <2> QED
    BY <1>1, <2>1, RecordChanges
<1>4. CASE FullSimulate(c)
  <2>1. \E x : Fail(c, x) \/ call' = [call EXCEPT ![c] = [@ EXCEPT !.pc = "stakes", !.trace = x]]
    BY <1>4 DEF FullSimulate
  <2> QED
    BY <1>1, <2>1, RecordChanges
<1>5. CASE Stakes(c)
  <2>1. \E x : \/ Reject(c, x)
               \/ call' = [call EXCEPT ![c] =
                     [@ EXCEPT !.pc = "codeHash", !.trace = Null, !.result = x]]
    BY <1>5 DEF Stakes
  <2>2. ASSUME NEW x, call' = [call EXCEPT ![c] =
                        [@ EXCEPT !.pc = "codeHash", !.trace = Null, !.result = x]]
        PROVE  Changed(c)
    BY <2>2, RecordChanges
  <2> QED
    BY <1>1, <2>1, <2>2
<1>6. CASE CodeHash(c) \/ PartialSimulate(c)
  <2>1. \E x : Reject(c, x) \/ Checked(c, x)
    BY <1>6 DEF CodeHash, PartialSimulate
  <2>2. \E x : \/ Reject(c, x)
               \/ call' = [call EXCEPT ![c] = [@ EXCEPT !.pc = "add", !.result = x]]
    BY <2>1 DEF Checked
  <2> QED
    BY <1>1, <2>2, RecordChanges
<1>7. CASE EstimateInput(c)
  BY <1>1, <1>7 DEF EstimateInput
<1>8. CASE Estimate(c)
  <2>1. \E x : \/ Fail(c, x) \/ Throw(c, x)
               \/ call' = [call EXCEPT ![c] =
                     [@ EXCEPT !.pc = "answered", !.config = gasConfig, !.answer = x]]
    BY <1>8, EstimateOutcome
  <2>2. ASSUME NEW x, call' = [call EXCEPT ![c] =
                        [@ EXCEPT !.pc = "answered", !.config = gasConfig, !.answer = x]]
        PROVE  Changed(c)
    BY <2>2, RecordChanges
  <2> QED
    BY <1>1, <2>1, <2>2
<1> QED
  BY <1>2, <1>3, <1>4, <1>5, <1>6, <1>7, <1>8 DEF Proceed

LEMMA OtherReceipts ==
  ASSUME ReceiptInv, PriceInv', NEW c \in Calls, Proceed(c),
         ~ (Event(c) \/ FetchReceipt(c) \/ FetchByHash(c))
  PROVE  ReceiptInv'
<1>1. PICK r : call' = [call EXCEPT ![c] = r] /\ r.req = call[c].req
  BY OthersKeep DEF ReceiptInv, Changed
<1>2. ~ HasHash(call[c].req.method)
  <2>1. call[c].pc \in {"received", "network", "input", "estimate"} \cup Validating
    BY DEF Proceed, Network, Received, Hash, Authorize, FullSimulate, Stakes, CodeHash,
           PartialSimulate, Add, EstimateInput, Estimate, At, Validating
  <2>2. RecordOK(call[c])
    BY DEF ReceiptInv, PriceInv
  <2> QED
    BY <2>1, <2>2 DEF RecordOK, StepOf, HasHash, Validating
<1>3. RecordOK(r)
  <2>1. call'[c] = r
    BY <1>1 DEF ReceiptInv, PriceInv
  <2> QED
    BY <2>1 DEF PriceInv
<1>4. ReceiptOK(r)
  BY <1>1, <1>2, <1>3 DEF ReceiptOK, RecordOK, StepOf, HasHash
<1> QED
  BY <1>1, <1>4, OneReceipt

LEMMA LookUpReceipts ==
  ASSUME ReceiptInv, PriceInv', NEW c \in Calls,
         Event(c) \/ FetchReceipt(c) \/ FetchByHash(c)
  PROVE  ReceiptInv'
<1>1. RecordOK(call[c]) /\ ReceiptOK(call[c])
  BY DEF ReceiptInv, PriceInv
<1>2. CASE Event(c)
  <2>1. CASE call[c].req.hash \in DOMAIN Transactions /\ Goto(c, "fetch")
    <3> DEFINE r == [call[c] EXCEPT !.pc = "fetch"]
    <3>1. call' = [call EXCEPT ![c] = r]
      BY <2>1 DEF Goto
    <3>2. ReceiptOK(r)
      BY <1>1, <2>1 DEF ReceiptOK, RecordOK, Fields
    <3> HIDE DEF r
    <3> QED
      BY <3>1, <3>2, OneReceipt
  <2>2. CASE Answer(c, Result(Null))
    BY <2>2, ReceiptAnswer DEF Result
  <2> QED
    BY <1>2, <2>1, <2>2, ReceiptRefused DEF Event
<1>3. CASE FetchReceipt(c)
  <2> DEFINE res == FilterLogs(call[c].req.hash, Transaction(c).logs)
  <2>1. call[c].req.hash \in DOMAIN Transactions
    BY <1>1, <1>3 DEF FetchReceipt, At, ReceiptOK
  <2>2. \/ res.is = "right" /\ Answer(c, Result(res.value))
        \/ Fail(c, res) \/ Throw(c, "-32000")
    BY <1>3 DEF FetchReceipt
  <2>3. ASSUME res.is = "right", Answer(c, Result(res.value)) PROVE ReceiptInv'
    <3>1. res = Right(Result(res.value).value)
      BY <2>3 DEF FilterLogs, Left, Right, Result
    <3> QED
      BY <2>1, <2>3, <3>1, ReceiptAnswer
  <2> QED
    BY <2>2, <2>3, ReceiptRefused
<1>4. CASE FetchByHash(c)
  <2>1. call[c].req.method # "eth_getUserOperationReceipt"
    BY <1>4 DEF FetchByHash
  <2>2. \E x : Fail(c, x) \/ Throw(c, x) \/ Answer(c, x)
    BY <1>4 DEF FetchByHash
  <2> QED
    BY <2>1, <2>2, ReceiptRefused, ReceiptAnswer
<1> QED
  BY <1>2, <1>3, <1>4

LEMMA ArriveReceipts ==
  ASSUME ReceiptInv, PriceInv', NEW c \in Calls, NEW r \in Requests, Arrive(c, r)
  PROVE  ReceiptInv'
<1> DEFINE rec == call'[c]
<1>1. DOMAIN call[c] = Fields
  BY DEF ReceiptInv, PriceInv, RecordOK
<1>2. rec.req = r /\ call' = [call EXCEPT ![c] = rec]
  BY <1>1 DEF ReceiptInv, PriceInv, Arrive, Fields
<1>3. \/ /\ rec.pc = "answered"
         /\ \/ rec.answer.is = "error"
            \/ r.method \in DOMAIN ConstantAnswer
      \/ rec.pc = Handler(r.method) /\ r.method \in DOMAIN Arity \ DOMAIN ConstantAnswer
  <2>1. CASE \/ Failing(r) # {} \/ r.method \in DOMAIN ConstantAnswer
             \/ HasHash(r.method) /\ ~r.hexHash
    BY <1>1, <2>1 DEF ReceiptInv, PriceInv, Arrive, Fields, Error
  <2>2. CASE ~ (\/ Failing(r) # {} \/ r.method \in DOMAIN ConstantAnswer
                \/ HasHash(r.method) /\ ~r.hexHash)
    <3>1. rec.pc = Handler(r.method)
      BY <1>1, <2>2 DEF ReceiptInv, PriceInv, Arrive, Fields
    <3>2. r.method \in DOMAIN Arity
      BY <2>2 DEF Failing
    <3> QED
      BY <2>2, <3>1, <3>2
  <2> QED
    BY <2>1, <2>2
<1>4. ReceiptOK(rec)
  <2>1. CASE rec.pc = Handler(r.method) /\ r.method \in DOMAIN Arity \ DOMAIN ConstantAnswer
    <3>1. r.method \in {"eth_sendUserOperation", "eth_estimateUserOperationGas", "eth_chainId",
                       "eth_getUserOperationReceipt", "eth_getUserOperationByHash"}
      BY <2>1 DEF Arity, ConstantAnswer
    <3>2. Handler(r.method) \notin {"fetch", "answered"}
      BY <3>1 DEF Handler
    <3> HIDE DEF rec
    <3> QED
      BY <2>1, <3>2 DEF ReceiptOK
  <2>2. CASE rec.pc = "answered" /\ rec.answer.is = "error"
    <3> HIDE DEF rec
    <3> QED
      BY <2>2 DEF ReceiptOK
  <2>3. CASE rec.pc = "answered" /\ r.method \in DOMAIN ConstantAnswer
    <3> HIDE DEF rec
    <3> QED
      BY <1>2, <2>3 DEF ReceiptOK, ConstantAnswer
  <2> HIDE DEF rec
  <2> QED
    BY <1>3, <2>1, <2>2, <2>3
<1> HIDE DEF rec
<1> QED
  BY <1>2, <1>4, OneReceipt

LEMMA ReceiptStep == ReceiptInv /\ [Next]_vars => ReceiptInv'
<1> SUFFICES ASSUME ReceiptInv, [Next]_vars PROVE ReceiptInv'
  OBVIOUS
<1>1. PriceInv'
  BY PricedStep DEF ReceiptInv
<1>2. CASE UNCHANGED vars \/ Block \/ Tick \/ \E fields \in Updates : SetGasConfig(fields)
  <2>1. UNCHANGED call
    BY <1>2 DEF vars, Block, Tick, SetGasConfig
  <2> QED
    BY <1>1, <2>1 DEF ReceiptInv
<1>3. ASSUME NEW c \in Calls, NEW r \in Requests, Arrive(c, r) PROVE ReceiptInv'
  BY <1>1, <1>3, ArriveReceipts
<1>4. ASSUME NEW c \in Calls, Proceed(c) PROVE ReceiptInv'
  BY <1>1, <1>4, OtherReceipts, LookUpReceipts
<1> QED
  BY <1>2, <1>3, <1>4 DEF Next

\* Whatever bundle the operation was in: of a transaction with one handleOps,
\* filterLogs keeps every log of the operation's execution, and nothing of the
\* validation or of what comes after the operation's event.
THEOREM ReceiptsHaveOwnLogs == Spec => []ReceiptHasOwnLogs
<1>1. Init => ReceiptInv
  <2> SUFFICES ASSUME Init PROVE ReceiptInv
    OBVIOUS
  <2>1. \A c \in Calls : call[c].pc = "new"
    BY DEF Init, NewCall
  <2> QED
    BY <2>1, InitPriced DEF ReceiptInv, ReceiptOK
<1>2. ReceiptInv /\ [Next]_vars => ReceiptInv'
  BY ReceiptStep
<1>3. ReceiptInv => ReceiptHasOwnLogs
  <2> SUFFICES ASSUME ReceiptInv, NEW c \in Calls, HasReceipt(c),
                      OneBundle(Transaction(c).logs, call[c].req.hash)
               PROVE  LET logs == Transaction(c).logs
                          hash == call[c].req.hash
                          kept == call[c].answer.value
                      IN /\ \A i \in DOMAIN logs :
                              logs[i] = [kind |-> "log", hash |-> hash] => i \in kept
                         /\ \A i \in kept : \A j \in DOMAIN logs :
                              /\ logs[j].kind = "BeforeExecution" => j < i
                              /\ IsOwn(logs[j], hash) => i < j
    BY DEF ReceiptHasOwnLogs
  <2>1. /\ call[c].req.hash \in DOMAIN Transactions
        /\ FilterLogs(call[c].req.hash, Transaction(c).logs) = Right(call[c].answer.value)
    BY DEF ReceiptInv, ReceiptOK, At, HasReceipt, Transaction
  <2>2. Transaction(c).logs = Transactions[call[c].req.hash].logs
    BY DEF Transaction
  <2> QED
    BY <2>1, <2>2, OwnLogsFiltered
<1> QED
  BY <1>1, <1>2, <1>3, PTL DEF Spec

-----------------------------------------------------------------------------
(***************************************************************************)
(* The shape of the state.  Its point is the answer: every error has one   *)
(* of the codes that the API knows, whether a computation returned it or   *)
(* threw it, on whatever path.                                             *)
(***************************************************************************)
Known(a) == (\E v : a = Result(v)) \/ \E code \in Codes : a = Error(code)

Coded(res) == res.is # "right" => res.code \in Codes

KnownOK(r) ==
  /\ r.pc # "answered" => r.answer = Null
  /\ r.pc = "answered" => Known(r.answer)
  /\ r.pc = "stakes" => Coded(r.trace)
  /\ r.pc = "add" => r.result.validAfter \in Nat
  /\ r.pc = "new" => r.req = Null

KnownInv ==
  /\ \A c \in Calls : KnownOK(call[c])
  /\ \A e \in pool : e.result.validAfter \in Nat

LEMMA OneKnown ==
  ASSUME IInv, KnownInv, NEW c \in Calls, NEW r, call' = [call EXCEPT ![c] = r],
         KnownOK(r), pool' = pool
  PROVE  KnownInv'
<1>1. DOMAIN call = Calls
  BY DEF IInv
<1>2. \A d \in Calls : call'[d] = call[d] \/ call'[d] = r
  BY <1>1
<1>3. \A d \in Calls : KnownOK(call'[d])
  BY <1>2 DEF KnownInv
<1> QED
  BY <1>3 DEF KnownInv, KnownOK, Known, Coded, Error, Result, Codes

LEMMA AnswerKnown ==
  ASSUME IInv, KnownInv, NEW c \in Calls, NEW a, Answer(c, a), Known(a), pool' = pool
  PROVE  KnownInv'
<1> DEFINE r == [call[c] EXCEPT !.pc = "answered", !.answer = a]
<1>1. DOMAIN call[c] = Fields /\ call' = [call EXCEPT ![c] = r]
  BY DEF IInv, CallOK, Answer
<1>2. r.pc = "answered" /\ r.answer = a
  BY <1>1 DEF Fields
<1> HIDE DEF r
<1>3. KnownOK(r)
  BY <1>2 DEF KnownOK
<1> QED
  BY <1>1, <1>3, OneKnown

LEMMA RefusalKnown ==
  ASSUME IInv, KnownInv, NEW c \in Calls, NEW e, Fail(c, e) \/ Reject(c, e),
         e.code \in Codes, pool' = pool
  PROVE  KnownInv'
<1>1. Answer(c, Error(e.code))
  BY DEF Fail, Reject, Throw
<1> QED
  BY <1>1, AnswerKnown DEF Known

LEMMA ThrowKnown ==
  ASSUME IInv, KnownInv, NEW c \in Calls, NEW code \in Codes, Throw(c, code), pool' = pool
  PROVE  KnownInv'
BY AnswerKnown DEF Throw, Known

\* A call that is not over goes on to a step that needs nothing known.
LEMMA GotoKnown ==
  ASSUME IInv, KnownInv, NEW c \in Calls, NEW pc, Goto(c, pc), ~ At(c, "answered"),
         pc \notin {"new", "answered", "stakes", "add"}, pool' = pool
  PROVE  KnownInv'
<1> DEFINE r == [call[c] EXCEPT !.pc = pc]
<1>1. DOMAIN call[c] = Fields /\ call' = [call EXCEPT ![c] = r]
  BY DEF IInv, CallOK, Goto
<1>2. r.pc = pc /\ r.answer = call[c].answer
  BY <1>1 DEF Fields
<1> HIDE DEF r
<1>3. KnownOK(r)
  BY <1>2 DEF KnownInv, KnownOK, At
<1> QED
  BY <1>1, <1>3, OneKnown

LEMMA InputCodes ==
  ASSUME NEW r, NEW checkGas, NEW eip7702Support, NEW config
  PROVE  Coded(ValidateInputParameters(r, checkGas, eip7702Support, config))
<1> DEFINE res == ValidateInputParameters(r, checkGas, eip7702Support, config)
<1>1. \/ res \in {Left("InvalidFields"), Throws("-32000"), Throws("InvalidFields")}
      \/ res = Right(r.op)
  <2>1. CASE r.entryPoint = ""
    BY <2>1 DEF ValidateInputParameters
  <2>2. CASE r.entryPoint # "" /\ r.op = Null
    BY <2>2 DEF ValidateInputParameters
  <2>3. CASE r.entryPoint # "" /\ r.op # Null
    BY <2>3 DEF ValidateInputParameters
  <2> QED
    BY <2>1, <2>2, <2>3
<1> HIDE DEF res
<1>2. Coded(res)
  BY <1>1 DEF Coded, Left, Throws, Right, Codes
<1> QED
  BY <1>2 DEF res

LEMMA ArriveKnown ==
  ASSUME IInv, KnownInv, NEW c \in Calls, NEW r \in Requests, Arrive(c, r)
  PROVE  KnownInv'
<1> DEFINE rec == call'[c]
<1>1. DOMAIN call[c] = Fields /\ call[c].answer = Null /\ pool' = pool
  BY DEF IInv, CallOK, KnownInv, KnownOK, Arrive, At
<1>2. call' = [call EXCEPT ![c] = rec]
  BY DEF IInv, Arrive
<1>3. /\ Known(Error("InvalidFields"))
      /\ \A check : Known(Error(MiddlewareCode(check)))
      /\ \A v : Known(Result(v))
  BY DEF Known, MiddlewareCode, Codes
<1>4. CASE /\ Failing(r) = {} /\ r.method \notin DOMAIN ConstantAnswer
           /\ rec = [call[c] EXCEPT !.req = r, !.pc = Handler(r.method)]
  <2>1. r.method \in DOMAIN Arity
    BY <1>4 DEF Failing
  <2>2. Handler(r.method) \in {"received", "input", "event", "network"}
    BY <1>4, <2>1 DEF Arity, ConstantAnswer, Handler
  <2>3. rec.pc = Handler(r.method) /\ rec.answer = Null
    BY <1>1, <1>4 DEF Fields
  <2> HIDE DEF rec
  <2>4. KnownOK(rec)
    BY <2>2, <2>3 DEF KnownOK
  <2> QED
    BY <1>1, <1>2, <2>4, OneKnown
<1>5. \/ /\ Failing(r) = {} /\ r.method \notin DOMAIN ConstantAnswer
         /\ rec = [call[c] EXCEPT !.req = r, !.pc = Handler(r.method)]
      \/ \E a : /\ Known(a)
                /\ rec = [call[c] EXCEPT !.req = r, !.pc = "answered", !.answer = a]
  <2> DEFINE Answered(a) == [call[c] EXCEPT !.req = r, !.pc = "answered", !.answer = a]
  <2>1. CASE Failing(r) # {}
    <3>1. rec = Answered(Error(MiddlewareCode(FirstFailing(Failing(r)))))
      BY <2>1 DEF IInv, Arrive
    <3> HIDE DEF rec
    <3> QED
      BY <1>3, <3>1
  <2>2. CASE Failing(r) = {} /\ r.method \in DOMAIN ConstantAnswer
    <3>1. rec = Answered(Result(ConstantAnswer[r.method]))
      BY <2>2 DEF IInv, Arrive
    <3> HIDE DEF rec
    <3> QED
      BY <1>3, <3>1
  <2>3. CASE Failing(r) = {} /\ r.method \notin DOMAIN ConstantAnswer
    <3>1. \/ rec = Answered(Error("InvalidFields"))
          \/ rec = [call[c] EXCEPT !.req = r, !.pc = Handler(r.method)]
      BY <2>3 DEF IInv, Arrive
    <3> HIDE DEF rec
    <3> QED
      BY <1>3, <2>3, <3>1
  <2> QED
    BY <2>1, <2>2, <2>3
<1>6. ASSUME NEW a, Known(a), rec = [call[c] EXCEPT !.req = r, !.pc = "answered", !.answer = a]
      PROVE  KnownInv'
  <2>1. rec.pc = "answered" /\ rec.answer = a
    BY <1>1, <1>6 DEF Fields
  <2> HIDE DEF rec
  <2>2. KnownOK(rec)
    BY <1>6, <2>1 DEF KnownOK
  <2> QED
    BY <1>1, <1>2, <2>2, OneKnown
<1> QED
  BY <1>4, <1>5, <1>6

LEMMA InputKnown ==
  ASSUME IInv, KnownInv, NEW c \in Calls, Received(c) \/ EstimateInput(c)
  PROVE  KnownInv'
<1>1. pool' = pool /\ ~ At(c, "answered") /\ DOMAIN call[c] = Fields
  BY DEF Received, EstimateInput, At, IInv, CallOK
<1>2. CASE Received(c)
  <2> DEFINE res == ValidateInputParameters(call[c].req, TRUE, options.eip7702Support,
                                            gasConfig)
             r == [call[c] EXCEPT !.pc = "hash", !.config = gasConfig]
  <2>1. Coded(res)
    BY InputCodes
  <2>2. \/ call' = [call EXCEPT ![c] = r]
        \/ res.is # "right" /\ Reject(c, res)
    BY <1>2 DEF Received
  <2>3. CASE call' = [call EXCEPT ![c] = r]
    <3>1. r.pc = "hash" /\ r.answer = call[c].answer
      BY <1>1 DEF Fields
    <3> HIDE DEF r
    <3>2. KnownOK(r)
      BY <1>1, <3>1 DEF KnownInv, KnownOK, At
    <3> QED
      BY <1>1, <2>3, <3>2, OneKnown
  <2>4. CASE res.is # "right" /\ Reject(c, res)
    <3> HIDE DEF res
    <3> QED
      BY <1>1, <2>1, <2>4, RefusalKnown DEF Coded
  <2> QED
    BY <2>2, <2>3, <2>4
<1>3. CASE EstimateInput(c)
  <2> DEFINE r == call[c].req
             res == IF r.op = Null THEN Left("InvalidFields")
                    ELSE ValidateInputParameters(r, FALSE, options.eip7702Support, gasConfig)
  <2>1. Coded(res)
    BY InputCodes DEF Coded, Left, Codes
  <2>2. \/ Goto(c, "estimate")
        \/ res.is # "right" /\ Fail(c, res)
    BY <1>3 DEF EstimateInput
  <2> HIDE DEF res
  <2> QED
    BY <1>1, <2>1, <2>2, GotoKnown, RefusalKnown DEF Coded
<1> QED
  BY <1>2, <1>3

LEMMA NodeKnown ==
  ASSUME IInv, KnownInv, NEW c \in Calls, Network(c) \/ Hash(c) \/ Authorize(c)
  PROVE  KnownInv'
<1>1. pool' = pool /\ ~ At(c, "answered")
  BY DEF Network, Hash, Authorize, At
<1>2. /\ Throws("InvalidFields").code \in Codes /\ Throws("-32000").code \in Codes
      /\ "-32000" \in Codes
      /\ \A e \in Send("eth_call") : e.is # "right" => e.code \in Codes
      /\ Known(Result("chainId"))
  BY DEF Throws, Send, Left, Right, Codes, Known
<1>3. \/ Answer(c, Result("chainId")) \/ Throw(c, "-32000")
      \/ \E pc \in {"simulate", "authorize"} : Goto(c, pc)
      \/ \E e : e.code \in Codes /\ Reject(c, e)
  BY <1>2 DEF Network, Hash, Authorize
<1> QED
  BY <1>1, <1>2, <1>3, AnswerKnown, ThrowKnown, GotoKnown, RefusalKnown

LEMMA FullSimulateKnown ==
  ASSUME IInv, KnownInv, NEW c \in Calls, FullSimulate(c)
  PROVE  KnownInv'
<1>1. pool' = pool /\ DOMAIN call[c] = Fields /\ call[c].answer = Null
  BY DEF FullSimulate, At, IInv, CallOK, KnownInv, KnownOK
<1>2. PICK res \in DebugTraceCall(Op(c)) :
        IF res.is = "throws" THEN Fail(c, res)
        ELSE call' = [call EXCEPT ![c] = [@ EXCEPT !.pc = "stakes", !.trace = res]]
  BY DEF FullSimulate
<1>3. Coded(res)
  BY DEF DebugTraceCall, Right, Left, Throws, Coded, Codes
<1>4. CASE res.is = "throws"
  BY <1>1, <1>2, <1>3, <1>4, RefusalKnown DEF Coded
<1>5. CASE res.is # "throws"
  <2> DEFINE r == [call[c] EXCEPT !.pc = "stakes", !.trace = res]
  <2>1. call' = [call EXCEPT ![c] = r]
    BY <1>2, <1>5
  <2>2. r.pc = "stakes" /\ r.trace = res /\ r.answer = Null
    BY <1>1 DEF Fields
  <2> HIDE DEF r
  <2>3. KnownOK(r)
    BY <1>3, <2>2 DEF KnownOK
  <2> QED
    BY <1>1, <2>1, <2>3, OneKnown
<1> QED
  BY <1>4, <1>5

LEMMA StakesKnown ==
  ASSUME IInv, KnownInv, NEW c \in Calls, Stakes(c)
  PROVE  KnownInv'
<1> DEFINE op == Op(c)
           reverted == IF call[c].trace.is = "right"
                       THEN ParseTracerResultCallsForRevert(call[c].trace.value)
                       ELSE call[c].trace
           result == IF reverted.is = "right"
                     THEN GenerateValidationResult(op, reverted.value, chain) ELSE reverted
           parsed == IF result.is = "right" THEN ParseTracerResult(op, chain) ELSE result
           r == [call[c] EXCEPT !.pc = "codeHash", !.trace = Null, !.result = result.value]
<1>1. /\ pool' = pool /\ DOMAIN call[c] = Fields /\ call[c].answer = Null
      /\ Coded(call[c].trace)
  BY DEF Stakes, At, IInv, CallOK, KnownInv, KnownOK
<1>2. Coded(reverted)
  <2>1. ParseTracerResultCallsForRevert(call[c].trace.value)
          \in {Right(call[c].trace.value), Left("InvalidSignature"),
              Left("SimulateValidation")}
    BY DEF ParseTracerResultCallsForRevert
  <2>2. Coded(ParseTracerResultCallsForRevert(call[c].trace.value))
    BY <2>1 DEF Left, Right, Coded, Codes
  <2> QED
    BY <1>1, <2>2
<1>3. Coded(result)
  <2>1. Coded(GenerateValidationResult(op, reverted.value, chain))
    BY DEF GenerateValidationResult, DecodeErrorReason, Left, Right, Throws, Coded, Codes
  <2> HIDE DEF reverted
  <2> QED
    BY <1>2, <2>1
<1>4. Coded(parsed)
  <2>1. Coded(ParseTracerResult(op, chain))
    BY DEF ParseTracerResult, Left, Right, Coded, Codes
  <2> HIDE DEF result
  <2> QED
    BY <1>3, <2>1
<1>5. \/ call' = [call EXCEPT ![c] = r]
      \/ parsed.is # "right" /\ Reject(c, parsed)
      \/ Reject(c, Throws("-32000"))
  BY DEF Stakes
<1>6. CASE call' = [call EXCEPT ![c] = r]
  <2>1. r.pc = "codeHash" /\ r.answer = Null
    BY <1>1 DEF Fields
  <2> HIDE DEF r
  <2>2. KnownOK(r)
    BY <2>1 DEF KnownOK
  <2> QED
    BY <1>1, <1>6, <2>2, OneKnown
<1>7. CASE parsed.is # "right" /\ Reject(c, parsed)
  <2> HIDE DEF parsed
  <2> QED
    BY <1>1, <1>4, <1>7, RefusalKnown DEF Coded
<1>8. CASE Reject(c, Throws("-32000"))
  <2>1. Throws("-32000").code \in Codes
    BY DEF Throws, Codes
  <2> QED
    BY <1>1, <1>8, <2>1, RefusalKnown
<1> QED
  BY <1>5, <1>6, <1>7, <1>8

LEMMA CheckedKnown ==
  ASSUME IInv, KnownInv, NEW c \in Calls, NEW result, Checked(c, result),
         ~ At(c, "answered"), pool' = pool, RangeOf(Op(c), result)
  PROVE  KnownInv'
<1> DEFINE res == CheckValidationResult(result)
           r == [call[c] EXCEPT !.pc = "add", !.result = result]
<1>1. Coded(res)
  BY DEF CheckValidationResult, Left, Right, Throws, Coded, Codes
<1>2. DOMAIN call[c] = Fields /\ call[c].answer = Null
  BY DEF IInv, CallOK, KnownInv, KnownOK, At
<1>3. CASE res.is = "right"
  <2>1. call' = [call EXCEPT ![c] = r]
    BY <1>3 DEF Checked
  <2>2. r.pc = "add" /\ r.answer = Null /\ r.result = result
    BY <1>2 DEF Fields
  <2> HIDE DEF r
  <2>3. KnownOK(r)
    BY <2>2 DEF KnownOK, RangeOf
  <2> QED
    BY <2>1, <2>3, OneKnown
<1>4. CASE res.is # "right"
  <2>1. Reject(c, res)
    BY <1>4 DEF Checked
  <2> HIDE DEF res
  <2> QED
    BY <1>1, <1>4, <2>1, RefusalKnown DEF Coded
<1> QED
  BY <1>3, <1>4

LEMMA SimulatedKnown ==
  ASSUME IInv, KnownInv, NEW c \in Calls, CodeHash(c) \/ PartialSimulate(c)
  PROVE  KnownInv'
<1>1. ~ At(c, "answered") /\ pool' = pool
  BY DEF CodeHash, PartialSimulate, At
<1>2. CASE CodeHash(c)
  <2>1. RangeOf(Op(c), call[c].result)
    BY <1>2 DEF IInv, CallOK, CodeHash
  <2>2. \A res \in RunContractScript : Coded(res)
    BY DEF RunContractScript, Right, Throws, Coded, Codes
  <2>3. Checked(c, call[c].result) \/ \E e : e.code \in Codes /\ Reject(c, e)
    BY <1>2, <2>2 DEF CodeHash, Coded
  <2> QED
    BY <1>1, <2>1, <2>3, CheckedKnown, RefusalKnown
<1>3. CASE PartialSimulate(c)
  <2>1. Op(c) # Null /\ call[c].req \in Requests
    BY <1>3 DEF PartialSimulate, At, IInv, CallOK, Validating
  <2>2. PICK outcome \in SimulationOutcomes :
          LET res == PartialSimulateValidation(Op(c), outcome)
          IN IF res.is = "right" THEN Checked(c, res.value) ELSE Reject(c, res)
    BY <1>3 DEF PartialSimulate
  <2> DEFINE res == PartialSimulateValidation(Op(c), outcome)
  <2>3. \/ res = Right(ParseSimulateValidationResult(Op(c)))
        \/ res \in {Throws("-32000"), Left("SimulateValidation")}
    BY DEF PartialSimulateValidation
  <2>4. CASE res.is = "right"
    <3>1. res.value = ParseSimulateValidationResult(Op(c))
      BY <2>3, <2>4 DEF Left, Throws, Right
    <3>2. RangeOf(Op(c), res.value) /\ Checked(c, res.value)
      BY <2>1, <2>2, <2>4, <3>1, PartialRange DEF Op
    <3> HIDE DEF res
    <3> QED
      BY <1>1, <3>2, CheckedKnown
  <2>5. CASE res.is # "right"
    <3>1. Reject(c, res)
      BY <2>2, <2>5
    <3> HIDE DEF res
    <3>2. res.code \in Codes
      BY <2>3, <2>5 DEF Left, Throws, Right, Codes
    <3> QED
      BY <1>1, <3>1, <3>2, RefusalKnown
  <2> QED
    BY <2>4, <2>5
<1> QED
  BY <1>2, <1>3

LEMMA AddKnown ==
  ASSUME IInv, KnownInv, NEW c \in Calls, Add(c)
  PROVE  KnownInv'
<1> DEFINE Refused == pool' = pool /\ \E e : Reject(c, e) /\ e.code \in Codes
<1>1. CASE Refused
  BY <1>1, RefusalKnown
<1>3. ~ Refused =>
        /\ Answer(c, Result("userOpHash"))
        /\ pool' = pool \cup {[call |-> c, op |-> Op(c), result |-> call[c].result,
                               config |-> call[c].config]}
  <2>1. /\ \A code \in {"InvalidFields", "OpcodeValidation"} : Left(code).code \in Codes
        /\ \A code \in AddThrows : Throws(code).code \in Codes
    BY DEF Left, Throws, AddThrows, Codes
  <2> QED
    BY <2>1 DEF Add
<1> HIDE DEF Refused
<1>2. CASE ~ Refused
  <2> DEFINE r == [call[c] EXCEPT !.pc = "answered", !.answer = Result("userOpHash")]
  <2>1. /\ DOMAIN call = Calls /\ DOMAIN call[c] = Fields
        /\ call' = [call EXCEPT ![c] = r]
    BY <1>2, <1>3 DEF IInv, CallOK, Answer
  <2>2. r.pc = "answered" /\ r.answer = Result("userOpHash")
    BY <2>1 DEF Fields
  <2> HIDE DEF r
  <2>3. KnownOK(r)
    BY <2>2 DEF KnownOK, Known
  <2>4. \A d \in Calls : KnownOK(call'[d])
    BY <2>1, <2>3 DEF KnownInv
  <2>5. \A e \in pool' : e.result.validAfter \in Nat
    <3>1. call[c].result.validAfter \in Nat
      BY DEF Add, At, KnownInv, KnownOK
    <3>2. pool' = pool \cup {[call |-> c, op |-> Op(c), result |-> call[c].result,
                              config |-> call[c].config]}
      BY <1>2, <1>3
    <3> QED
      BY <3>1, <3>2 DEF KnownInv
  <2> QED
    BY <2>4, <2>5 DEF KnownInv, KnownOK, Known, Coded, Error, Result, Codes
<1> QED
  BY <1>1, <1>2

LEMMA EstimateKnown ==
  ASSUME IInv, KnownInv, NEW c \in Calls, Estimate(c)
  PROVE  KnownInv'
<1>1. pool' = pool /\ DOMAIN call[c] = Fields
  BY DEF Estimate, IInv, CallOK
<1>2. /\ \A e \in SimulationOutcomes : Coded(SimulateHandleOp(e))
      /\ \A g \in {"result", "AA23", "garbage"} : Coded(EstimateCallGas(g))
  <2>1. \A e \in SimulationOutcomes : SimulateHandleOp(e) \in
          {Right("preOpGas"), Throws("-32000"), Left("InvalidSignature"),
           Left("SimulateValidation")}
    BY DEF SimulateHandleOp
  <2>2. \A g \in {"result", "AA23", "garbage"} : EstimateCallGas(g) \in
          {Right("callGas"), Left("UserOperationReverted"), Throws("-32000")}
    BY DEF EstimateCallGas
  <2>3. /\ \A v : Coded(Right(v))
        /\ \A code \in Codes : Coded(Left(code)) /\ Coded(Throws(code))
        /\ {"-32000", "InvalidSignature", "SimulateValidation",
            "UserOperationReverted"} \subseteq Codes
    BY DEF Left, Right, Throws, Coded, Codes
  <2> QED
    BY <2>1, <2>2, <2>3
<1>3. PICK e \in SimulationOutcomes, g \in {"result", "AA23", "garbage"} :
        LET execution == SimulateHandleOp(e)
            callGas == EstimateCallGas(g)
        IN
        CASE "throws" \in {execution.is, callGas.is} -> Throw(c, "-32000")
          [] "throws" \notin {execution.is, callGas.is} /\ callGas.is = "left" ->
               Fail(c, callGas)
          [] callGas.is = "right" /\ execution.is = "left" -> Fail(c, execution)
          [] callGas.is = "right" /\ execution.is = "right" ->
               call' = [call EXCEPT ![c] =
                 [@ EXCEPT !.pc = "answered", !.config = gasConfig,
                           !.answer = SuccessResponse(
                             EstimatePreVerificationGas(Op(c), gasConfig))]]
  BY DEF Estimate
<1>4. /\ SimulateHandleOp(e).is \in {"left", "right", "throws"}
      /\ EstimateCallGas(g).is \in {"left", "right", "throws"}
  BY DEF SimulateHandleOp, EstimateCallGas, Left, Right, Throws
<1>5. \/ Throw(c, "-32000")
      \/ \E x : x.code \in Codes /\ Fail(c, x)
      \/ \E a : /\ Known(a)
                /\ call' = [call EXCEPT ![c] =
                     [@ EXCEPT !.pc = "answered", !.config = gasConfig, !.answer = a]]
  <2>1. \A x : Known(SuccessResponse(x))
    BY DEF SuccessResponse, Known, Codes
  <2> QED
    BY <1>2, <1>3, <1>4, <2>1 DEF Coded
<1>6. "-32000" \in Codes
  BY DEF Codes
<1>7. ASSUME NEW a, Known(a), call' = [call EXCEPT ![c] =
               [@ EXCEPT !.pc = "answered", !.config = gasConfig, !.answer = a]]
      PROVE  KnownInv'
  <2> DEFINE r == [call[c] EXCEPT !.pc = "answered", !.config = gasConfig, !.answer = a]
  <2>1. call' = [call EXCEPT ![c] = r]
    BY <1>7
  <2>2. r.pc = "answered" /\ r.answer = a
    BY <1>1 DEF Fields
  <2> HIDE DEF r
  <2>3. KnownOK(r)
    BY <1>7, <2>2 DEF KnownOK
  <2> QED
    BY <1>1, <2>1, <2>3, OneKnown
<1> QED
  BY <1>1, <1>5, <1>6, <1>7, ThrowKnown, RefusalKnown

LEMMA LookUpKnown ==
  ASSUME IInv, KnownInv, NEW c \in Calls, Event(c) \/ FetchReceipt(c) \/ FetchByHash(c)
  PROVE  KnownInv'
<1>1. ~ At(c, "answered") /\ pool' = pool
  BY DEF Event, FetchReceipt, FetchByHash, At
<1>2. /\ Left("-32000").code \in Codes /\ "-32000" \in Codes
      /\ \A v : Known(Result(v))
      /\ \A hash, logs : Coded(FilterLogs(hash, logs))
  BY DEF Left, Right, Codes, Known, FilterLogs, Coded
<1>3. \/ Goto(c, "fetch") \/ Throw(c, "-32000")
      \/ \E v : Answer(c, Result(v))
      \/ \E e : e.code \in Codes /\ Fail(c, e)
  BY <1>2 DEF Event, FetchReceipt, FetchByHash, Coded
<1> QED
  BY <1>1, <1>2, <1>3, GotoKnown, ThrowKnown, AnswerKnown, RefusalKnown

LEMMA KnownStep == IInv /\ KnownInv /\ [Next]_vars => KnownInv'
<1> SUFFICES ASSUME IInv, KnownInv, [Next]_vars PROVE KnownInv'
  OBVIOUS
<1>1. CASE UNCHANGED vars \/ Block \/ Tick \/ \E fields \in Updates : SetGasConfig(fields)
  <2>1. UNCHANGED <<call, pool>>
    BY <1>1 DEF vars, Block, Tick, SetGasConfig
  <2> QED
    BY <2>1 DEF KnownInv, KnownOK, Known, Coded, Error, Result, Codes
<1>2. ASSUME NEW c \in Calls, NEW r \in Requests, Arrive(c, r) PROVE KnownInv'
  BY <1>2, ArriveKnown
<1>3. ASSUME NEW c \in Calls, Proceed(c) PROVE KnownInv'
  BY <1>3, InputKnown, NodeKnown, FullSimulateKnown, StakesKnown, SimulatedKnown,
     AddKnown, EstimateKnown, LookUpKnown DEF Proceed
<1> QED
  BY <1>1, <1>2, <1>3 DEF Next

\* The clock and the chain stay within their bounds.
WorldOK == chain \in BOOLEAN /\ blocks \in 0 .. MaxBlocks /\ now \in 0 .. MaxTime

LEMMA WorldOKStep == WorldOK /\ [Next]_vars => WorldOK'
<1> SUFFICES ASSUME WorldOK, [Next]_vars PROVE WorldOK'
  OBVIOUS
<1>1. MaxBlocks \in Nat /\ MaxTime \in Nat
  BY RequestAssumption
<1>2. CASE Block
  <2>1. chain' \in BOOLEAN
    BY <1>2 DEF Block
  <2>2. blocks' \in 0 .. MaxBlocks /\ now' \in 0 .. MaxTime
    BY <1>1, <1>2 DEF Block, WorldOK
  <2> QED
    BY <2>1, <2>2 DEF WorldOK
<1>3. CASE Tick
  <2>1. chain' \in BOOLEAN
    BY <1>3 DEF Tick, WorldOK
  <2>2. blocks' \in 0 .. MaxBlocks /\ now' \in 0 .. MaxTime
    BY <1>1, <1>3 DEF Tick, WorldOK
  <2> QED
    BY <2>1, <2>2 DEF WorldOK
<1>4. CASE UNCHANGED <<chain, blocks, now>>
  BY <1>4 DEF WorldOK
<1>5. (\E c \in Calls : Proceed(c)) => UNCHANGED <<chain, blocks, now>>
  <2> SUFFICES ASSUME NEW c \in Calls, Proceed(c) PROVE UNCHANGED <<chain, blocks, now>>
    OBVIOUS
  <2>1. CASE Network(c) \/ Received(c) \/ Hash(c) \/ Authorize(c)
    BY <2>1 DEF Network, Received, Hash, Authorize, Environment
  <2>2. CASE FullSimulate(c) \/ Stakes(c)
    BY <2>2 DEF FullSimulate, Stakes, Environment
  <2>3. CASE CodeHash(c) \/ PartialSimulate(c) \/ Add(c)
    BY <2>3 DEF CodeHash, PartialSimulate, Add, Environment
  <2>4. CASE EstimateInput(c) \/ Estimate(c)
    BY <2>4 DEF EstimateInput, Estimate, Environment
  <2>5. CASE Event(c) \/ FetchReceipt(c) \/ FetchByHash(c)
    BY <2>5 DEF Event, FetchReceipt, FetchByHash, Environment
  <2> QED
    BY <2>1, <2>2, <2>3, <2>4, <2>5 DEF Proceed
<1> QED
  BY <1>2, <1>3, <1>4, <1>5 DEF Next, vars, Arrive, SetGasConfig

\* No answer is the value that stands for none.
NullIsNoAnswer == \A v : Null \notin {Result(v), Error(v)}

\* The shape of the state (TypeOK): a call is answered exactly when it is over, and
\* an error has a code of the API, returned or thrown (rpc/rpc-handler.ts).
THEOREM ErrorsHaveCodes ==
  ASSUME NullIsNoAnswer
  PROVE  Spec => []TypeOK
<1>1. Init => KnownInv /\ WorldOK
  <2> SUFFICES ASSUME Init PROVE KnownInv /\ WorldOK
    OBVIOUS
  <2>1. \A c \in Calls : call[c] = NewCall
    BY DEF Init
  <2>2. KnownOK(NewCall)
    BY DEF KnownOK, NewCall
  <2>3. KnownInv
    BY <2>1, <2>2 DEF Init, KnownInv
  <2>4. WorldOK
    BY RequestAssumption DEF Init, WorldOK
  <2> QED
    BY <2>3, <2>4
<1>2. Init => AgreeInv /\ PriceInv
  BY AgreeInit, InitPriced
<1>3. AgreeInv /\ PriceInv /\ KnownInv /\ WorldOK /\ IInv /\ [Next]_vars
        => AgreeInv' /\ PriceInv' /\ KnownInv' /\ WorldOK'
  BY AgreeStep, PricedStep, KnownStep, WorldOKStep
<1>4. AgreeInv /\ PriceInv /\ KnownInv /\ WorldOK /\ IInv => TypeOK
  <2> SUFFICES ASSUME AgreeInv, PriceInv, KnownInv, WorldOK, IInv PROVE TypeOK
    OBVIOUS
  <2>1. gasConfig \in GasConfig /\ WorldOK
    BY DEF PriceInv
  <2>2. ASSUME NEW c \in Calls
        PROVE  /\ call[c].req \in Requests \cup {Null}
               /\ (call[c].answer = Null) <=> ~At(c, "answered")
               /\ trail[c] \in Trails
               /\ (call[c].answer # Null /\ call[c].answer.is = "error") =>
                    call[c].answer.value \in Codes
    <3>1. KnownOK(call[c]) /\ trail[c] \in Trails
      BY DEF KnownInv, AgreeInv
    <3>2. call[c].req \in Requests \cup {Null}
      BY <3>1 DEF KnownOK, IInv, CallOK, At
    <3>3. At(c, "answered") => Known(call[c].answer)
      BY <3>1 DEF KnownOK, At
    <3>4. \A a : Known(a) => a # Null /\ (a.is = "error" => a.value \in Codes)
      BY DEF Known, NullIsNoAnswer, Result, Error
    <3>5. ~At(c, "answered") => call[c].answer = Null
      BY <3>1 DEF KnownOK, At
    <3> QED
      BY <3>1, <3>2, <3>3, <3>4, <3>5
  <2>3. ASSUME NEW e \in pool PROVE e.call \in Calls /\ e.result.validAfter \in Nat
    BY DEF IInv, KnownInv
  <2> QED
    BY <2>1, <2>2, <2>3
    DEF TypeOK, WorldOK, Trails, ReceivedOnly, ThenRejected, ThenIncluded
<1> QED
  BY <1>1, <1>2, <1>3, <1>4, InvHolds, PTL DEF Spec

=============================================================================
