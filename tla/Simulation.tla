----------------------------- MODULE Simulation -----------------------------
(***************************************************************************)
(* The simulator (src/src/sim/sim.ts, sim.helper.ts): how the answer of    *)
(* the Ethereum node to a simulated operation becomes a validation result. *)
(*                                                                         *)
(* A computation is Right(value), Left(code), or Throws(code): code that   *)
(* returns an Either may also throw, and nothing between here and the RPC  *)
(* server catches that.  A trace of handleOps is the reason it reverted    *)
(* with (Null: it has no output) and the calls of the entry point in their *)
(* order, each with the callee and how it returned.                        *)
(***************************************************************************)
EXTENDS UserOps

CONSTANTS MaxUint48

ASSUME MaxUint48Assumption == MaxUint48 \in Nat

Right(value) == [is |-> "right", value |-> value]
Left(code) == [is |-> "left", code |-> code]
Throws(code) == [is |-> "throws", code |-> code]

-----------------------------------------------------------------------------
(* external: EntryPoint.handleOps *)

Call(to) == [to |-> to, returned |-> "yes"]

\* The calls of a handleOps that validates and executes op.
HandleOpsCalls(op) ==
  LET creates == op.factory # Null /\ (op.factory = Marker => Bytes(op.factoryData) # <<>>)
  IN (IF creates THEN <<Call("factory")>> ELSE <<>>)
       \o <<Call("account")>>
       \o (IF op.paymaster # Null THEN <<Call("paymaster")>> ELSE <<>>)
       \o <<Call("inner")>>

\* The trace stops in the n-th call: out of gas, and no output at all.
Cut(calls, n) ==
  [output |-> Null, calls |-> SubSeq(calls, 1, n - 1)
                                \o <<[calls[n] EXCEPT !.returned = "no"]>>]

\* Traces of an operation with a good signature, and those of a failure.
Traces(op) ==
  LET calls == HandleOpsCalls(op)
  IN {[output |-> reason, calls |-> calls] : reason \in {"AA90", "AA95"}}
       \cup {Cut(calls, n) : n \in 1 .. Len(calls)}
       \cup {[output |-> Null, calls |-> SubSeq(calls, 1, Len(calls) - 1)]}
       \cup {[output |-> "AA90", calls |->
                 [n \in DOMAIN calls |->
                    IF calls[n].to = "paymaster" THEN [calls[n] EXCEPT !.returned = "malformed"]
                    ELSE calls[n]]]}
       \cup {[output |-> reason, calls |-> <<>>] : reason \in {"AA24", "AA34", "AA23", "custom"}}

\* The provider service: what its calls may come back as.  The body of a failed
\* debug_traceCall is parsed as JSON without a guard.
DebugTraceCall(op) ==
  {Right(trace) : trace \in Traces(op)} \cup {Left("InternalError"), Throws("-32000")}
RunContractScript == {Right("hash"), Throws("InternalError")}
Send(method) == {Right(method), Left("InternalError")}

-----------------------------------------------------------------------------
(* Reverts *)

KnownReverts == {"AA23", "AA24", "AA34", "AA90", "AA95"}

\* The text of the errors of the entry point, the paymaster and the account;
\* another error stays as it is, or is null.
DecodeRevertReason(data, nullIfNoMatch) ==
  IF data \in KnownReverts THEN data ELSE IF nullIfNoMatch THEN Null ELSE data

\* It reads the data of an error of ethers, and throws on one without.
DecodeErrorReason == Throws("-32000")

-----------------------------------------------------------------------------
(* Time ranges and aggregators *)

\* What an account or a paymaster returns; a deadline of 0 means none.
ValidationData ==
  [aggregator : STRING, validAfter : 0 .. MaxUint48, validUntil : 0 .. MaxUint48]

ParseValidationData(data) ==
  IF data.validUntil = 0 THEN [data EXCEPT !.validUntil = MaxUint48] ELSE data

NoValidationData == [aggregator |-> "zero", validAfter |-> 0, validUntil |-> MaxUint48]

Later(a, b) == IF a >= b THEN a ELSE b
Earlier(a, b) == IF a <= b THEN a ELSE b

\* Seeded bug: the deadline of the paymaster is not looked at.
MergeAccountDeadline(account, paymaster) ==
  [aggregator |-> account.aggregator,
   validAfter |-> Later(account.validAfter, paymaster.validAfter),
   validUntil |-> account.validUntil]

MergeValidationData(account, paymaster) ==
  [aggregator |-> IF paymaster.aggregator # "zero" THEN "failed" ELSE account.aggregator,
   validAfter |-> Later(account.validAfter, paymaster.validAfter),
   validUntil |-> Earlier(account.validUntil, paymaster.validUntil)]

-----------------------------------------------------------------------------
(* Full validation *)

\* An empty factoryData is a string of length two, so it counts as a call that
\* the entry point does not make.
CallsFactory(op) ==
  \/ op.factory \notin {Null, Marker}
  \/ op.factory = Marker /\ op.factoryData # Null

CallAt(trace, i) ==
  IF i <= Len(trace.calls) THEN trace.calls[i] ELSE [to |-> "nobody", returned |-> "no"]

\* The calls that generateValidationResult decodes.
GetValidationCalls(op, trace) ==
  LET first == IF CallsFactory(op) THEN 2 ELSE 1
      inner == IF op.paymaster # Null THEN first + 2 ELSE first + 1
  IN [validation |-> CallAt(trace, first),
      paymaster |-> IF op.paymaster = Null THEN Null ELSE CallAt(trace, first + 1),
      inner |-> CallAt(trace, inner)]

\* AA24 and AA34 are the two signatures; running out of gas after validation
\* and the zero beneficiary are how a good simulation ends.
ParseTracerResultCallsForRevert(trace) ==
  LET reason == DecodeRevertReason(trace.output, FALSE)
  IN CASE trace.output = Null \/ reason \in {"AA90", "AA95"} -> Right(trace)
       [] reason \in {"AA24", "AA34"} -> Left("InvalidSignature")
       [] OTHER -> Left("SimulateValidation")

Decoded(call, to) == call.to = to /\ call.returned # "no"

\* An Error without a code makes decodeErrorReason throw; the one of ethers for
\* data it cannot decode has a code.
GenerateValidationResult(op, trace, staked) ==
  LET calls == GetValidationCalls(op, trace)
      merged == MergeValidationData(
        ParseValidationData(op.validity.account),
        IF op.paymaster = Null THEN NoValidationData
        ELSE ParseValidationData(op.validity.paymaster))
  IN
  IF \/ ~Decoded(calls.validation, "account")
     \/ calls.paymaster # Null /\ ~Decoded(calls.paymaster, "paymaster")
  THEN DecodeErrorReason
  ELSE IF calls.paymaster # Null /\ calls.paymaster.returned = "malformed"
  THEN Left("BAD_DATA")
  ELSE IF calls.inner.to \notin {"inner", "nobody"}
  THEN DecodeErrorReason
  ELSE Right([sigFailed |-> FALSE,      \* handleOps did not revert
              validAfter |-> merged.validAfter,
              validUntil |-> merged.validUntil,
              preOpGas |-> IF calls.inner.to = "inner" THEN "known" ELSE Null,
              staked |-> staked])

-----------------------------------------------------------------------------
(* Partial validation, for the unsafe mode, and the simulation of an estimate *)

\* external: how a simulated call ends; "garbage" is not JSON.
SimulationOutcomes == {"result", "AA24", "AA34", "AA23", "custom", "garbage"}

ParseSimulateValidationResult(op) ==
  LET merged == MergeValidationData(ParseValidationData(op.validity.account),
                                    ParseValidationData(op.validity.paymaster))
  IN [sigFailed |-> merged.aggregator # "zero",
      validAfter |-> merged.validAfter,
      validUntil |-> merged.validUntil,
      preOpGas |-> "known",
      staked |-> TRUE]

\* The body of a failed call is parsed as JSON without a guard.
PartialSimulateValidation(op, outcome) ==
  CASE outcome = "result" -> Right(ParseSimulateValidationResult(op))
    [] outcome = "garbage" -> Throws("-32000")
    [] OTHER -> Left("SimulateValidation")

\* A reason that cannot be decoded is null, and its text is looked at.
SimulateHandleOp(outcome) ==
  LET reason == DecodeRevertReason(outcome, TRUE)
  IN CASE outcome = "result" -> Right("preOpGas")
       [] outcome # "result" /\ reason = Null -> Throws("-32000")
       [] reason \in {"AA24", "AA34"} -> Left("InvalidSignature")
       [] OTHER -> Left("SimulateValidation")

\* The provider turns every failure of eth_estimateGas into a Left, except one
\* whose message is missing.
EstimateCallGas(outcome) ==
  CASE outcome = "result" -> Right("callGas")
    [] outcome = "AA23" -> Left("UserOperationReverted")
    [] outcome = "garbage" -> Throws("-32000")
=============================================================================
