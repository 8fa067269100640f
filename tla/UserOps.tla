------------------------------- MODULE UserOps -------------------------------
(***************************************************************************)
(* User operations as data: packing for the entry point                    *)
(* (utils/user-op.utils.ts), EIP-7702 authorizations                       *)
(* (utils/eip-7702.utils.ts) and the gas an operation must pay for being   *)
(* put on chain (gas/pre-verification-gas.ts).                             *)
(*                                                                         *)
(* Byte strings are sequences of parts; "0x" is <<>>.  Of the encoding of  *)
(* an operation only its numbers of zero and non-zero bytes matter; those  *)
(* of preVerificationGas are counted, since an estimate replaces it.       *)
(* Rates are whole numbers of 1/Unit gas, a unit so fine that the          *)
(* divisions by the size of a bundle and by the length of a word are       *)
(* exact.                                                                  *)
(***************************************************************************)
EXTENDS Integers, Sequences, FiniteSets, SequencesExt

CONSTANTS
  Null,
  Unit,            \* units in one gas
  ByteBase,        \* values of a byte: 256
  WordSize         \* bytes of a word: 32

Marker == "0x7702"
PaddedMarker == "0x7702 padded to an address"

ASSUME UnitAssumption == Unit \in Nat \ {0}
ASSUME WordAssumption == ByteBase \in Nat \ {0} /\ WordSize \in Nat

Bytes(data) == IF data = Null THEN <<>> ELSE data
Or(value, default) == IF value = Null THEN default ELSE value

-----------------------------------------------------------------------------
(* Packing *)

PackUint(high, low) == <<high, low>>

UnpackUint(packed) == [high |-> packed[1], low |-> packed[2]]

InitCode(op) ==
  CASE op.factory = Null -> <<>>
    [] op.factory = Marker -> <<PaddedMarker>> \o Bytes(op.factoryData)
    [] OTHER -> <<op.factory>> \o Bytes(op.factoryData)

PaymasterAndData(op) ==
  IF op.paymaster = Null THEN <<>>
  ELSE <<op.paymaster,
         PackUint(op.paymasterVerificationGasLimit, op.paymasterPostOpGasLimit)>>
       \o Bytes(op.paymasterData)

\* packUserOp throws 'paymaster with no gas limits' otherwise.
Packable(op) ==
  op.paymaster # Null =>
    Null \notin {op.paymasterVerificationGasLimit, op.paymasterPostOpGasLimit}

PackUserOp(op) ==
  [callData |-> op.callData,
   initCode |-> InitCode(op),
   accountGasLimits |-> PackUint(op.verificationGasLimit, op.callGasLimit),
   preVerificationGas |-> op.preVerificationGas,
   gasFees |-> PackUint(op.maxPriorityFeePerGas, op.maxFeePerGas),
   paymasterAndData |-> PaymasterAndData(op)]

\* The fields of a packed operation, for getUserOperationByHash.
UnpackUserOp(p) ==
  LET init == p.initCode
      sponsor == p.paymasterAndData
  IN [callData |-> p.callData,
      verificationGasLimit |-> UnpackUint(p.accountGasLimits).high,
      callGasLimit |-> UnpackUint(p.accountGasLimits).low,
      preVerificationGas |-> p.preVerificationGas,
      maxPriorityFeePerGas |-> UnpackUint(p.gasFees).high,
      maxFeePerGas |-> UnpackUint(p.gasFees).low,
      factory |-> IF init = <<>> THEN Null ELSE Head(init),
      factoryData |-> IF init = <<>> THEN Null ELSE Tail(init),
      paymaster |-> IF sponsor = <<>> THEN Null ELSE sponsor[1],
      paymasterVerificationGasLimit |->
        IF sponsor = <<>> THEN Null ELSE UnpackUint(sponsor[2]).high,
      paymasterPostOpGasLimit |-> IF sponsor = <<>> THEN Null ELSE UnpackUint(sponsor[2]).low,
      paymasterData |-> IF sponsor = <<>> THEN Null ELSE SubSeq(sponsor, 3, Len(sponsor))]

-----------------------------------------------------------------------------
(* EIP-7702: an authorization is [chain, signer, zeroPrefix] *)

GetAuthorizationList(op) == IF op.auth = Null THEN <<>> ELSE <<op.auth>>

\* toRlpHex drops the leading zeros of the delegate's address as if it were a
\* number, so the message that was signed is not the one recovered from.
SignerRecovered(auth) == IF auth.zeroPrefix THEN "unknown" ELSE auth.signer

-----------------------------------------------------------------------------
(* Pre-verification gas *)

GasConfig ==
  [transactionGasStipend : Nat, fixedGasOverhead : Nat, perUserOpGasOverhead : Nat,
   perUserOpWordGasOverhead : Nat, executeUserOpGasOverhead : Nat,
   executeUserOpPerWordGasOverhead : Nat, standardTokenGasCost : Nat,
   floorPerTokenGasCost : Nat, tokensPerNonzeroByte : Nat, eip7702AuthGas : Nat,
   expectedBundleSize : Nat \ {0}, estimationSignatureSize : Nat, useEip7623 : BOOLEAN]

SignatureSize(op, config) == Or(op.signature, config.estimationSignatureSize)

\* The bytes of a number that are not zero, in a word.
NonzeroBytes(n) ==
  Cardinality({k \in 0 .. WordSize - 1 : (n \div ByteBase ^ k) % ByteBase # 0})

\* The operation is encoded with the word of its preVerificationGas; zeroBytes
\* and nonzeroBytes are those of the rest.
CountTokens(op, config) ==
  LET nonzero == NonzeroBytes(op.preVerificationGas)
  IN op.zeroBytes + (WordSize - nonzero)
       + config.tokensPerNonzeroByte
           * (op.nonzeroBytes + nonzero + SignatureSize(op, config))

EncodedLength(op, config) ==
  op.zeroBytes + op.nonzeroBytes + WordSize + SignatureSize(op, config)

\* The tenth of the execution gas that the entry point charges in any case.
GetUserOpGasUsed(op) ==
  (op.callGasLimit + Or(op.paymasterPostOpGasLimit, 0)) \div 10

MathRound(units) == (2 * units + Unit) \div (2 * Unit)
MathMax(a, b) == IF a >= b THEN a ELSE b

PerUserOpOverhead(op, config) ==
  config.perUserOpGasOverhead
    + (IF op.auth # Null THEN config.eip7702AuthGas ELSE 0)
    + (IF op.callData.executes
       THEN config.executeUserOpGasOverhead
              + (config.executeUserOpPerWordGasOverhead
                   * (EncodedLength(op, config) + 31)) \div 32
       ELSE config.perUserOpWordGasOverhead * ((op.callData.length + 31) \div 32))

ShareOfStipend(config) == config.transactionGasStipend \div config.expectedBundleSize

\* What an operation adds to a transaction's execution, without its own gas.
ShareOfOverhead(op, config) ==
  config.fixedGasOverhead \div config.expectedBundleSize + PerUserOpOverhead(op, config)

\* Seeded bug: without the floor of EIP-7623.
Eip7623WithoutFloor(stipend, tokens, execution, config) ==
  MathRound(stipend + config.standardTokenGasCost * tokens + execution)

\* Gas: the larger of the standard price and the floor.
Eip7623TransactionGasCost(stipend, tokens, execution, config) ==
  MathRound(stipend + MathMax(config.standardTokenGasCost * tokens + execution,
                              config.floorPerTokenGasCost * tokens))

\* calculate, in units; the signature of the configured size when it is missing.
CalculatePreVerificationGas(op, config) ==
  LET tokens == CountTokens(op, config)
      used == GetUserOpGasUsed(op)
      overhead == ShareOfOverhead(op, config)
  IN
  IF config.useEip7623
  THEN Unit * (Eip7623TransactionGasCost(ShareOfStipend(config), tokens,
                                         overhead + Unit * used, config) - used)
  ELSE config.standardTokenGasCost * tokens + ShareOfStipend(config) + overhead

ValidatePreVerificationGas(op, config) ==
  CalculatePreVerificationGas(op, config) <= Unit * op.preVerificationGas

\* Seeded bug: no signature at all is counted.
EstimateUnsigned(op, config) ==
  CalculatePreVerificationGas([op EXCEPT !.signature = 0], config)

\* An estimate ignores the signature that came with the operation.
EstimatePreVerificationGas(op, config) ==
  CalculatePreVerificationGas([op EXCEPT !.signature = Null], config)

\* updateGasConfig: the fields given replace the old ones.
UpdateGasConfig(config, fields) ==
  [f \in DOMAIN config |-> IF f \in DOMAIN fields THEN fields[f] ELSE config[f]]
=============================================================================
