------------------------- MODULE MCSendUserOperation -------------------------
(* SendUserOperation for TLC: the requests, the chain and the gas          *)
(* configurations.                                                         *)
EXTENDS SendUserOperation

CONSTANTS h1, h2, h3, h4, h5, ep, elsewhere, pm, fac

Mainnet ==
  [transactionGasStipend |-> 20, fixedGasOverhead |-> 8, perUserOpGasOverhead |-> 6,
   perUserOpWordGasOverhead |-> 1, executeUserOpGasOverhead |-> 3,
   executeUserOpPerWordGasOverhead |-> 32, standardTokenGasCost |-> 2,
   floorPerTokenGasCost |-> 6, tokensPerNonzeroByte |-> 4, eip7702AuthGas |-> 9,
   expectedBundleSize |-> 1, estimationSignatureSize |-> 2, useEip7623 |-> TRUE]

OneConfig == {Mainnet}
SomeUpdates == {[useEip7623 |-> FALSE], [useEip7623 |-> TRUE, expectedBundleSize |-> 2]}

Range0(a, u) == [aggregator |-> "zero", validAfter |-> a, validUntil |-> u]
Ever == [account |-> Range0(0, 0), paymaster |-> Range0(0, 0)]

Plain ==
  [factory |-> Null, factoryData |-> Null, paymaster |-> Null, paymasterData |-> Null,
   paymasterVerificationGasLimit |-> Null, paymasterPostOpGasLimit |-> Null,
   callData |-> [executes |-> FALSE, length |-> 4], callGasLimit |-> 20,
   verificationGasLimit |-> 5, maxPriorityFeePerGas |-> 1, maxFeePerGas |-> 2,
   preVerificationGas |-> 53, auth |-> Null,
   zeroBytes |-> 3, nonzeroBytes |-> 0, signature |-> 1, fieldsAreHex |-> TRUE,
   rules |-> "kept", validity |-> Ever]

Auth(chainId, zero, who) == [chain |-> chainId, zeroPrefix |-> zero, signer |-> who]

Sponsored ==
  [Plain EXCEPT !.paymaster = pm, !.paymasterData = <<"context">>,
    !.paymasterVerificationGasLimit = 3, !.paymasterPostOpGasLimit = 10,
    !.preVerificationGas = 70, !.rules = "stake needed",
    !.validity = [account |-> Range0(0, 2), paymaster |-> Range0(1, 1)]]

Ops ==
  {Plain, [Plain EXCEPT !.preVerificationGas = 52],
   Sponsored,
   [Sponsored EXCEPT !.factory = fac, !.factoryData = <<"salt">>, !.rules = "kept",
                     !.paymasterData = Null,
                     !.validity = [account |-> Range0(1, 0),
                                   paymaster |-> [aggregator |-> "agg",
                                                  validAfter |-> 0, validUntil |-> 1]]],
   [Sponsored EXCEPT !.paymasterPostOpGasLimit = Null],
   [Sponsored EXCEPT !.paymaster = Null],
   [Plain EXCEPT !.factory = Marker, !.factoryData = <<"init">>,
                 !.auth = Auth("this", FALSE, "sender"), !.preVerificationGas = 70],
   [Plain EXCEPT !.factory = Marker, !.factoryData = <<>>,
                 !.auth = Auth("any", FALSE, "sender"), !.preVerificationGas = 70],
   [Plain EXCEPT !.factory = Marker, !.auth = Auth("any", TRUE, "sender"),
                 !.preVerificationGas = 70],
   [Plain EXCEPT !.callData = [executes |-> TRUE, length |-> 40],
                 !.callGasLimit = 600, !.preVerificationGas = 60, !.rules = "broken"],
   [Plain EXCEPT !.preVerificationGas = 16, !.signature = 2],
   [Plain EXCEPT !.fieldsAreHex = FALSE]}

Request(m, op) ==
  [method |-> m, op |-> op, entryPoint |-> ep, faults |-> {}, hash |-> Null,
   hexHash |-> TRUE,
   params |-> CASE m \in {"eth_sendUserOperation", "eth_estimateUserOperationGas"} -> 2
                [] m \in {"eth_chainId", "eth_supportedEntryPoints", "web3_clientVersion"} -> 0
                [] OTHER -> 1]
LookUp(m, h) == [Request(m, Null) EXCEPT !.hash = h]

SomeRequests ==
  {Request(m, op) : m \in {"eth_sendUserOperation", "eth_estimateUserOperationGas"},
                    op \in Ops \cup {Null}}
  \cup {[Request("eth_sendUserOperation", Plain) EXCEPT !.entryPoint = e] :
          e \in {"", elsewhere}}
  \cup {[Request("eth_sendUserOperation", Plain) EXCEPT !.faults = F] :
          F \in {{"headerChecks"}, {"idTypeStringOrNumber", "apiEnabled"}}}
  \cup {LookUp(m, h) : m \in {"eth_getUserOperationReceipt", "eth_getUserOperationByHash"},
                       h \in {h1, h2, h3, h4, h5}}
  \cup {[LookUp("eth_getUserOperationReceipt", Null) EXCEPT !.hexHash = FALSE],
        LookUp("eth_getUserOperationByHash", Null),
        Request("eth_chainId", Null), Request("eth_supportedEntryPoints", Null),
        Request("web3_clientVersion", Null), Request("debug_bundler_setBundleInterval", Null),
        [Request("eth_chainId", Null) EXCEPT !.params = 1],
        Request("eth_unknown", Null)}

\* Operations of a bundle: one whose data costs most, at a price for two; one
\* that pays less than its floor; one whose execution costs most.
BundleRequests ==
  {Request("eth_sendUserOperation", op) :
     op \in {[Plain EXCEPT !.preVerificationGas = 49],
            [Plain EXCEPT !.preVerificationGas = 44],
            [Plain EXCEPT !.zeroBytes = 1, !.callGasLimit = 600,
                          !.preVerificationGas = 31]}}
Symmetry == Permutations(Calls)

EstimateRequests == {Request("eth_estimateUserOperationGas", op) : op \in Ops}
ReceiptRequests ==
  {LookUp("eth_getUserOperationReceipt", h) : h \in {h1, h2, h3, h4, h5}}

Log(k, h) == [kind |-> k, hash |-> h]
Bundled(h, op) == [hash |-> h, senderNonce |-> h, packed |-> PackUserOp(op)]

(* h1 and h2 in one bundle; h3 through another contract; h4 lost its logs;  *)
(* h5 in the first of two bundles of one transaction.                      *)
Bundle ==
  [to |-> ep, event |-> [senderNonce |-> Null],
   ops |-> <<Bundled(h1, Sponsored), Bundled(h2, [Plain EXCEPT !.factory = Marker])>>,
   logs |-> <<Log("log", Null), Log("BeforeExecution", Null), Log("log", h1),
              Log("UserOperationEvent", h1), Log("log", h2), Log("log", h2),
              Log("UserOperationEvent", h2)>>]

SomeTransactions ==
  [h \in {h1, h2, h3, h4, h5} |->
    CASE h \in {h1, h2} -> [Bundle EXCEPT !.event.senderNonce = h]
      [] h = h3 -> [to |-> elsewhere, event |-> [senderNonce |-> h3],
                    ops |-> <<Bundled(h3, Plain)>>,
                    logs |-> <<Log("UserOperationEvent", h1), Log("log", h3),
                               Log("UserOperationEvent", h3)>>]
      [] h = h4 -> [to |-> ep, event |-> [senderNonce |-> h4],
                    ops |-> <<>>, logs |-> <<>>]
      [] h = h5 -> [to |-> elsewhere, event |-> [senderNonce |-> h5],
                    ops |-> <<Bundled(h5, Plain)>>,
                    logs |-> <<Log("BeforeExecution", Null), Log("log", h5),
                               Log("UserOperationEvent", h5),
                               Log("BeforeExecution", Null), Log("log", h1),
                               Log("UserOperationEvent", h1)>>]]
=============================================================================
