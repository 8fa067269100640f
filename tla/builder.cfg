\* Operations that may not share a bundle: their tuples conflict (a2, b2), one
\* reads the storage of the other's sender (c1, b2), together they need too much
\* gas (a2, c1), or they share a factory that is throttled, then banned (b2, c1).
\* Validations fail and calls to the node reject.
SPECIFICATION Spec
CONSTANTS
  Address = {"a", "b", "c", "s", "d", "e", "p", "f"}
  NoAddress = NoAddress
  Lower <- MCLower
  WhiteList = {}
  BlackList = {}
  Staked = {}
  MinInclusionDenominator = 1
  ThrottlingSlack = 0
  BanSlack = 1
  CrashPenalty = 3
  SameUnstakedEntityMempoolCount = 2
  InclusionRateFactor = 2
  IncludedAllowance = 2
  Op = {"a2", "b2", "c1"}
  Sender <- MCSender
  Paymaster <- MCPaymaster
  Factory <- SharedFactory
  Signer <- MCSigner
  Delegate <- MCDelegate
  Gas <- TightGas
  Prefund <- UnitPrefund
  Touches <- MCTouches
  Deposit <- MCDeposit
  Verdicts = {"ok", "AA3", "noFailedOp", "unknownData"}
  BundleSize = 2
  MaxBundleGas = 3
  ThrottledEntityBundleCount = 1
  SeenBound <- SeenFactory
INVARIANT GasWithinLimit
INVARIANT TuplesAgree
INVARIANT StorageIsolated
INVARIANT NothingStuck
PROPERTY ThrottledFactoryCap
