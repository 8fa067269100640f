\* Two operations of one signer with different delegates.
SPECIFICATION Spec
CONSTANTS
  Address = {"a", "b", "c", "s", "d", "e"}
  NoAddress = NoAddress
  Lower <- MCLower
  WhiteList = {}
  BlackList = {}
  Staked = {}
  MinInclusionDenominator = 1
  ThrottlingSlack = 1
  BanSlack = 2
  CrashPenalty = 3
  SameUnstakedEntityMempoolCount = 2
  InclusionRateFactor = 2
  IncludedAllowance = 2
  Op = {"a2", "b2"}
  Sender <- MCSender
  Paymaster <- Nobody
  Factory <- Nobody
  Signer <- MCSigner
  Delegate <- MCDelegate
  Gas <- MCGas
  Prefund <- UnitPrefund
  Touches <- MCTouches
  Deposit <- MCDeposit
  Verdicts = {"ok"}
  BundleSize = 2
  MaxBundleGas = 3
  ThrottledEntityBundleCount = 1
  SeenBound <- SeenNever
INVARIANT NotIncludedSentBack
