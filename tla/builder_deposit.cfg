\* The deposit of a paymaster is used up to zero.
SPECIFICATION Spec
CONSTANTS
  Address = {"a", "b", "p"}
  NoAddress = NoAddress
  Lower <- MCLower
  WhiteList = {}
  BlackList = {}
  Staked = {}
  MinInclusionDenominator = 1
  ThrottlingSlack = 1
  BanSlack = 2
  CrashPenalty = 3
  SameUnstakedEntityMempoolCount = 2
  InclusionRateFactor = 2
  IncludedAllowance = 2
  Op = {"ap", "bp"}
  Sender <- MCSender
  Paymaster <- MCPaymaster
  Factory <- Nobody
  Signer <- Nobody
  Delegate <- Nobody
  Gas <- MCGas
  Prefund <- UnitPrefund
  Touches <- TouchesNone
  Deposit <- MCDeposit
  Verdicts = {"ok"}
  BundleSize = 2
  MaxBundleGas = 2
  ThrottledEntityBundleCount = 1
  SeenBound <- SeenNever
INVARIANT PaymasterCovered
