\* Two spellings of one throttled factory.
SPECIFICATION Spec
CONSTANTS
  Address = {"a", "b", "f", "F"}
  NoAddress = NoAddress
  Lower <- MCLower
  WhiteList = {}
  BlackList = {}
  Staked = {}
  MinInclusionDenominator = 1
  ThrottlingSlack = 1
  BanSlack = 2
  CrashPenalty = 3
  SameUnstakedEntityMempoolCount = 2
  InclusionRateFactor = 2
  IncludedAllowance = 2
  Op = {"a1", "b1"}
  Sender <- MCSender
  Paymaster <- Nobody
  Factory <- TwoSpellings
  Signer <- Nobody
  Delegate <- Nobody
  Gas <- MCGas
  Prefund <- UnitPrefund
  Touches <- TouchesNone
  Deposit <- MCDeposit
  Verdicts = {"ok"}
  BundleSize = 2
  MaxBundleGas = 2
  ThrottledEntityBundleCount = 1
  SeenBound <- SeenFactory
PROPERTY ThrottledDeployerCap
