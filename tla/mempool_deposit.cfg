\* One call at a time: an operation that costs its paymaster two units, and one
\* that costs one and may spell the paymaster otherwise.
SPECIFICATION Spec
CONSTANTS
  Address <- TwoAddresses
  NoAddress = NoAddress
  Lower <- MCLower
  WhiteList = {}
  BlackList = {}
  Staked = {"p"}
  MinInclusionDenominator = 1
  ThrottlingSlack = 1
  BanSlack = 2
  CrashPenalty = 3
  SameUnstakedEntityMempoolCount = 2
  InclusionRateFactor = 2
  IncludedAllowance = 2
  NoOp = NoOp
  Sender <- MCSender
  Nonce <- MCNonce
  Paymaster <- MCPaymaster
  Factory <- NoEntity
  Aggregator <- NoEntity
  PriorityFee <- MCFee
  MaxFee <- MCMaxFee
  Number <- Rounded
  Raised <- Tenth
  MaxExact = 58
  MaxCost <- UnevenCost
  Deposit <- MCDeposit
  Tasks = {t1}
  Calls = {"add", "remove", "setStatus", "take"}
  BundleSize = 1
  MaxMempoolUserOpsPerSender = 3
  ThrottledEntityMempoolCount = 2
  NoRef = NoRef
  Current = Current
  MaxCount = 5
  Op = {"a1", "a2"}
  t1 = t1
INVARIANT PaymasterSolvent
