\* Two calls in flight, any mix: what no interleaving can break.
SPECIFICATION Spec
CONSTANTS
  Address <- TwoAddresses
  NoAddress = NoAddress
  Lower <- MCLower
  WhiteList = {}
  BlackList = {}
  Staked = {}
  MinInclusionDenominator = 1
  ThrottlingSlack = 1
  BanSlack = 2
  CrashPenalty = 3
  SameUnstakedEntityMempoolCount = 2
  InclusionRateFactor = 2
  IncludedAllowance = 2
  NoOp = NoOp
  Sender <- MCSender
  Nonce <- MCNonce
  Paymaster <- MCPaymaster
  Factory <- NoEntity
  Aggregator <- NoEntity
  PriorityFee <- MCFee
  MaxFee <- MCMaxFee
  Number <- Rounded
  Raised <- Tenth
  MaxExact = 58
  MaxCost <- UnitCost
  Deposit <- MCDeposit
  Tasks = {t1, t2}
  Calls = {"add", "remove", "setStatus", "take", "ban", "clear"}
  BundleSize = 1
  MaxMempoolUserOpsPerSender = 2
  ThrottledEntityMempoolCount = 1
  NoRef = NoRef
  Current = Current
  MaxCount = 2
  Op = {"a1", "a1x"}
  t1 = t1
  t2 = t2
PROPERTY NoLostEntry
PROPERTY ReplacementPaysMore
