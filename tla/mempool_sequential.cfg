\* One call at a time: what the mempool promises its callers holds.
SPECIFICATION Spec
CONSTANTS
  Address <- MCAddress
  NoAddress = NoAddress
  Lower <- MCLower
  WhiteList = {}
  BlackList = {}
  Staked = {"p"}
  MinInclusionDenominator = 1
  ThrottlingSlack = 1
  BanSlack = 2
  CrashPenalty = 3
  SameUnstakedEntityMempoolCount = 2
  InclusionRateFactor = 2
  IncludedAllowance = 2
  NoOp = NoOp
  Sender <- MCSender
  Nonce <- MCNonce
  Paymaster <- MCPaymaster
  Factory <- NoEntity
  Aggregator <- NoEntity
  PriorityFee <- MCFee
  MaxFee <- MCMaxFee
  Number <- Rounded
  Raised <- Tenth
  MaxExact = 58
  MaxCost <- UnevenCost
  Deposit <- MCDeposit
  Tasks = {t1}
  Calls = {"add", "remove", "setStatus", "take"}
  BundleSize = 1
  MaxMempoolUserOpsPerSender = 3
  ThrottledEntityMempoolCount = 2
  NoRef = NoRef
  Current = Current
  MaxCount = 5
  Op = {"a1", "a1x", "a2", "a3p", "a4", "a5", "p1"}
  t1 = t1
INVARIANT TypeOK
INVARIANT OneEntryPerSenderNonce
INVARIANT UnstakedSenderCap
INVARIANT CountCoversPool
INVARIANT DepositCoversDearer
INVARIANT SeenCoversPool
INVARIANT RolesDisjoint
