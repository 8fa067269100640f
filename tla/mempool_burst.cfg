\* Three submissions of one sender in flight together.
SPECIFICATION Spec
CONSTANTS
  Address <- TwoAddresses
  NoAddress = NoAddress
  Lower <- MCLower
  WhiteList = {}
  BlackList = {}
  Staked = {}
  MinInclusionDenominator = 1
  ThrottlingSlack = 1
  BanSlack = 2
  CrashPenalty = 3
  SameUnstakedEntityMempoolCount = 2
  InclusionRateFactor = 2
  IncludedAllowance = 2
  NoOp = NoOp
  Sender <- MCSender
  Nonce <- MCNonce
  Paymaster <- NoEntity
  Factory <- NoEntity
  Aggregator <- NoEntity
  PriorityFee <- MCFee
  MaxFee <- MCMaxFee
  Number <- Rounded
  Raised <- Tenth
  MaxExact = 58
  MaxCost <- UnitCost
  Deposit <- MCDeposit
  Tasks = {t1, t2, t3}
  Calls = {"add"}
  BundleSize = 1
  MaxMempoolUserOpsPerSender = 1
  ThrottledEntityMempoolCount = 4
  NoRef = NoRef
  Current = Current
  MaxCount = 4
  Op = {"a1", "a2", "a3", "a4"}
  t1 = t1
  t2 = t2
  t3 = t3
INVARIANT SenderCapOvershoot
