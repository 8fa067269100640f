\* A node with the auto bundler and metrics on, from start-up to its end, with
\* two signals.  An ended process does nothing more.
SPECIFICATION Spec
CONSTANTS
  Address = {"p", "q"}
  NoAddress = NoAddress
  Lower <- MCLower
  WhiteList = {}
  BlackList = {"q"}
  Staked = {}
  MinInclusionDenominator = 1
  ThrottlingSlack = 1
  BanSlack = 2
  CrashPenalty = 6
  SameUnstakedEntityMempoolCount = 2
  InclusionRateFactor = 2
  IncludedAllowance = 2
  Settings <- MCSettings
  MaxHours = 1
  Op = {"p1", "p2", "q1"}
  Entity <- MCEntity
  IsAutoBundle = TRUE
  IsMetricsEnabled = TRUE
  LogEvent = LogEvent
  MaxRequests = 2
  MaxSigterms = 2
INVARIANT CrashedStaysBanned
INVARIANT NothingSentUnchecked
INVARIANT ExitFlushes
PROPERTY SigtermEnds
CHECK_DEADLOCK FALSE
