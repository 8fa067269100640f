SPECIFICATION LifecycleSpec
CONSTANTS
  Op = {o1, o2}
  Ticks = {t1, t2}
  Debug = {d1}
  Auth = {o1}
  TxModes = {"base", "searcher"}
  UsesBanned <- NobodyElse
  BundleSize = 1
  MaxTxs = 2
  MaxFailures = 1
INVARIANT SentOnce
INVARIANT BundlingAccounted
PROPERTY AttemptsEnd
PROPERTY LandedSettles
CHECK_DEADLOCK FALSE
