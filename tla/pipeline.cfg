SPECIFICATION Spec
CONSTANTS
  Null = null
  h1 = h1
  h2 = h2
  h3 = h3
  h4 = h4
  h5 = h5
  ep = ep
  elsewhere = elsewhere
  pm = pm
  fac = fac
  Unit = 2
  ByteBase = 16
  WordSize = 2
  MaxUint48 = 9
  Calls = {c1}
  Requests <- SomeRequests
  Transactions <- SomeTransactions
  EntryPoint = ep
  Configs <- OneConfig
  Updates <- SomeUpdates
  MaxBlocks = 1
  MaxTime = 2
INVARIANT AnswersAgree
INVARIANT StakeWasReal
INVARIANT InRangeOfBoth
INVARIANT PrefundIsKnown
INVARIANT EstimateSuffices
INVARIANT ReceiptHasOwnLogs
PROPERTY RequestsAnswered
CHECK_DEADLOCK FALSE
