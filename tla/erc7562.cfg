SPECIFICATION Spec
CONSTANTS
  EntryPoint = 1001
  SenderCreator = 1002
  Sender = 1003
  Factory = 1004
  Paymaster = 1005
  Other = 1006
  Eip7702Marker = 30466
  Observations <- MCObservations
  StakeInfos <- MCStakeInfos
  KeccakInputs <- MCKeccakInputs
  CallTypes = {"CALL", "DELEGATECALL", "CREATE2"}
  MaxFrames = 7
  MaxCalls = 1
  MaxDepth = 3
  MaxAccesses = 1
INVARIANTS
  ContextTracked
  StorageIsolated
  OnlySenderDeployed
CHECK_DEADLOCK FALSE
