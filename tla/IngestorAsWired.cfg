SPECIFICATION FairSpec
CONSTANTS
  Clients = {c1, c2, c3, c4}
  NoClient = NoClient
  RetryAttempts = 2
  ControllerCalls = 0
CHECK_DEADLOCK FALSE
INVARIANTS
  SingleRetryChain
  ClientBudget
  FailedMeansExhausted
  ConnectedIsOwned
  WiringInv
PROPERTIES
  ImplementsContract
  FailedIsFinal
  ChainEnds
  BootCompletes
  ShutdownCompletes
  SingleClientRecovers
