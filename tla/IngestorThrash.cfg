SPECIFICATION FairSpec
CONSTANTS
  Clients = {c1, c2}
  NoClient = NoClient
  RetryAttempts = 1
  ControllerCalls = 0
CHECK_DEADLOCK FALSE
PROPERTY
  QuietNetworkHolds
