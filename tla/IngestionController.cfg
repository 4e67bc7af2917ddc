SPECIFICATION ControllerFairSpec
CONSTANTS
  Clients = {c1, c2}
  NoClient = NoClient
  RetryAttempts = 1
  ControllerCalls = 2
  Topics = {t1}
  NoTopic = NoTopic
  Requests = {q1, q2}
  MaxBatch = 4
CHECK_DEADLOCK FALSE
INVARIANTS
  NoStrandedAwait
  ReconnectingIsDriven
  FieldNotEnded
  ListedIsServed
  BatchAccounts
PROPERTIES
  ShutdownServesAll
