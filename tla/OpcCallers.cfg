SPECIFICATION OpcFairSpec
CONSTANTS
  Others = {u1, u2}
CHECK_DEADLOCK FALSE
INVARIANTS
  OpcTypeOK
  SingleServer
  RunningHasServer
PROPERTIES
  RegisteredWhileUp
  CallsReturn
