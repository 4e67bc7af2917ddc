SPECIFICATION HubFairSpec
CONSTANTS
  Clients = {c1, c2}
  NoClient = NoClient
  RetryAttempts = 1
  ControllerCalls = 0
  Machines = {m1}
  Topics = {t1, t2}
  None = None
  Tasks = {}
CHECK_DEADLOCK FALSE
PROPERTIES
  MachinesSubscribed
