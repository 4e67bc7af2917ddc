SPECIFICATION HubSpec
CONSTANTS
  Clients = {c1, c2}
  NoClient = NoClient
  RetryAttempts = 1
  ControllerCalls = 0
  Machines = {m1, m2}
  Topics = {t1, t2}
  None = None
  Tasks = {k1}
SYMMETRY Symmetry
CHECK_DEADLOCK FALSE
INVARIANTS
  ValidatedBySingleClient
  SchemaOfTheRecord
  RecordedIsCounted
