SPECIFICATION OpcSpec
CONSTANTS
  Others = {}
CHECK_DEADLOCK FALSE
INVARIANTS
  CncTypeRegistered
