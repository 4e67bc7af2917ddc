SPECIFICATION MachinesSpec
CONSTANTS
  Machines = {m1}
  Schemas = {s1}
  Texts = {d1, d2}
  Null = Null
  Undefined = Undefined
  Absent = Absent
  Requests = {r1, r2}
SYMMETRY RequestSymmetry
INVARIANTS
  MachinesTypeOK
  RefsExist
  ReadRowsStay
PROPERTIES
  StepsOfTheStore
