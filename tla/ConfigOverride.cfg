SPECIFICATION ConfigSpec
CONSTANTS
  Words <- MCWords
  Known <- MCKnown
  Schema <- MCSchema
  Required <- MCSchema
  Names <- MCNames
  Values = {v1, v2}
  None = None
  Blank = Blank
CHECK_DEADLOCK FALSE
INVARIANTS
  EnvironmentOverrides
