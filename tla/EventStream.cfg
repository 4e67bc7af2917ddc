SPECIFICATION StreamSpec
CONSTANTS
  Topics <- MCTopics
  Sources <- MCSources
  Patterns <- MCPatterns
  Schemas = {s1}
  Clients = {c1, c2}
  None = None
  Listeners = {l1}
  MaxMessages = 2
SYMMETRY ClientSymmetry
INVARIANTS
  StreamTypeOK
  OncePerArrival
  EventsAreSound
  ConcreteTopicsValidated
