CONSTANTS
  o1 = o1
  o2 = o2
  x = x
  y = y
  Operator = {o1, o2}
  MaxKeys = 2
  Manager = {x, y}
  None = None
  MaxGroup = 3
  MaxDay = 2
  MaxReport = 2
  QueueLimit = 2
  Client = {p, q}
  Nobody = Nobody
  Scenario <- MCScenario
SPECIFICATION Spec
VIEW MCView
SYMMETRY MCSymmetry
INVARIANTS
  TypeOK
  ExitingWasRequested
PROPERTIES
  AloneSucceeds
  AloneDoes
  AloneMirrors
