SPECIFICATION Spec
CONSTANTS
  k1 = k1
  k2 = k2
  v1 = v1
  v2 = v2
  c1 = c1
  c2 = c2
  Key = {k1, k2}
  Value = {v1, v2}
  None = None
  Connection = {c1, c2}
INVARIANTS TypeOK OnlyLateWritesLost
PROPERTIES ImplementsDurableState ShutdownTerminates AlwaysServesAgain
