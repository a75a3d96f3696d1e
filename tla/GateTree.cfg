CONSTANTS
  a = a
  b = b
  x = b
  Leaf = {a, b}
  Operator = {a}
  Extra <- MCExtra
  Lists = {{b}}
  Admin = Admin
  Proc = {p, q}
  Nobody = Nobody
SPECIFICATION Spec
SYMMETRY MCSymmetry
VIEW MCView
INVARIANTS
  TypeOK
  RestoredWhenAlone
  NobodyLeftImpersonated
  AddKeepsMembers
  AloneFailsOnlyUnchanged
