CONSTANTS
  i = i
  j = j
  p = p
  q = q
  SlotCount = 2
  Address = {a, b}
  None = None
  Id = {i, j}
  Client = {p, q}
  Mix <- MCMix
SPECIFICATION Spec
VIEW MCView
SYMMETRY MCSymmetry
INVARIANTS
  TypeOK
  NoCircularWait
  ApprovedIsApplied
  WaitingHasMembers
PROPERTIES
  CreateSupersedes
  ApprovalKeepsOthers
  SeedIsCurrent
