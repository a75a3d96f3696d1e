CONSTANTS
  m1 = m1
  m2 = m2
  m3 = m3
  Operator = {o}
  MaxKeys = 1
  Members <- MCMembers
  FastLane <- MCFastLane
  Quorum = 2
  Client = {p, q}
  Nobody = Nobody
  Genesis = 0
  SecondsPerSlot = 1
  SlotsPerEpoch = 2
  EpochsPerFrame = 1
  InitialEpoch = 1
  MinReward = 1
  RewardSpan = 1
  Ether = 1
  MaxTime = 6
  MaxCarried = 1
SPECIFICATION Spec
SYMMETRY MCSymmetry
VIEW MCView
INVARIANTS
  TypeOK
  Solvent
  AloneSubmits
