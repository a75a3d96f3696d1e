SPECIFICATION Spec
CONSTANTS
  c1 = c1
  c2 = c2
  Cid <- MCCid
  NoCid = NoCid
  r1 = r1
  r2 = r2
  Request = {r1, r2}
INVARIANT CanRestart
CHECK_DEADLOCK FALSE
