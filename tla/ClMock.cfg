SPECIFICATION Spec
CONSTANTS
  p1 = p1
  p2 = p2
  Pubkey <- MCPubkey
  Status <- MCStatus
  Known <- MCKnown
  UpIndex <- MCUpIndex
  AutoStart = 9
  Asks <- MCAsks
  Posts <- MCPosts
  Request = {r1, r2}
INVARIANTS TypeOK ConfiguredStays IndicesTellApart
