SPECIFICATION Spec
CONSTANTS
  Gateway <- MCGateway
  Chains <- MCChains
  Fetch = {f1, f2}
INVARIANTS TypeOK TallyMatchesTraffic HealthTellsTheTruth FirstHitElseLastFailure
PROPERTY NeverHangs
CHECK_DEADLOCK FALSE
