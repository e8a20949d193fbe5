SPECIFICATION MulticastFairSpec
CONSTANTS
  Hosts = {h1, h2}
  MaxDatagrams = 3
CHECK_DEADLOCK FALSE
INVARIANTS QueriesAreAnswered
PROPERTIES BothChainsGoOn
