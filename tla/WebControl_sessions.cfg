SPECIFICATION FairSpec
CONSTANTS
  Sessions = {s1, s2}
  Cmds = {"scan", "ap", "getWlanDeviceState"}
  MaxRequests = 2
CHECK_DEADLOCK FALSE
INVARIANTS OneAnswerUnderWay PoolIsBounded
PROPERTIES ExchangeSpec EveryCommandAnswered
