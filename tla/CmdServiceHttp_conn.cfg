SPECIFICATION FairSpec
CONSTANTS
  Conns = {c1, c2}
  Commands <- MirrorCommands
  OtherKinds = {"atOnce", "state", "tag", "halfTag", "badTag", "illTypedTag"}
CHECK_DEADLOCK FALSE
INVARIANTS OneMailWhileWaiting TagsStayInOrder
PROPERTIES ExchangeSpec EveryConnectionEnds PassedCommandIsAnswered
