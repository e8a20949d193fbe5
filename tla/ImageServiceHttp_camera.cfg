SPECIFICATION FairSpec
CONSTANTS
  Clients = {c1, c2, c3}
  Conns = {c1, c2, c3}
  Cameras = {1, 3}
  Configured = {1}
  Threads = {t1, t2}
  Requests <- AllRequests
CHECK_DEADLOCK FALSE
INVARIANTS ReadsTakeTurns OneObjectPerCamera ImagesAreOfNewest OneMailWhileWaiting
PROPERTIES ExchangeSpec ImageIsAnswered
