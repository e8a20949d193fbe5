SPECIFICATION FairSpec
CONSTANTS
  MaxRequests = 3
  PiecesPerData = 2
CHECK_DEADLOCK FALSE
INVARIANTS OneResponseEach FramedUnlessOverlapped
PROPERTIES ImageIsSent
