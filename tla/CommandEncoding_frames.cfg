SPECIFICATION EncodingSpec
CONSTANTS
  Requests <- AllRequests
  Ids = {1, 255, 256, 62766}
CHECK_DEADLOCK FALSE
INVARIANTS FrameSaysRequest FrameIsWhole
