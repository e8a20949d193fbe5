SPECIFICATION FairSpec
CONSTANTS
  MaxMails = 3
  MaxId = 2
  Cmds = {"move", "stop", "emergencyStop", "JoyConGyro", "AprilTag", "getAirplaneState"}
CHECK_DEADLOCK FALSE
INVARIANTS NoDoubleHolder NoLostMail WriteNeedsPort RecordIsNewest IdMarksRecorded GetSeesNewestTag IdReuse
PROPERTIES LinkSpec EveryMailAnswered LatestIsRepeated
