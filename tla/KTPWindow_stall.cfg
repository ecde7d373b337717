CONSTANTS
  BUFF_SIZE = 2
  MAX_SEQ_NUM = 5
  NetCap = 4
  MaxMsgs = 5
  MaxSessions = 1
  Lossy <- AcksOnly
  Reordered <- None
  SlowNet = FALSE
SPECIFICATION FairSpec
PROPERTIES
  SpaceIsAnnounced
CHECK_DEADLOCK FALSE
