CONSTANTS
  BUFF_SIZE = 3
  MAX_SEQ_NUM = 7
  NetCap = 5
  MaxMsgs = 9
  MaxSessions = 1
  Lossy <- None
  Reordered <- None
  SlowNet = FALSE
SPECIFICATION FairSpec
PROPERTIES
  ReliableFairStream
CHECK_DEADLOCK FALSE
