CONSTANTS
  BUFF_SIZE = 2
  MAX_SEQ_NUM = 5
  NetCap = 2
  MaxMsgs = 7
  MaxSessions = 2
  Lossy <- DataOnly
  Reordered <- None
  SlowNet = FALSE
SPECIFICATION Spec
PROPERTIES
  ReliableStream
CHECK_DEADLOCK FALSE
