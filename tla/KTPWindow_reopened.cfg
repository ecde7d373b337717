CONSTANTS
  BUFF_SIZE = 2
  MAX_SEQ_NUM = 12
  NetCap = 2
  MaxMsgs = 4
  MaxSessions = 2
  Lossy <- Everything
  Reordered <- DataOnly
  SlowNet = TRUE
SPECIFICATION Spec
PROPERTIES
  ReliableStream
CHECK_DEADLOCK FALSE
