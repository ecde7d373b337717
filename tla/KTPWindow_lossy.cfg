CONSTANTS
  BUFF_SIZE = 2
  MAX_SEQ_NUM = 5
  NetCap = 2
  MaxMsgs = 8
  MaxSessions = 1
  Lossy <- Everything
  Reordered <- None
  SlowNet = TRUE
SPECIFICATION Spec
INVARIANTS
  TypeOK
  NothingFreedEarly
  NumbersNameMessages
  WindowFitsBuffer
  SlotsHoldNextMessages
  RowsAgree
PROPERTIES
  ReliableStream
CHECK_DEADLOCK FALSE
