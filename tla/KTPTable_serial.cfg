SPECIFICATION FairSpec
CONSTANTS
  p1 = p1
  p2 = p2
  p3 = p3
  NoProc = NoProc
  Procs <- ThreeProcs
  Rows <- Two
  MaxFd = 2
  Serial = TRUE
  Settled = TRUE
  Closing = TRUE
  DieInside = TRUE
INVARIANTS
  TypeOK
  ReturnedSocketIsOpen
  BoundToOwnPort
  NoSocketLeaks
  TableAgrees
PROPERTIES
  DeadRowsComeBack
  CallsReturn
CHECK_DEADLOCK FALSE
