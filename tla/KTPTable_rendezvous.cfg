SPECIFICATION Spec
CONSTANTS
  p1 = p1
  p2 = p2
  p3 = p3
  NoProc = NoProc
  Procs <- TwoProcs
  Rows <- Two
  MaxFd = 2
  Serial = FALSE
  Settled = FALSE
  Closing = FALSE
  DieInside = FALSE
INVARIANTS
  ReturnedSocketIsOpen
