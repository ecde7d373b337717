SPECIFICATION Spec
CONSTANTS
  w1 = w1
  w2 = w2
  w3 = w3
  None = None
  Workers <- ThreeWorkers
  NTasks = 2
  MAX_CLIENTS = 2
SYMMETRY Symmetric
INVARIANTS
  TypeOK
  HolderOwnsTask
  OnlyTheKilledKeepTasks
  ClientsTracked
  ShutdownIsClean
  NoHandlerForgotten
  ListIsTrue
CHECK_DEADLOCK FALSE
